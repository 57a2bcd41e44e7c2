----------------------- MODULE RepositoryDaemonProofs -----------------------
(***************************************************************************)
(* What the repository daemon may rely on, for every set of paths and any  *)
(* number of edits: a path that the snapshot shows out of date is always   *)
(* on its way into it (RepositoryDaemon), and the batch of a burst of      *)
(* edits names every path that differs from what the last batch left,      *)
(* however the platform reports renames, unless the burst used the path    *)
(* again (WatchedBurst).  First come induction, sorted sequences and       *)
(* folds, then what the coalescer computes from them, then the inductive   *)
(* invariants of the two modules.                                          *)
(***************************************************************************)
EXTENDS RepositoryDaemon, WatchedBurst, FiniteSetTheorems, SequenceTheorems,
        WellFoundedInduction, TLAPS

\* Every set of natural numbers that is not empty has a least element.
LEMMA LeastNatural ==
    ASSUME NEW S \in SUBSET Nat, S # {}
    PROVE  \E m \in S : \A k \in S : m <= k
<1> DEFINE less == OpToRel(<, Nat)
<1>1. IsWellFoundedOn(less, Nat) BY NatLessThanWellFounded
<1>2. \A x, y \in Nat : y < x => <<y, x>> \in less BY DEF OpToRel
<1> HIDE DEF less
<1>3. PICK m \in S : \A y \in S : <<y, m>> \notin less BY <1>1, WFMin
<1>4. \A k \in S : ~ (k < m) BY <1>2, <1>3
<1>5. QED BY <1>4

\* Induction over the naturals, with a set in the place of a predicate: a set that
\* holds zero, and n + 1 with every n, holds every natural number.
LEMMA Induction ==
    ASSUME NEW T, 0 \in T, \A n \in Nat : n \in T => n + 1 \in T
    PROVE  Nat \subseteq T
<1> DEFINE S == Nat \ T
<1> SUFFICES ASSUME S # {} PROVE FALSE OBVIOUS
<1>1. PICK m \in S : \A k \in S : m <= k BY LeastNatural
<1>2. m \in Nat /\ m # 0 BY <1>1
<1>3. m - 1 \in Nat /\ ~(m <= m - 1) BY <1>2
<1>4. m - 1 \in T BY <1>1, <1>3
<1> QED BY <1>1, <1>2, <1>3, <1>4

\* A strict order that is total on a set, and a sequence that lines the set up by it.
StrictOrder(R, S) ==
    /\ \A a \in S : <<a, a>> \notin R
    /\ \A a, b \in S : a # b => <<a, b>> \in R \/ <<b, a>> \in R
    /\ \A a, b, c \in S : <<a, b>> \in R /\ <<b, c>> \in R => <<a, c>> \in R


LinedUp(s, R, S) ==
    /\ s \in [1..Cardinality(S) -> S]
    /\ \A i, j \in 1..Cardinality(S) : i < j => <<s[i], s[j]>> \in R

\* A finite set with a strict total order has a last element.
LEMMA LastExists ==
    ASSUME NEW R, NEW S, StrictOrder(R, S), IsFiniteSet(S), S # {}
    PROVE  \E x \in S : \A y \in S : y # x => <<y, x>> \in R
<1> DEFINE last(x, T) == \A y \in T : y # x => <<y, x>> \in R
           P(T) == T # {} => \E x \in T : last(x, T)
           N == { n \in Nat : \A T \in SUBSET S : Cardinality(T) = n => P(T) }
<1>1. 0 \in N
  <2>1. ASSUME NEW T \in SUBSET S, Cardinality(T) = 0 PROVE T = {}
    BY <2>1, FS_Subset, FS_EmptySet
  <2> QED BY <2>1
<1>2. ASSUME NEW n \in Nat, n \in N PROVE n + 1 \in N
  <2> SUFFICES ASSUME NEW T \in SUBSET S, Cardinality(T) = n + 1, T # {}
               PROVE  \E x \in T : last(x, T)
    OBVIOUS
  <2>1. PICK a \in T : TRUE OBVIOUS
  <2> DEFINE U == T \ {a}
  <2>2. Cardinality(U) = n /\ U \in SUBSET S /\ IsFiniteSet(T)
    <3>1. IsFiniteSet(T) BY FS_Subset
    <3>2. Cardinality(U) = Cardinality(T) - 1 BY <3>1, FS_RemoveElement
    <3>3. (n + 1) - 1 = n OBVIOUS
    <3> QED BY <3>1, <3>2, <3>3
  <2>3. P(U) BY <1>2, <2>2
  <2>4. CASE U = {}
    <3>1. T = {a} BY <2>1, <2>4
    <3> QED BY <3>1
  <2>5. CASE U # {}
    <3>1. PICK b \in U : last(b, U) BY <2>3, <2>5
    <3>2. CASE <<a, b>> \in R
      <4>1. last(b, T) BY <3>1, <3>2
      <4> QED BY <3>1, <4>1
    <3>3. CASE <<b, a>> \in R
      <4>1. last(a, T)
        <5> SUFFICES ASSUME NEW y \in T, y # a PROVE <<y, a>> \in R OBVIOUS
        <5>1. y \in S /\ b \in S /\ a \in S BY <3>1
        <5>2. y = b \/ <<y, b>> \in R BY <3>1
        <5> QED BY <3>3, <5>1, <5>2 DEF StrictOrder
      <4> QED BY <4>1
    <3>4. a # b /\ a \in S /\ b \in S BY <3>1
    <3> QED BY <3>2, <3>3, <3>4 DEF StrictOrder
  <2> QED BY <2>4, <2>5
<1> HIDE DEF N
<1>3. Nat \subseteq N BY <1>1, <1>2, Induction
<1>4. Cardinality(S) \in N BY <1>3, FS_CardinalityType
<1> QED BY <1>4 DEF N

\* Hence it can be lined up.
LEMMA LineUpExists ==
    ASSUME NEW R, NEW S, StrictOrder(R, S), IsFiniteSet(S)
    PROVE  \E s : LinedUp(s, R, S)
<1> DEFINE N == { n \in Nat : \A T \in SUBSET S : Cardinality(T) = n => \E s : LinedUp(s, R, T) }
<1>1. 0 \in N
  <2>1. ASSUME NEW T \in SUBSET S, Cardinality(T) = 0 PROVE \E s : LinedUp(s, R, T)
    <3>1. LinedUp([i \in 1..0 |-> i], R, T) BY <2>1 DEF LinedUp
    <3> QED BY <3>1
  <2> QED BY <2>1
<1>2. ASSUME NEW n \in Nat, n \in N PROVE n + 1 \in N
  <2> SUFFICES ASSUME NEW T \in SUBSET S, Cardinality(T) = n + 1
               PROVE  \E s : LinedUp(s, R, T)
    OBVIOUS
  <2>1. IsFiniteSet(T) /\ T # {} BY FS_Subset, FS_EmptySet
  <2>2. StrictOrder(R, T) BY DEF StrictOrder
  <2>3. PICK x \in T : \A y \in T : y # x => <<y, x>> \in R BY <2>1, <2>2, LastExists
  <2> DEFINE U == T \ {x}
  <2>4. Cardinality(U) = n /\ U \in SUBSET S
    <3>1. Cardinality(U) = Cardinality(T) - 1 BY <2>1, FS_RemoveElement
    <3>2. (n + 1) - 1 = n OBVIOUS
    <3> QED BY <3>1, <3>2
  <2> HIDE DEF U
  <2>5. PICK u : LinedUp(u, R, U) BY <1>2, <2>4
  <2> DEFINE s == [i \in 1..n + 1 |-> IF i = n + 1 THEN x ELSE u[i]]
  <2>6. \A i \in 1..n : u[i] \in U /\ s[i] = u[i] BY <2>4, <2>5 DEF LinedUp
  <2>7. s[n + 1] = x /\ U \subseteq T /\ x \notin U BY DEF U
  <2>8. s \in [1..n + 1 -> T]
    <3>1. \A i \in 1..n + 1 : i = n + 1 \/ i \in 1..n OBVIOUS
    <3>2. \A i \in 1..n + 1 : s[i] \in T
      <4> TAKE i \in 1..n + 1
      <4>1. CASE i = n + 1 BY <2>7, <4>1
      <4>2. CASE i \in 1..n BY <2>6, <2>7, <4>2
      <4> QED BY <3>1, <4>1, <4>2
    <3> QED BY <3>2
  <2>9. ASSUME NEW i \in 1..n + 1, NEW j \in 1..n + 1, i < j PROVE <<s[i], s[j]>> \in R
    <3>1. i \in 1..n BY <2>9
    <3>2. CASE j = n + 1 BY <2>3, <2>6, <2>7, <3>1, <3>2
    <3>3. CASE j # n + 1
      <4>1. j \in 1..n BY <3>3
      <4>2. <<u[i], u[j]>> \in R BY <2>4, <2>5, <2>9, <3>1, <4>1 DEF LinedUp
      <4> QED BY <2>6, <3>1, <4>1, <4>2
    <3> QED BY <3>2, <3>3
  <2> HIDE DEF s
  <2>10. LinedUp(s, R, T) BY <2>8, <2>9 DEF LinedUp
  <2> QED BY <2>10
<1> HIDE DEF N
<1>3. Nat \subseteq N BY <1>1, <1>2, Induction
<1>4. Cardinality(S) \in N BY <1>3, FS_CardinalityType
<1> QED BY <1>4 DEF N

\* The sequence holds each element once.
LEMMA LineUpAll ==
    ASSUME NEW R, NEW S, StrictOrder(R, S), IsFiniteSet(S), NEW s, LinedUp(s, R, S)
    PROVE  /\ s \in Seq(S) /\ Len(s) = Cardinality(S) /\ Range(s) = S
           /\ \A i, j \in 1..Len(s) : i # j => s[i] # s[j]
<1> DEFINE c == Cardinality(S)
<1>1. c \in Nat BY FS_CardinalityType
<1>2. s \in [1..c -> S] BY DEF LinedUp
<1>3. s \in Seq(S) /\ Len(s) = c
  <2> HIDE DEF c
  <2> QED BY <1>1, <1>2
<1>4. ASSUME NEW i \in 1..c, NEW j \in 1..c, i # j PROVE s[i] # s[j]
  <2>1. s[i] \in S /\ s[j] \in S BY <1>2
  <2>2. i < j \/ j < i BY <1>1, <1>4
  <2>3. <<s[i], s[j]>> \in R \/ <<s[j], s[i]>> \in R BY <2>2 DEF LinedUp
  <2> QED BY <2>1, <2>3 DEF StrictOrder
<1>5. s \in Injection(1..c, S) BY <1>2, <1>4 DEF Injection, IsInjective
<1>6. IsFiniteSet(1..c) /\ Cardinality(1..c) = c BY <1>1, FS_Interval
<1>7. s \in Surjection(1..c, S) BY <1>5, <1>6, FS_Injection
<1>8. Range(s) = S BY <1>2, <1>7 DEF Surjection, Range
<1> QED BY <1>3, <1>4, <1>8

-----------------------------------------------------------------------------
(***************************************************************************)
(* Folding a window.  FoldLeft is a recursive function over the sets of    *)
(* indices; only its values on initial segments are needed.                *)
(***************************************************************************)
\* The window in which nothing has happened, and the fold that begins there.
NothingYet == [active |-> [p \in Paths |-> Absent], deleted |-> {}]
Folded(changes) == FoldLeft(FoldChange, NothingYet, changes)

\* The recursive function that FoldLeft chooses.
FoldBody(f, s, t) ==
    IF t = {} THEN NothingYet ELSE FoldChange(f[t \ {Max(t)}], s[Max(t)])
IsFold(f, s, n) == f = [t \in SUBSET (1..n) |-> FoldBody(f, s, t)]

\* A set of indices has a greatest one.
LEMMA MaxIs ==
    ASSUME NEW n \in Nat, NEW t \in SUBSET (1..n), t # {}
    PROVE  Max(t) \in t /\ \A i \in t : i <= Max(t)
<1> DEFINE S == { k \in Nat : \A i \in t : i <= k }
<1>1. n \in S OBVIOUS
<1>2. PICK m \in S : \A k \in S : m <= k BY <1>1, LeastNatural
<1>3. m \in t
  <2> SUFFICES ASSUME m \notin t PROVE FALSE OBVIOUS
  <2>1. PICK i \in t : i \in 1..n /\ i <= m /\ i # m BY <1>2
  <2>2. m - 1 \in Nat /\ \A j \in t : j <= m - 1 BY <1>2, <2>1
  <2> QED BY <1>2, <2>2
<1>4. \A i \in t : m >= i BY <1>2
<1> QED BY <1>3, <1>4 DEF Max

\* The greatest index of an initial segment.
LEMMA MaxSegment ==
    ASSUME NEW n \in Nat
    PROVE  1..n + 1 # {} /\ Max(1..n + 1) = n + 1 /\ (1..n + 1) \ {n + 1} = 1..n
<1> DEFINE t == 1..n + 1
<1>1. n + 1 \in t /\ n + 1 \in Nat /\ t \in SUBSET (1..n + 1) OBVIOUS
<1>2. Max(t) \in t /\ n + 1 <= Max(t) BY <1>1, MaxIs
<1> QED BY <1>2

\* The function exists for every sequence.
LEMMA FoldExists ==
    ASSUME NEW s, NEW n \in Nat
    PROVE  \E f : IsFold(f, s, n)
<1> DEFINE T == { m \in Nat : \E f : IsFold(f, s, m) }
<1>1. 0 \in T
  <2> DEFINE f == [t \in SUBSET (1..0) |-> NothingYet]
  <2>1. \A t \in SUBSET (1..0) : t = {} OBVIOUS
  <2>2. IsFold(f, s, 0) BY <2>1 DEF IsFold, FoldBody
  <2> QED BY <2>2
<1>2. ASSUME NEW m \in Nat, m \in T PROVE m + 1 \in T
  <2>1. PICK f : IsFold(f, s, m) BY <1>2
  <2> DEFINE g == [t \in SUBSET (1..m + 1) |->
                      IF m + 1 \in t THEN FoldChange(f[t \ {m + 1}], s[m + 1]) ELSE f[t]]
  <2>2. \A t \in SUBSET (1..m) : t \in SUBSET (1..m + 1) /\ m + 1 \notin t OBVIOUS
  <2>3. \A t \in SUBSET (1..m) : g[t] = f[t] BY <2>2
  <2>4. ASSUME NEW t \in SUBSET (1..m + 1) PROVE g[t] = FoldBody(g, s, t)
    <3>1. CASE m + 1 \in t
      <4>1. Max(t) = m + 1
        <5>1. t # {} /\ m + 1 \in Nat BY <3>1
        <5> DEFINE x == Max(t)
        <5>2. x \in t /\ m + 1 <= x BY <3>1, <5>1, MaxIs
        <5> HIDE DEF x
        <5>3. x \in Nat /\ x <= m + 1 BY <5>2
        <5>4. x = m + 1 BY <5>2, <5>3
        <5> QED BY <5>4 DEF x
      <4>2. t \ {m + 1} \in SUBSET (1..m) OBVIOUS
      <4>3. g[t] = FoldChange(f[t \ {m + 1}], s[m + 1]) BY <3>1
      <4> HIDE DEF g
      <4> QED BY <2>3, <3>1, <4>1, <4>2, <4>3 DEF FoldBody
    <3>2. CASE m + 1 \notin t
      <4>1. t \in SUBSET (1..m) BY <3>2
      <4>2. t \ {Max(t)} \in SUBSET (1..m) BY <4>1
      <4>3. f[t] = FoldBody(f, s, t) BY <2>1, <4>1 DEF IsFold
      <4> HIDE DEF g
      <4> QED BY <2>3, <4>1, <4>2, <4>3 DEF FoldBody
    <3> QED BY <3>1, <3>2
  <2>5. g = [t \in SUBSET (1..m + 1) |-> g[t]] OBVIOUS
  <2> HIDE DEF g
  <2>6. IsFold(g, s, m + 1) BY <2>4, <2>5 DEF IsFold
  <2> QED BY <2>6
<1> HIDE DEF T
<1>3. Nat \subseteq T BY <1>1, <1>2, Induction
<1> QED BY <1>3 DEF T

\* FoldLeft is its value on all the indices.
LEMMA FoldedIs ==
    ASSUME NEW s, NEW n \in Nat, DOMAIN s = 1..n
    PROVE  \E f : IsFold(f, s, n) /\ Folded(s) = f[1..n]
<1>1. Folded(s) = (CHOOSE f : IsFold(f, s, n))[1..n]
  BY DEF Folded, FoldLeft, MapThenFoldSet, IsFold, FoldBody
<1> QED BY <1>1, FoldExists

\* Folding no change.
LEMMA FoldedEmpty == Folded(<<>>) = NothingYet
<1>1. DOMAIN <<>> = 1..0 /\ 0 \in Nat OBVIOUS
<1>2. PICK f : IsFold(f, <<>>, 0) /\ Folded(<<>>) = f[1..0] BY <1>1, FoldedIs
<1>3. 1..0 = {} /\ {} \in SUBSET (1..0) OBVIOUS
<1> QED BY <1>2, <1>3 DEF IsFold, FoldBody

\* Folding one change more.
LEMMA FoldedOn ==
    ASSUME NEW n \in Nat, NEW s, DOMAIN s = 1..n, NEW u, DOMAIN u = 1..n + 1,
           \A i \in 1..n : s[i] = u[i]
    PROVE  Folded(u) = FoldChange(Folded(s), u[n + 1])
<1>1. PICK f : IsFold(f, s, n) /\ Folded(s) = f[1..n] BY FoldedIs
<1>2. PICK g : IsFold(g, u, n + 1) /\ Folded(u) = g[1..n + 1] BY FoldedIs
<1> DEFINE l == n + 1
           t == 1..n + 1
<1>3. f[1..n] = g[1..n]
  <2> DEFINE T == { k \in Nat : k <= n => f[1..k] = g[1..k] }
  <2>1. l \in Nat /\ n <= l /\ IsFold(g, u, l) BY <1>2
  <2> HIDE DEF l
  <2>2. 0 \in T
    <3>1. 1..0 = {} OBVIOUS
    <3>2. {} \in SUBSET (1..n) /\ {} \in SUBSET (1..l) OBVIOUS
    <3>3. f[{}] = NothingYet /\ g[{}] = NothingYet
      BY <1>1, <2>1, <3>2 DEF IsFold, FoldBody
    <3> QED BY <3>1, <3>3
  <2>3. ASSUME NEW k \in Nat, k \in T PROVE k + 1 \in T
    <3> SUFFICES ASSUME k + 1 <= n PROVE f[1..k + 1] = g[1..k + 1] OBVIOUS
    <3> DEFINE r == 1..k + 1
    <3>1. r # {} /\ Max(r) = k + 1 /\ r \ {k + 1} = 1..k BY MaxSegment
    <3>2. r \in SUBSET (1..n) /\ r \in SUBSET (1..l) /\ k + 1 \in 1..n BY <2>1
    <3>3. f[1..k] = g[1..k] BY <2>3
    <3> HIDE DEF r
    <3>4. f[r] = FoldBody(f, s, r) /\ g[r] = FoldBody(g, u, r)
      BY <1>1, <2>1, <3>2 DEF IsFold
    <3>5. f[r] = FoldChange(f[1..k], s[k + 1]) BY <3>1, <3>4 DEF FoldBody
    <3>6. g[r] = FoldChange(g[1..k], u[k + 1]) BY <3>1, <3>4 DEF FoldBody
    <3> QED BY <3>2, <3>3, <3>5, <3>6 DEF r
  <2> HIDE DEF T
  <2>4. Nat \subseteq T BY <2>2, <2>3, Induction
  <2>5. n \in T BY <2>4
  <2> QED BY <2>5 DEF T
<1>4. t # {} /\ Max(t) = n + 1 /\ t \ {n + 1} = 1..n BY MaxSegment
<1>5. t \in SUBSET (1..n + 1) OBVIOUS
<1> HIDE DEF t
<1>6. g[t] = FoldChange(g[1..n], u[n + 1])
  <2>1. IsFold(g, u, l) /\ t \in SUBSET (1..l) BY <1>2, <1>5
  <2> HIDE DEF l
  <2>2. g[t] = FoldBody(g, u, t) BY <2>1 DEF IsFold
  <2>3. g[t] = FoldChange(g[t \ {Max(t)}], u[Max(t)]) BY <1>4, <2>2 DEF FoldBody
  <2> QED BY <1>4, <2>3
<1> QED BY <1>1, <1>2, <1>3, <1>6 DEF t

\* The same of a sequence to which a change is appended.
LEMMA FoldedAppend ==
    ASSUME NEW S, NEW s \in Seq(S), NEW c \in S
    PROVE  Folded(Append(s, c)) = FoldChange(Folded(s), c)
<1> DEFINE n == Len(s)
           u == Append(s, c)
<1>1. n \in Nat /\ DOMAIN s = 1..n /\ DOMAIN u = 1..n + 1 /\ u[n + 1] = c
      /\ \A i \in 1..n : s[i] = u[i]
  OBVIOUS
<1> HIDE DEF n, u
<1>2. Folded(u) = FoldChange(Folded(s), u[n + 1]) BY <1>1, FoldedOn
<1> QED BY <1>1, <1>2 DEF u

-----------------------------------------------------------------------------
(***************************************************************************)
(* Batches: the changes of a folded window, in the order of their kind and *)
(* their paths.                                                            *)
(***************************************************************************)
\* What a change is made of.
Changes == [kind : ChangeKinds, old : Paths \cup {NoPath}, new : Paths \cup {NoPath}]

\* The changes of the code are such records.
LEMMA ChangesTyped == IncrementalFileChange \subseteq Changes
BY PathsAssumption
   DEF IncrementalFileChange, Changes, ChangeKinds, Watched, added, modified, deleted, renamed

\* There are finitely many of them.
LEMMA ChangesFinite == IsFiniteSet(Changes)
<1> DEFINE P == Paths \cup {NoPath}
           f == [x \in (ChangeKinds \X P) \X P |->
                    [kind |-> x[1][1], old |-> x[1][2], new |-> x[2]]]
<1>1. IsFiniteSet(P) BY PathsAssumption, FS_AddElement
<1>2. IsFiniteSet(ChangeKinds)
  <2>1. IsFiniteSet({}) BY FS_EmptySet
  <2>2. IsFiniteSet({} \cup {"added"}) BY <2>1, FS_AddElement
  <2>3. IsFiniteSet(({} \cup {"added"}) \cup {"modified"}) BY <2>2, FS_AddElement
  <2>4. IsFiniteSet((({} \cup {"added"}) \cup {"modified"}) \cup {"deleted"})
    BY <2>3, FS_AddElement
  <2>5. IsFiniteSet(((({} \cup {"added"}) \cup {"modified"}) \cup {"deleted"}) \cup {"renamed"})
    BY <2>4, FS_AddElement
  <2>6. ((({} \cup {"added"}) \cup {"modified"}) \cup {"deleted"}) \cup {"renamed"} = ChangeKinds
    BY DEF ChangeKinds
  <2> QED BY <2>5, <2>6
<1>3. IsFiniteSet((ChangeKinds \X P) \X P) BY <1>1, <1>2, FS_Product
<1>4. \A x \in (ChangeKinds \X P) \X P : f[x] \in Changes BY DEF Changes
<1>5. \A c \in Changes : \E x \in (ChangeKinds \X P) \X P : f[x] = c
  <2> TAKE c \in Changes
  <2>1. PICK k \in ChangeKinds, p \in P, q \in P : c = [kind |-> k, old |-> p, new |-> q]
    BY DEF Changes
  <2>2. <<<<k, p>>, q>> \in (ChangeKinds \X P) \X P OBVIOUS
  <2>3. f[<<<<k, p>>, q>>] = c BY <2>1, <2>2
  <2> QED BY <2>2, <2>3
<1>6. f \in Surjection((ChangeKinds \X P) \X P, Changes)
  <2>1. f \in [(ChangeKinds \X P) \X P -> Changes] BY <1>4
  <2> HIDE DEF f
  <2> QED BY <1>5, <2>1 DEF Surjection
<1> QED BY <1>3, <1>6, FS_Surjection

\* Precedes orders them.
LEMMA PrecedesIsStrict ==
    ASSUME NEW R, \A c, d \in Changes : <<c, d>> \in R <=> Precedes(c, d)
    PROVE  StrictOrder(R, Changes)
<1> DEFINE rank(k) == KindRank[k]
<1>1. /\ rank("added") = 0 /\ rank("modified") = 1
      /\ rank("deleted") = 2 /\ rank("renamed") = 3
  BY DEF KindRank
<1>2. \A k \in ChangeKinds : rank(k) \in Nat BY <1>1 DEF ChangeKinds
<1>3. \A k, l \in ChangeKinds : rank(k) = rank(l) => k = l BY <1>1 DEF ChangeKinds
<1> HIDE DEF rank
<1>4. \A c, d \in Changes :
        Precedes(c, d) <=> \/ rank(c.kind) < rank(d.kind)
                           \/ c.kind = d.kind /\ c.old < d.old
                           \/ c.kind = d.kind /\ c.old = d.old /\ c.new < d.new
  BY DEF Precedes, rank
<1>5. \A c \in Changes : c.kind \in ChangeKinds /\ c.old \in Nat /\ c.new \in Nat
                         /\ rank(c.kind) \in Nat
  <2>1. Paths \cup {NoPath} \subseteq Nat BY PathsAssumption DEF NoPath
  <2>2. \A c \in Changes : c.kind \in ChangeKinds /\ c.old \in Nat /\ c.new \in Nat
    BY <2>1 DEF Changes
  <2> QED BY <1>2, <2>2
<1>6. \A c, d \in Changes : c.kind = d.kind /\ c.old = d.old /\ c.new = d.new => c = d
  BY DEF Changes
<1>7. \A c \in Changes : <<c, c>> \notin R BY <1>4, <1>5
<1>8. ASSUME NEW c \in Changes, NEW d \in Changes, c # d
      PROVE  <<c, d>> \in R \/ <<d, c>> \in R
  <2>1. Precedes(c, d) \/ Precedes(d, c) BY <1>3, <1>4, <1>5, <1>6, <1>8
  <2> QED BY <2>1
<1>9. ASSUME NEW c \in Changes, NEW d \in Changes, NEW e \in Changes,
             <<c, d>> \in R, <<d, e>> \in R
      PROVE  <<c, e>> \in R
  <2>1. Precedes(c, d) /\ Precedes(d, e) BY <1>9
  <2>2. Precedes(c, e) BY <1>4, <1>5, <2>1
  <2> QED BY <2>2
<1> QED BY <1>7, <1>8, <1>9 DEF StrictOrder

\* Putting changes in order loses none and invents none.
LEMMA InOrderIs ==
    ASSUME NEW S \in SUBSET Changes
    PROVE  InOrder(S, Precedes) \in Seq(S) /\ Range(InOrder(S, Precedes)) = S
<1> DEFINE R == { p \in Changes \X Changes : Precedes(p[1], p[2]) }
           sorted == InOrder(S, Precedes)
<1>1. IsFiniteSet(S) BY ChangesFinite, FS_Subset
<1>2. \A c, d \in Changes : <<c, d>> \in R <=> Precedes(c, d) OBVIOUS
<1> HIDE DEF R
<1>3. StrictOrder(R, S)
  <2>1. StrictOrder(R, Changes) BY <1>2, PrecedesIsStrict
  <2> QED BY <2>1 DEF StrictOrder
<1>4. PICK t : LinedUp(t, R, S) BY <1>1, <1>3, LineUpExists
<1>5. \A s \in [1..Cardinality(S) -> S] :
         LinedUp(s, R, S) <=> \A i, j \in DOMAIN s : i < j => Precedes(s[i], s[j])
  BY <1>2 DEF LinedUp
<1>6. LinedUp(sorted, R, S)
  <2>1. t \in [1..Cardinality(S) -> S] BY <1>4 DEF LinedUp
  <2>2. \E s \in [1..Cardinality(S) -> S] :
          \A i, j \in DOMAIN s : i < j => Precedes(s[i], s[j])
    BY <1>4, <1>5, <2>1
  <2>3. sorted \in [1..Cardinality(S) -> S]
        /\ \A i, j \in DOMAIN sorted : i < j => Precedes(sorted[i], sorted[j])
    BY <2>2 DEF InOrder
  <2> QED BY <1>5, <2>3
<1> HIDE DEF sorted
<1>7. sorted \in Seq(S) /\ Range(sorted) = S BY <1>1, <1>3, <1>6, LineUpAll
<1> QED BY <1>7 DEF sorted

\* A folded window: its paths are watched, and what is not active came from nowhere.
PathStates == [here : BOOLEAN, origin : Watched \cup {NoPath}, modified : BOOLEAN]
Window(w) ==
    /\ w = [active |-> w.active, deleted |-> w.deleted]
    /\ w.active \in [Paths -> PathStates] /\ w.deleted \in SUBSET Watched
    /\ \A p \in Paths : w.active[p].here => p \in Watched
    /\ \A p \in Paths : ~w.active[p].here => w.active[p].origin = NoPath

\* The changes that a folded window reports.
Reported(w) ==
    LET here == { p \in Paths : w.active[p].here }
    IN  { deleted(p) : p \in w.deleted }
          \cup { added(p) : p \in { q \in here : w.active[q].origin = NoPath } }
          \cup { renamed(w.active[p].origin, p) :
                   p \in { q \in here : w.active[q].origin \notin {NoPath, q} } }
          \cup { modified(p) :
                   p \in { q \in here : w.active[q].origin = q /\ w.active[q].modified } }

\* The batch of a window is a sequence of these.
LEMMA BatchIs ==
    ASSUME NEW w, Window(w)
    PROVE  /\ Batch(w) \in Seq(IncrementalFileChange) /\ Range(Batch(w)) = Reported(w)
           /\ Reported(w) = {} => Batch(w) = <<>>
<1> DEFINE S == Reported(w)
<1>1. S \subseteq IncrementalFileChange
  <2>1. \A p \in w.deleted : deleted(p) \in IncrementalFileChange
    BY DEF Window, IncrementalFileChange
  <2>2. \A p \in Paths : w.active[p].here =>
            added(p) \in IncrementalFileChange /\ modified(p) \in IncrementalFileChange
    BY DEF Window, IncrementalFileChange
  <2>3. ASSUME NEW p \in Paths, w.active[p].here, w.active[p].origin \notin {NoPath, p}
        PROVE  renamed(w.active[p].origin, p) \in IncrementalFileChange
    <3> DEFINE x == <<w.active[p].origin, p>>
    <3>1. x \in { q \in Watched \X Watched : q[1] # q[2] }
      BY <2>3 DEF Window, PathStates
    <3>2. renamed(w.active[p].origin, p) = renamed(x[1], x[2]) OBVIOUS
    <3> HIDE DEF x
    <3> QED BY <3>1, <3>2 DEF IncrementalFileChange
  <2> QED BY <2>1, <2>2, <2>3 DEF Reported
<1>2. Batch(w) = InOrder(S, Precedes) BY DEF Batch, Reported
<1>3. S \in SUBSET Changes BY <1>1, ChangesTyped
<1> HIDE DEF S
<1>4. Batch(w) \in Seq(S) /\ Range(Batch(w)) = S BY <1>2, <1>3, InOrderIs
<1>5. Batch(w) \in Seq(IncrementalFileChange) BY <1>1, <1>4, SeqMonotonic
<1>6. ASSUME S = {} PROVE Batch(w) = <<>>
  <2> DEFINE b == Batch(w)
  <2>1. b \in Seq({}) BY <1>4, <1>6
  <2> HIDE DEF b
  <2>2. b = <<>> BY <2>1
  <2> QED BY <2>2 DEF b
<1> QED BY <1>4, <1>5, <1>6 DEF S

-----------------------------------------------------------------------------
(***************************************************************************)
(* Ingesting and draining, as long as no tracker is involved.              *)
(***************************************************************************)
\* A window of which the state of one path is replaced.
LEMMA WindowWith ==
    ASSUME NEW w, Window(w), NEW p \in Paths, NEW state \in PathStates,
           state.here => p \in Watched, ~state.here => state.origin = NoPath,
           NEW gone \in SUBSET Watched
    PROVE  Window([active |-> [w.active EXCEPT ![p] = state], deleted |-> gone])
BY DEF Window

\* Folding a change keeps the shape of a window.
LEMMA FoldTyped ==
    ASSUME NEW w, Window(w), NEW c \in IncrementalFileChange
    PROVE  Window(FoldChange(w, c))
<1>1. w.active \in [Paths -> PathStates] /\ w.deleted \in SUBSET Watched
      /\ \A p \in Paths : w.active[p].here => p \in Watched
  BY DEF Window
<1>2. Watched \subseteq Paths /\ NoPath \notin Watched
  BY PathsAssumption DEF Watched, NoPath
<1>3. /\ Absent \in PathStates
      /\ \A o \in Watched \cup {NoPath}, m \in BOOLEAN : PathState(o, m) \in PathStates
  BY DEF PathStates, Absent, PathState
<1>4. CASE c \in { added(p) : p \in Watched }
  <2>1. PICK p \in Watched : c = added(p) BY <1>4
  <2>2. FoldChange(w, c) = FoldAdded(w, p) BY <2>1 DEF FoldChange, added
  <2>3. CASE p \in w.deleted
    <3> DEFINE state == PathState(p, TRUE)
               gone == w.deleted \ {p}
    <3>1. FoldChange(w, c) = [active |-> [w.active EXCEPT ![p] = state], deleted |-> gone]
      BY <2>2, <2>3 DEF FoldAdded
    <3>2. state \in PathStates /\ state.here /\ gone \in SUBSET Watched
      BY <1>1, <1>3 DEF PathState
    <3> HIDE DEF state, gone
    <3> QED BY <1>2, <3>1, <3>2, WindowWith
  <2>4. CASE p \notin w.deleted /\ w.active[p].here
    <3> DEFINE state == [w.active[p] EXCEPT !.modified = TRUE]
    <3>1. state \in PathStates /\ state.here BY <1>1, <1>2, <2>4 DEF PathStates
    <3>2. FoldChange(w, c) = [active |-> [w.active EXCEPT ![p] = state], deleted |-> w.deleted]
      BY <2>2, <2>4 DEF FoldAdded, Window
    <3> HIDE DEF state
    <3> QED BY <1>1, <1>2, <3>1, <3>2, WindowWith
  <2>5. CASE p \notin w.deleted /\ ~w.active[p].here
    <3> DEFINE state == PathState(NoPath, TRUE)
    <3>1. FoldChange(w, c) = [active |-> [w.active EXCEPT ![p] = state], deleted |-> w.deleted]
      BY <2>2, <2>5 DEF FoldAdded, Window
    <3>2. state \in PathStates /\ state.here BY <1>3 DEF PathState
    <3> HIDE DEF state
    <3> QED BY <1>1, <1>2, <3>1, <3>2, WindowWith
  <2> QED BY <2>3, <2>4, <2>5
<1>5. CASE c \in { modified(p) : p \in Watched }
  <2>1. PICK p \in Watched : c = modified(p) BY <1>5
  <2>2. FoldChange(w, c) = FoldModified(w, p) BY <2>1 DEF FoldChange, modified
  <2>3. [w.active[p] EXCEPT !.modified = TRUE] \in PathStates
    BY <1>1, <1>2 DEF PathStates, Absent
  <2> DEFINE state == IF w.active[p].here THEN [w.active[p] EXCEPT !.modified = TRUE]
                                          ELSE PathState(p, TRUE)
  <2>4. state \in PathStates /\ state.here BY <1>1, <1>2, <1>3, <2>3 DEF PathStates, PathState
  <2>5. FoldChange(w, c) = [active |-> [w.active EXCEPT ![p] = state],
                            deleted |-> w.deleted \ {p}]
    BY <1>1, <1>2, <2>2 DEF FoldModified
  <2> HIDE DEF state
  <2>6. w.deleted \ {p} \in SUBSET Watched BY <1>1
  <2> QED BY <1>2, <2>4, <2>5, <2>6, WindowWith
<1>6. CASE c \in { deleted(p) : p \in Watched }
  <2>1. PICK p \in Watched : c = deleted(p) BY <1>6
  <2>2. FoldChange(w, c) = FoldDeleted(w, p) BY <2>1 DEF FoldChange, deleted
  <2>3. Gone(w.deleted, w.active[p].origin) \in SUBSET Watched
    BY <1>1, <1>2 DEF Gone, PathStates, Absent
  <2> DEFINE gone == Gone(w.deleted, w.active[p].origin)
  <2> HIDE DEF gone
  <2>4. CASE w.active[p].here
    <3>1. FoldChange(w, c) = [active |-> [w.active EXCEPT ![p] = Absent], deleted |-> gone]
      BY <2>2, <2>4 DEF FoldDeleted, gone
    <3>2. Absent.here = FALSE /\ Absent.origin = NoPath BY DEF Absent
    <3> QED BY <1>2, <1>3, <2>3, <3>1, <3>2, WindowWith DEF gone
  <2>5. CASE ~w.active[p].here
    <3> DEFINE dead == w.deleted \cup {p}
    <3>1. FoldChange(w, c) = [active |-> w.active, deleted |-> dead]
      BY <2>2, <2>5 DEF FoldDeleted, Window
    <3>2. dead \in SUBSET Watched BY <1>1
    <3> HIDE DEF dead
    <3> QED BY <1>1, <3>1, <3>2 DEF Window
  <2> QED BY <2>4, <2>5
<1>7. CASE c \in { renamed(p[1], p[2]) : p \in { q \in Watched \X Watched : q[1] # q[2] } }
  <2>1. PICK p \in Watched, q \in Watched : p # q /\ c = renamed(p, q) BY <1>7
  <2>2. FoldChange(w, c) = FoldRenamed(w, p, q) BY <2>1 DEF FoldChange, renamed
  <2>3. Gone(w.deleted \ {p}, w.active[q].origin) \in SUBSET Watched
    BY <1>1, <1>2 DEF Gone, PathStates, Absent
  <2>4. w.active[p] \in PathStates /\ PathState(p, FALSE) \in PathStates
    BY <1>1, <1>2, <1>3
  <2> DEFINE state == IF w.active[p].here THEN w.active[p] ELSE PathState(p, FALSE)
             v == [active |-> [w.active EXCEPT ![p] = Absent, ![q] = state],
                   deleted |-> Gone(w.deleted \ {p}, w.active[q].origin)]
  <2>5. state \in PathStates /\ state.here BY <2>4 DEF PathState
  <2>6. FoldChange(w, c) = w \/ FoldChange(w, c) = v BY <2>2 DEF FoldRenamed
  <2> HIDE DEF state
  <2>7. Window(v)
    <3> DEFINE gone == Gone(w.deleted \ {p}, w.active[q].origin)
               u == [active |-> [w.active EXCEPT ![p] = Absent], deleted |-> gone]
    <3>1. v = [active |-> [u.active EXCEPT ![q] = state], deleted |-> gone] OBVIOUS
    <3> HIDE DEF gone
    <3>2. Absent.here = FALSE /\ Absent.origin = NoPath BY DEF Absent
    <3>3. Window(u) BY <1>2, <1>3, <2>3, <3>2, WindowWith DEF gone
    <3> HIDE DEF u, v
    <3> QED BY <1>2, <2>3, <2>5, <3>1, <3>3, WindowWith DEF gone
  <2> QED BY <2>6, <2>7
<1> QED BY <1>4, <1>5, <1>6, <1>7 DEF IncrementalFileChange

\* So folding a sequence of changes gives a window.
LEMMA FoldedTyped ==
    ASSUME NEW s \in Seq(IncrementalFileChange) PROVE Window(Folded(s))
<1> DEFINE T == { n \in Nat : \A u \in Seq(IncrementalFileChange) :
                                 Len(u) = n => Window(Folded(u)) }
<1>1. 0 \in T
  <2>1. Window(NothingYet) BY DEF NothingYet, Window, PathStates, Absent
  <2> SUFFICES ASSUME NEW u \in Seq(IncrementalFileChange), Len(u) = 0
               PROVE  Window(Folded(u))
    OBVIOUS
  <2>2. u = <<>> OBVIOUS
  <2> QED BY <2>1, <2>2, FoldedEmpty
<1>2. ASSUME NEW n \in Nat, n \in T PROVE n + 1 \in T
  <2> SUFFICES ASSUME NEW u \in Seq(IncrementalFileChange), Len(u) = n + 1
               PROVE  Window(Folded(u))
    OBVIOUS
  <2> DEFINE f == SubSeq(u, 1, n)
  <2>1. /\ f \in Seq(IncrementalFileChange) /\ Len(f) = n /\ DOMAIN u = 1..n + 1
        /\ \A i \in 1..n : f[i] = u[i]
        /\ u[n + 1] \in IncrementalFileChange
    OBVIOUS
  <2> HIDE DEF f
  <2>2. DOMAIN f = 1..n BY <2>1
  <2>3. Folded(u) = FoldChange(Folded(f), u[n + 1]) BY <2>1, <2>2, FoldedOn
  <2>4. Window(Folded(f)) BY <1>2, <2>1
  <2> QED BY <2>1, <2>3, <2>4, FoldTyped
<1> HIDE DEF T
<1>3. Nat \subseteq T BY <1>1, <1>2, Induction
<1>4. Len(s) \in T BY <1>3
<1> QED BY <1>4 DEF T

\* Draining a coalescer that tracks nothing folds its operations.
LEMMA DrainedIs ==
    ASSUME NEW c, c.tracked = <<>>, c.operations \in Seq(IncrementalFileChange)
    PROVE  Drained(c) = Batch(Folded(c.operations))
<1>1. Cardinality(DOMAIN c.tracked) = 0
  <2>1. DOMAIN c.tracked = {} OBVIOUS
  <2> QED BY <2>1, FS_EmptySet
<1> DEFINE rest == [i \in 1..Cardinality(DOMAIN c.tracked) |->
                      TrackedChange(c.tracked[InOrder(DOMAIN c.tracked, <)[i]])]
<1>2. rest = <<>>
  <2> DEFINE g(i) == TrackedChange(c.tracked[InOrder(DOMAIN c.tracked, <)[i]])
             k == Cardinality(DOMAIN c.tracked)
  <2>1. rest = [i \in 1..k |-> g(i)] OBVIOUS
  <2> HIDE DEF g, rest, k
  <2>2. rest = [i \in 1..k |-> rest[i]] BY <2>1
  <2> QED BY <1>1, <2>2 DEF k
<1>3. Drained(c) = coalesce_incremental_changes(c.operations \o rest)
  BY Zenon DEF Drained
<1> HIDE DEF rest
<1>4. c.operations \o <<>> = c.operations OBVIOUS
<1> QED BY <1>2, <1>3, <1>4, Zenon DEF coalesce_incremental_changes, Folded, NothingYet

-----------------------------------------------------------------------------
(***************************************************************************)
(* The coalescer.                                                          *)
(***************************************************************************)
\* A coalescer that holds some changes, and tracks some renames.
CoalescersOf(O, T) == [operations : Seq(O), tracked : T, revision : Nat]

\* Extending a coalescer.
LEMMA ExtendIs ==
    ASSUME NEW O, NEW T, NEW c \in CoalescersOf(O, T), NEW s \in Seq(O)
    PROVE  /\ extend(c, s) \in CoalescersOf(O, T)
           /\ extend(c, s).operations = c.operations \o s
           /\ extend(c, s).tracked = c.tracked
<1> DEFINE z == c.operations \o s
           k == c.revision + Len(s)
           S == Seq(O)
<1>1. z \in S /\ k \in Nat BY ConcatProperties DEF CoalescersOf
<1>2. extend(c, s) = [[c EXCEPT !.operations = z] EXCEPT !.revision = k]
  <2>1. c.operations \o s = z /\ k = c.revision + Len(s) OBVIOUS
  <2> HIDE DEF z, k
  <2> QED BY <2>1 DEF extend, CoalescersOf
<1>3. c \in [operations : S, tracked : T, revision : Nat] BY DEF CoalescersOf
<1> HIDE DEF z, k, S
<1>4. [[c EXCEPT !.operations = z] EXCEPT !.revision = k]
        \in [operations : S, tracked : T, revision : Nat]
  BY <1>1, <1>3
<1>5. /\ extend(c, s).operations = z /\ extend(c, s).tracked = c.tracked
  BY <1>2, <1>3
<1> QED BY <1>2, <1>4, <1>5 DEF z, S, CoalescersOf

\* Extending it by one change.
LEMMA ExtendByOne ==
    ASSUME NEW O, NEW T, NEW c \in CoalescersOf(O, T), NEW x \in O
    PROVE  /\ extend(c, <<x>>) \in CoalescersOf(O, T)
           /\ extend(c, <<x>>).operations = Append(c.operations, x)
           /\ extend(c, <<x>>).tracked = c.tracked
<1> DEFINE s == <<x>>
<1>1. s \in Seq(O) OBVIOUS
<1>2. c.operations \o s = Append(c.operations, x) BY DEF CoalescersOf
<1> HIDE DEF s
<1>3. extend(c, s) \in CoalescersOf(O, T) BY <1>1, ExtendIs
<1>4. extend(c, s).operations = c.operations \o s BY <1>1, ExtendIs
<1>5. extend(c, s).tracked = c.tracked BY <1>1, ExtendIs
<1> QED BY <1>2, <1>3, <1>4, <1>5 DEF s

\* The changes of an event that names one path.
LEMMA EachOfOne ==
    ASSUME NEW p \in Watched
    PROVE  /\ Classified(<<p>>) = <<p>>
           /\ Each(<<p>>, added) = <<added(p)>>
           /\ Each(<<p>>, modified) = <<modified(p)>>
           /\ Each(<<p>>, deleted) = <<deleted(p)>>
<1>1. p # NoPath /\ p \notin Ignored BY PathsAssumption DEF Watched, NoPath
<1>2. ASSUME NEW x PROVE FlattenSeq(<<<<x>>>>) = <<x>>
  <2> DEFINE seqs == <<<<x>>>>
             IsFlat(f) == f = [i \in 1..Len(seqs) |-> IF i = 1 THEN seqs[i]
                                                     ELSE f[i - 1] \o seqs[i]]
             flat == [i \in 1..1 |-> <<x>>]
  <2>1. Len(seqs) = 1 /\ seqs[1] = <<x>> OBVIOUS
  <2> HIDE DEF seqs
  <2>2. \A i \in 1..1 : i = 1 OBVIOUS
  <2>3. IsFlat(flat) BY <2>1, <2>2
  <2>4. FlattenSeq(seqs) = (CHOOSE f : IsFlat(f))[1] BY <2>1 DEF FlattenSeq
  <2>5. IsFlat(CHOOSE f : IsFlat(f)) BY <2>3
  <2>6. FlattenSeq(seqs) = seqs[1] BY <2>1, <2>4, <2>5
  <2> QED BY <2>1, <2>6 DEF seqs
<1>3. Classified(<<p>>) = <<p>> BY <1>1 DEF Classified
<1>4. Each(<<p>>, added) = <<added(p)>> BY <1>1, <1>2 DEF Each
<1>5. Each(<<p>>, modified) = <<modified(p)>> BY <1>1, <1>2 DEF Each
<1>6. Each(<<p>>, deleted) = <<deleted(p)>> BY <1>1, <1>2 DEF Each
<1> QED BY <1>3, <1>4, <1>5, <1>6

-----------------------------------------------------------------------------
(***************************************************************************)
(* The daemon (RepositoryDaemon), where every event says "created" or      *)
(* "written": a path that a change names stays named when the changes are  *)
(* folded, and is then read by the attempt that replaces it.               *)
(***************************************************************************)
\* No file is deleted, and a rename is reported as two paths that changed.
WritesOnly == Backends \subseteq {"any"} /\ "delete" \notin Edits

\* The changes that the coalescer then holds.
Writes == { added(p) : p \in Watched } \cup { modified(p) : p \in Watched }

\* What they name.
LEMMA WritesName ==
    /\ Writes \subseteq IncrementalFileChange
    /\ \A c \in Writes : NamedBy(c) = {c.new} /\ c.new \in Watched
    /\ \A p \in Watched : added(p) \in Writes /\ modified(p) \in Writes
                            /\ added(p).new = p /\ modified(p).new = p
<1>1. Writes \subseteq IncrementalFileChange BY DEF Writes, IncrementalFileChange
<1>2. \A p \in Watched : p # NoPath BY PathsAssumption DEF Watched, NoPath
<1>3. \A p \in Watched : added(p).old = NoPath /\ added(p).new = p
                           /\ modified(p).old = NoPath /\ modified(p).new = p
  BY DEF added, modified
<1>4. \A p \in Watched : NamedBy(added(p)) = {p} /\ NamedBy(modified(p)) = {p}
  BY <1>2, <1>3 DEF NamedBy
<1> QED BY <1>1, <1>3, <1>4 DEF Writes

\* The paths that a sequence of changes names.
LEMMA NamedIs ==
    ASSUME NEW s \in Seq(Writes)
    PROVE  \A p : p \in Named(s) <=> \E i \in 1..Len(s) : s[i].new = p
<1>1. DOMAIN s = 1..Len(s) /\ \A i \in 1..Len(s) : s[i] \in Writes OBVIOUS
<1>2. \A i \in 1..Len(s) : NamedBy(s[i]) = {s[i].new} BY <1>1, WritesName
<1>3. \A p : p \in Named(s) <=> \E c \in Range(s) : p \in NamedBy(c) BY DEF Named
<1>4. \A c : c \in Range(s) <=> \E i \in 1..Len(s) : s[i] = c BY <1>1 DEF Range
<1>5. \A p : p \in Named(s) <=> \E i \in 1..Len(s) : p \in NamedBy(s[i]) BY <1>3, <1>4
<1>6. \A p : \A i \in 1..Len(s) : p \in NamedBy(s[i]) <=> s[i].new = p BY <1>2
<1> QED BY <1>5, <1>6

\* One change more names one path more.
LEMMA NamedOn ==
    ASSUME NEW n \in Nat, NEW s \in Seq(Writes), Len(s) = n,
           NEW u \in Seq(Writes), Len(u) = n + 1, \A i \in 1..n : u[i] = s[i]
    PROVE  \A p : p \in Named(u) <=> p \in Named(s) \/ p = u[n + 1].new
<1>1. \A p : p \in Named(s) <=> \E i \in 1..n : s[i].new = p BY NamedIs
<1>2. \A p : p \in Named(u) <=> \E i \in 1..n + 1 : u[i].new = p BY NamedIs
<1>3. \A i : i \in 1..n + 1 <=> i \in 1..n \/ i = n + 1 OBVIOUS
<1> QED BY <1>1, <1>2, <1>3

\* Two sequences of changes, one behind the other, name what each names.
LEMMA NamedConcat ==
    ASSUME NEW s \in Seq(Writes), NEW u \in Seq(Writes)
    PROVE  /\ s \o u \in Seq(Writes)
           /\ \A p : p \in Named(s \o u) <=> p \in Named(s) \/ p \in Named(u)
<1> DEFINE t == s \o u
<1>1. t \in Seq(Writes) OBVIOUS
<1>2. /\ Len(s) \in Nat /\ Len(u) \in Nat /\ Len(t) = Len(s) + Len(u)
      /\ \A i \in 1..Len(s) : t[i] = s[i]
      /\ \A i \in 1..Len(u) : t[Len(s) + i] = u[i]
  OBVIOUS
<1> HIDE DEF t
<1>3. ASSUME NEW i \in 1..Len(t)
      PROVE  i \in 1..Len(s) \/ \E j \in 1..Len(u) : i = Len(s) + j
  <2>1. CASE i <= Len(s) BY <1>2, <2>1
  <2>2. CASE ~(i <= Len(s))
    <3>1. i - Len(s) \in 1..Len(u) /\ i = Len(s) + (i - Len(s)) BY <1>2, <2>2
    <3> QED BY <3>1
  <2> QED BY <2>1, <2>2
<1>4. /\ \A i \in 1..Len(s) : i \in 1..Len(t)
      /\ \A j \in 1..Len(u) : Len(s) + j \in 1..Len(t)
  BY <1>2
<1>5. \A p : p \in Named(t) <=> p \in Named(s) \/ p \in Named(u)
  <2> TAKE p
  <2>1. p \in Named(t) <=> \E i \in 1..Len(t) : t[i].new = p BY <1>1, NamedIs
  <2>2. p \in Named(s) <=> \E i \in 1..Len(s) : s[i].new = p BY NamedIs
  <2>3. p \in Named(u) <=> \E i \in 1..Len(u) : u[i].new = p BY NamedIs
  <2>4. ASSUME p \in Named(t) PROVE p \in Named(s) \/ p \in Named(u)
    <3>1. PICK i \in 1..Len(t) : t[i].new = p BY <2>1, <2>4
    <3>2. CASE i \in 1..Len(s) BY <1>2, <2>2, <3>1, <3>2
    <3>3. CASE \E j \in 1..Len(u) : i = Len(s) + j BY <1>2, <2>3, <3>1, <3>3
    <3> QED BY <1>3, <3>2, <3>3
  <2>5. ASSUME p \in Named(s) PROVE p \in Named(t)
    <3>1. PICK i \in 1..Len(s) : s[i].new = p BY <2>2, <2>5
    <3>2. i \in 1..Len(t) /\ t[i].new = p BY <1>2, <1>4, <3>1
    <3> QED BY <2>1, <3>2
  <2>6. ASSUME p \in Named(u) PROVE p \in Named(t)
    <3>1. PICK j \in 1..Len(u) : u[j].new = p BY <2>3, <2>6
    <3>2. Len(s) + j \in 1..Len(t) /\ t[Len(s) + j].new = p BY <1>2, <1>4, <3>1
    <3> QED BY <2>1, <3>2
  <2> QED BY <2>4, <2>5, <2>6
<1> QED BY <1>1, <1>5 DEF t

\* A window into which only such changes were folded: no path is gone, and the
\* ones that a change named are active, written, and come from nowhere else.
WrittenWindow(w, named) ==
    /\ Window(w) /\ w.deleted = {}
    /\ \A p \in Paths :
          /\ w.active[p].here <=> p \in named
          /\ w.active[p].here => /\ w.active[p].modified
                                 /\ w.active[p].origin \in {NoPath, p}

\* Folding such a change.
LEMMA WrittenOn ==
    ASSUME NEW w, NEW named, WrittenWindow(w, named), NEW c \in Writes, NEW more,
           \A p : p \in more <=> p \in named \/ p = c.new
    PROVE  WrittenWindow(FoldChange(w, c), more)
<1>1. Window(w) /\ Window(FoldChange(w, c)) /\ w.active \in [Paths -> PathStates]
  BY FoldTyped, WritesName DEF WrittenWindow, Window
<1>2. PICK p \in Watched : c = added(p) \/ c = modified(p) BY DEF Writes
<1>3. p \in Paths /\ c.new = p BY <1>2, WritesName DEF Watched
<1> DEFINE v == FoldChange(w, c)
<1>4. /\ v.deleted = {}
      /\ \E state : /\ v.active = [w.active EXCEPT ![p] = state]
                    /\ state.here /\ state.modified /\ state.origin \in {NoPath, p}
  <2>1. w.deleted = {} /\ w.active[p] \in PathStates
        /\ (w.active[p].here => w.active[p].origin \in {NoPath, p})
    BY <1>1, <1>3 DEF WrittenWindow
  <2> DEFINE kept == [w.active[p] EXCEPT !.modified = TRUE]
             here(o) == PathState(o, TRUE)
  <2>2. w.active[p].here =>
          kept.here /\ kept.modified /\ kept.origin \in {NoPath, p}
    BY <2>1 DEF PathStates
  <2>3. \A o : here(o).here /\ here(o).modified /\ here(o).origin = o BY DEF PathState
  <2>4. CASE c = added(p)
    <3>1. v = FoldAdded(w, p) BY <2>4 DEF FoldChange, added
    <3>2. CASE w.active[p].here
      <4>1. v.active = [w.active EXCEPT ![p] = kept] /\ v.deleted = w.deleted
        BY <1>1, <2>1, <3>1, <3>2 DEF FoldAdded, Window
      <4> HIDE DEF kept
      <4> QED BY <2>1, <2>2, <3>2, <4>1
    <3>3. CASE ~w.active[p].here
      <4>1. v.active = [w.active EXCEPT ![p] = here(NoPath)] /\ v.deleted = w.deleted
        BY <1>1, <2>1, <3>1, <3>3 DEF FoldAdded, Window
      <4> HIDE DEF here
      <4> QED BY <2>1, <2>3, <4>1
    <3> QED BY <3>2, <3>3
  <2>5. CASE c = modified(p)
    <3>1. v = FoldModified(w, p) BY <2>5 DEF FoldChange, modified
    <3>2. CASE w.active[p].here
      <4>1. v.active = [w.active EXCEPT ![p] = kept] /\ v.deleted = w.deleted \ {p}
        BY <1>1, <1>3, <2>1, <3>1, <3>2 DEF FoldModified
      <4> HIDE DEF kept
      <4> QED BY <2>1, <2>2, <3>2, <4>1
    <3>3. CASE ~w.active[p].here
      <4>1. v.active = [w.active EXCEPT ![p] = here(p)] /\ v.deleted = w.deleted \ {p}
        BY <1>1, <1>3, <2>1, <3>1, <3>3 DEF FoldModified
      <4> HIDE DEF here
      <4> QED BY <2>1, <2>3, <4>1
    <3> QED BY <3>2, <3>3
  <2> QED BY <1>2, <2>4, <2>5
<1> HIDE DEF v
<1>5. /\ v.active[p].here /\ v.active[p].modified /\ v.active[p].origin \in {NoPath, p}
      /\ \A q \in Paths : q # p => v.active[q] = w.active[q]
  BY <1>1, <1>3, <1>4
<1> QED BY <1>1, <1>3, <1>4, <1>5 DEF WrittenWindow, v

\* Folding a sequence of them.
LEMMA WrittenFolded ==
    ASSUME NEW s \in Seq(Writes) PROVE WrittenWindow(Folded(s), Named(s))
<1> DEFINE T == { n \in Nat : \A u \in Seq(Writes) :
                                 Len(u) = n => WrittenWindow(Folded(u), Named(u)) }
<1>1. 0 \in T
  <2> SUFFICES ASSUME NEW u \in Seq(Writes), Len(u) = 0
               PROVE  WrittenWindow(Folded(u), Named(u))
    OBVIOUS
  <2>1. u = <<>> OBVIOUS
  <2>2. Window(NothingYet) BY DEF NothingYet, Window, PathStates, Absent
  <2>3. \A p : p \notin Named(u)
    <3>1. \A p : p \in Named(u) <=> \E i \in 1..Len(u) : u[i].new = p BY NamedIs
    <3> QED BY <3>1
  <2>4. WrittenWindow(NothingYet, Named(u))
    BY <2>2, <2>3 DEF WrittenWindow, NothingYet, Absent
  <2> QED BY <2>1, <2>4, FoldedEmpty
<1>2. ASSUME NEW n \in Nat, n \in T PROVE n + 1 \in T
  <2> SUFFICES ASSUME NEW u \in Seq(Writes), Len(u) = n + 1
               PROVE  WrittenWindow(Folded(u), Named(u))
    OBVIOUS
  <2> DEFINE f == SubSeq(u, 1, n)
  <2>1. /\ f \in Seq(Writes) /\ Len(f) = n /\ DOMAIN u = 1..n + 1
        /\ \A i \in 1..n : u[i] = f[i]
        /\ u[n + 1] \in Writes
    OBVIOUS
  <2> HIDE DEF f
  <2>2. DOMAIN f = 1..n BY <2>1
  <2>3. Folded(u) = FoldChange(Folded(f), u[n + 1]) BY <2>1, <2>2, FoldedOn
  <2>4. WrittenWindow(Folded(f), Named(f)) BY <1>2, <2>1
  <2>5. \A p : p \in Named(u) <=> p \in Named(f) \/ p = u[n + 1].new BY <2>1, NamedOn
  <2> QED BY <2>1, <2>3, <2>4, <2>5, WrittenOn
<1> HIDE DEF T
<1>3. Nat \subseteq T BY <1>1, <1>2, Induction
<1>4. Len(s) \in T BY <1>3
<1> QED BY <1>4 DEF T

\* Draining such a coalescer: the batch names every path that it held.
LEMMA WritesDrained ==
    ASSUME NEW c \in CoalescersOf(Writes, {<<>>})
    PROVE  /\ Drained(c) \in Seq(Writes)
           /\ \A p : p \in Named(Drained(c)) <=> p \in Named(c.operations)
<1> DEFINE w == Folded(c.operations)
           batch == Drained(c)
<1>1. c.tracked = <<>> /\ c.operations \in Seq(Writes) BY DEF CoalescersOf
<1>2. c.operations \in Seq(IncrementalFileChange) BY <1>1, WritesName, SeqMonotonic
<1>3. WrittenWindow(w, Named(c.operations)) BY <1>1, WrittenFolded
<1>4. Window(w) BY <1>3 DEF WrittenWindow
<1>5. batch = Batch(w) BY <1>1, <1>2, DrainedIs
<1>6. batch \in Seq(IncrementalFileChange) /\ Range(batch) = Reported(w)
  BY <1>4, <1>5, BatchIs
<1> HIDE DEF w, batch
<1>7. \A p \in Paths : w.active[p].here => p \in Watched BY <1>4 DEF Window
<1>8. ASSUME NEW x PROVE x \in Reported(w) <=>
                           \E p \in Paths : /\ w.active[p].here
                                            /\ x = IF w.active[p].origin = p
                                                   THEN modified(p) ELSE added(p)
  <2>1. \A p \in Paths : p # NoPath BY PathsAssumption DEF NoPath
  <2> QED BY <1>3, <2>1 DEF Reported, WrittenWindow
<1>9. Reported(w) \subseteq Writes BY <1>7, <1>8, WritesName
<1>10. batch \in Seq(Writes)
  <2>1. \A i \in 1..Len(batch) : batch[i] \in Range(batch) BY <1>6 DEF Range
  <2>2. \A i \in 1..Len(batch) : batch[i] \in Writes BY <1>6, <1>9, <2>1
  <2> QED BY <1>6, <2>2
<1>11. \A p : p \in Named(batch) <=> \E x \in Reported(w) : x.new = p
  <2>1. \A p : p \in Named(batch) <=> \E i \in 1..Len(batch) : batch[i].new = p
    BY <1>10, NamedIs
  <2>2. DOMAIN batch = 1..Len(batch) BY <1>6
  <2> QED BY <1>6, <2>1, <2>2 DEF Range
<1>12. \A p : p \in Named(c.operations) => p \in Paths
  <2>1. \A i \in 1..Len(c.operations) : c.operations[i] \in Writes BY <1>1
  <2>2. \A i \in 1..Len(c.operations) : c.operations[i].new \in Paths
    BY <2>1, WritesName DEF Watched
  <2> QED BY <1>1, <2>2, NamedIs
<1>13. \A p : p \in Named(batch) <=> p \in Named(c.operations)
  <2>1. \A p \in Paths : w.active[p].here <=> p \in Named(c.operations)
    BY <1>3 DEF WrittenWindow
  <2>2. \A p \in Watched : added(p).new = p /\ modified(p).new = p BY WritesName
  <2> QED BY <1>7, <1>8, <1>11, <1>12, <2>1, <2>2
<1> QED BY <1>10, <1>13 DEF batch

\* An event that says that a path may have changed, and the events of the edits.
Reports(e, p) == e.kind = "rescan" \/ \E i \in DOMAIN e.paths : e.paths[i] = p
OnePath(e, p) ==
    \E k \in {"create", "modify", "any"} : e = watchEvent(k, <<p>>, NoTracker)
Rescan(e) == e = watchEvent("rescan", <<>>, NoTracker)
PlainEvents == { e \in [kind : {"create", "modify", "any", "rescan"},
                        paths : Seq(Paths), tracker : {NoTracker}] :
                   Rescan(e) \/ \E p \in Paths : OnePath(e, p) }

\* A coalescer that holds such changes.
Holds == CoalescersOf(Writes, {<<>>})

\* The changes of an event that names one path, which may be an ignored one.
LEMMA EachOfPath ==
    ASSUME NEW p \in Paths
    PROVE  /\ Len(Classified(<<p>>)) = 1
           /\ Each(Classified(<<p>>), added) = IF p \in Watched THEN <<added(p)>> ELSE <<>>
           /\ Each(Classified(<<p>>), modified) = IF p \in Watched THEN <<modified(p)>> ELSE <<>>
           /\ Each(Classified(<<p>>), deleted) = IF p \in Watched THEN <<deleted(p)>> ELSE <<>>
<1>1. CASE p \in Watched
  <2>1. Classified(<<p>>) = <<p>> BY <1>1, EachOfOne
  <2>2. /\ Each(<<p>>, added) = <<added(p)>> /\ Each(<<p>>, modified) = <<modified(p)>>
        /\ Each(<<p>>, deleted) = <<deleted(p)>>
    BY <1>1, EachOfOne
  <2> QED BY <1>1, <2>1, <2>2
<1>2. CASE p \notin Watched
  <2>1. p \in Ignored BY <1>2 DEF Watched
  <2>2. Classified(<<p>>) = <<NoPath>> BY <2>1 DEF Classified
  <2>3. FlattenSeq(<<<<>>>>) = <<>>
    <3> DEFINE seqs == <<<<>>>>
               IsFlat(f) == f = [i \in 1..Len(seqs) |-> IF i = 1 THEN seqs[i]
                                                       ELSE f[i - 1] \o seqs[i]]
               flat == [i \in 1..1 |-> <<>>]
    <3>1. Len(seqs) = 1 /\ seqs[1] = <<>> OBVIOUS
    <3> HIDE DEF seqs
    <3>2. \A i \in 1..1 : i = 1 OBVIOUS
    <3>3. IsFlat(flat) BY <3>1, <3>2
    <3>4. FlattenSeq(seqs) = (CHOOSE f : IsFlat(f))[1] BY <3>1 DEF FlattenSeq
    <3>5. IsFlat(CHOOSE f : IsFlat(f)) BY <3>3
    <3>6. FlattenSeq(seqs) = seqs[1] BY <3>1, <3>4, <3>5
    <3> QED BY <3>1, <3>6 DEF seqs
  <2>4. /\ Each(<<NoPath>>, added) = <<>> /\ Each(<<NoPath>>, modified) = <<>>
        /\ Each(<<NoPath>>, deleted) = <<>>
    BY <2>3 DEF Each
  <2>5. Len(<<NoPath>>) = 1 OBVIOUS
  <2> QED BY <1>2, <2>2, <2>4, <2>5
<1> QED BY <1>1, <1>2

\* Extending such a coalescer by nothing, or by one change.
LEMMA HoldsOn ==
    ASSUME NEW c \in Holds
    PROVE  /\ extend(c, <<>>) \in Holds
           /\ \A p : p \in Named(extend(c, <<>>).operations) <=> p \in Named(c.operations)
           /\ \A x \in Writes :
                 /\ extend(c, <<x>>) \in Holds
                 /\ \A p : p \in Named(extend(c, <<x>>).operations)
                             <=> p \in Named(c.operations) \/ p = x.new
<1>1. c.operations \in Seq(Writes) BY DEF Holds, CoalescersOf
<1>2. extend(c, <<>>) \in Holds /\ extend(c, <<>>).operations = c.operations
  <2> DEFINE s == <<>>
  <2>1. s \in Seq(Writes) /\ c.operations \o s = c.operations BY <1>1
  <2> HIDE DEF s
  <2>2. extend(c, s) \in Holds BY <2>1, ExtendIs DEF Holds
  <2>3. extend(c, s).operations = c.operations \o s BY <2>1, ExtendIs DEF Holds
  <2> QED BY <2>1, <2>2, <2>3 DEF s
<1>3. ASSUME NEW x \in Writes
      PROVE  /\ extend(c, <<x>>) \in Holds
             /\ \A p : p \in Named(extend(c, <<x>>).operations)
                         <=> p \in Named(c.operations) \/ p = x.new
  <2>1. extend(c, <<x>>) \in Holds BY ExtendByOne DEF Holds
  <2>2. extend(c, <<x>>).operations = Append(c.operations, x) BY ExtendByOne DEF Holds
  <2> DEFINE n == Len(c.operations)
             u == Append(c.operations, x)
  <2>3. /\ n \in Nat /\ u \in Seq(Writes) /\ Len(u) = n + 1 /\ u[n + 1] = x
        /\ \A i \in 1..n : u[i] = c.operations[i]
    BY <1>1
  <2> HIDE DEF u
  <2>4. \A p : p \in Named(u) <=> p \in Named(c.operations) \/ p = x.new
    <3> HIDE DEF n
    <3> QED BY <1>1, <2>3, NamedOn DEF n
  <2> QED BY <2>1, <2>2, <2>4 DEF u
<1> QED BY <1>2, <1>3

\* Ingesting an event: what was named stays named, and what the event reports is
\* named now, or the configuration file is.
LEMMA IngestIs ==
    ASSUME NEW c \in Holds, NEW e \in PlainEvents
    PROVE  /\ ingest(c, e) \in Holds
           /\ \A p : p \in Named(c.operations) => p \in Named(ingest(c, e).operations)
           /\ \A p \in Watched : Reports(e, p) =>
                 \/ p \in Named(ingest(c, e).operations)
                 \/ ConfigPath \in Named(ingest(c, e).operations)
<1>1. CASE Rescan(e)
  <2>1. ingest(c, e) = extend(c, <<modified(ConfigPath)>>)
    BY <1>1, Zenon DEF ingest, Rescan, watchEvent
  <2>2. ConfigPath \in Watched BY PathsAssumption DEF Watched
  <2>3. modified(ConfigPath) \in Writes /\ modified(ConfigPath).new = ConfigPath
    BY <2>2, WritesName
  <2> QED BY <2>1, <2>3, HoldsOn
<1>2. ASSUME NEW q \in Paths, OnePath(e, q)
      PROVE  /\ ingest(c, e) \in Holds
             /\ \A p : p \in Named(c.operations) => p \in Named(ingest(c, e).operations)
             /\ \A p \in Watched : Reports(e, p) =>
                   p \in Named(ingest(c, e).operations)
  <2>1. \/ ingest(c, e) = extend(c, Each(Classified(<<q>>), added))
        \/ ingest(c, e) = extend(c, Each(Classified(<<q>>), modified))
    <3>1. CASE e = watchEvent("create", <<q>>, NoTracker)
      BY <3>1, Zenon DEF ingest, watchEvent
    <3>2. CASE e = watchEvent("modify", <<q>>, NoTracker)
      <4>1. e.kind = "modify" /\ e.paths = <<q>> BY <3>2 DEF watchEvent
      <4> QED BY <4>1, Zenon DEF ingest
    <3>3. CASE e = watchEvent("any", <<q>>, NoTracker)
      <4>1. e.kind = "any" /\ e.paths = <<q>> BY <3>3 DEF watchEvent
      <4>2. Len(Classified(<<q>>)) = 1 BY EachOfPath
      <4>3. Len(Classified(<<q>>)) # 2 BY <4>2
      <4> QED BY <4>1, <4>3, Zenon DEF ingest
    <3> QED BY <1>2, <3>1, <3>2, <3>3 DEF OnePath
  <2>2. \A p : Reports(e, p) => p = q BY <1>2 DEF Reports, OnePath, watchEvent
  <2>3. CASE q \in Watched
    <3>1. /\ added(q) \in Writes /\ modified(q) \in Writes
          /\ added(q).new = q /\ modified(q).new = q
      BY <2>3, WritesName
    <3>2. ingest(c, e) = extend(c, <<added(q)>>) \/ ingest(c, e) = extend(c, <<modified(q)>>)
      BY <2>1, <2>3, EachOfPath
    <3> QED BY <2>2, <3>1, <3>2, HoldsOn
  <2>4. CASE q \notin Watched
    <3>1. ingest(c, e) = extend(c, <<>>) BY <2>1, <2>4, EachOfPath
    <3> QED BY <2>2, <2>4, <3>1, HoldsOn
  <2> QED BY <2>3, <2>4
<1> QED BY <1>1, <1>2 DEF PlainEvents

-----------------------------------------------------------------------------
\* An attempt of the daemon.
Outcomes == {"none", "completed", "cancelled", "failed"}
AttemptsOf(C, R) == [stage : Stages, changes : C, flush : BOOLEAN, cancelled : BOOLEAN,
                     mode : Modes, read : R, outcome : Outcomes]
Attempts == AttemptsOf(Seq(Writes), [Paths -> Nat])

\* A path is reported to the daemon, or collected by it, apart from the attempt.
OnItsWay(p) ==
    \/ \E i \in 1..Len(events) : Reports(events[i], p)
    \/ p \in Named(coalescer.operations)
    \/ ConfigPath \in Named(coalescer.operations)

\* The values of the variables.
DaemonTyped ==
    /\ files \in [Paths -> Nat] /\ edits \in Nat /\ snapshot \in [Paths -> Nat]
    /\ events \in Seq(PlainEvents) /\ coalescer \in Holds /\ active \in Attempts
    /\ stopping \in BOOLEAN

\* Without an attempt there are no changes, an attempt that is over has ended
\* somehow, and only a full scan answers for the configuration file.
AttemptSound ==
    /\ active.stage = "none" => active.changes = <<>>
    /\ active.stage = "done" => active.outcome # "none"
    /\ active.stage \in {"analysing", "analysed", "committing"} /\ active.mode # "full"
         => ConfigPath \notin Named(active.changes)

\* A path that changed behind the analysis that read it is on its way.
ReadOrReported ==
    active.stage \in {"analysed", "committing"} =>
        \A p \in Watched : active.read[p] # files[p] => OnItsWay(p)

\* What a promoted attempt leaves out of date is on its way without it.
PromotedOrReported ==
    active.outcome = "completed" =>
        \A p \in Watched : snapshot[p] # files[p] => OnItsWay(p) \/ dropped

\* A path out of date is on its way, or a change of the attempt.
StaleOnItsWay ==
    \A p \in Watched :
        snapshot[p] # files[p] =>
            \/ OnItsWay(p) \/ dropped
            \/ p \in Named(active.changes) \/ ConfigPath \in Named(active.changes)

DaemonInv ==
    DaemonTyped /\ AttemptSound /\ ReadOrReported /\ PromotedOrReported /\ StaleOnItsWay

\* It says what the daemon promises.
LEMMA StaleIsOnItsWay ==
    ASSUME DaemonInv PROVE StaleIsPending
<1> SUFFICES ASSUME NEW p \in Watched, snapshot[p] # files[p]
             PROVE  \/ p \in EventPaths \cup CoalescerPaths \cup Named(active.changes)
                    \/ RescanDue \/ dropped
  BY DEF StaleIsPending
<1>1. \A x : x \in Named(coalescer.operations) => x \in CoalescerPaths BY DEF CoalescerPaths
<1>2. events \in Seq(PlainEvents) BY DEF DaemonInv, DaemonTyped
<1>3. ASSUME NEW i \in 1..Len(events), Reports(events[i], p)
      PROVE  p \in EventPaths \/ RescanDue
  <2>1. i \in DOMAIN events /\ events[i] \in PlainEvents BY <1>2
  <2>2. CASE events[i].kind = "rescan" BY <2>1, <2>2 DEF RescanDue
  <2>3. CASE \E j \in DOMAIN events[i].paths : events[i].paths[j] = p
    <3>1. p \in Range(events[i].paths) BY <2>3 DEF Range
    <3> QED BY <2>1, <3>1 DEF EventPaths
  <2> QED BY <1>3, <2>2, <2>3 DEF Reports
<1>4. CASE OnItsWay(p) BY <1>1, <1>3, <1>4 DEF OnItsWay, RescanDue
<1>5. CASE ConfigPath \in Named(active.changes) BY <1>5 DEF RescanDue
<1> QED BY <1>4, <1>5 DEF DaemonInv, StaleOnItsWay

\* The daemon starts beside a snapshot of the files.
LEMMA DaemonStarts ==
    ASSUME Init PROVE DaemonInv
<1>1. /\ files \in [Paths -> Contents] /\ edits = 0 /\ events = <<>>
      /\ coalescer = Emptied /\ active = NoAttempt /\ snapshot = files
      /\ stopping = FALSE
  BY DEF Init
<1>2. Contents \subseteq Nat /\ Paths \subseteq Nat
  BY PathsAssumption, RepositoryAssumption DEF Contents, Original
<1>3. coalescer \in Holds BY <1>1 DEF Emptied, Holds, CoalescersOf
<1>4. active \in Attempts
  <2> DEFINE R == [Paths -> Nat]
             C == Seq(Writes)
             r == [p \in Paths |-> 0]
  <2>1. r \in R /\ <<>> \in C OBVIOUS
  <2>2. active = [stage |-> "none", changes |-> <<>>, flush |-> FALSE, cancelled |-> FALSE,
                  mode |-> "full", read |-> r, outcome |-> "none"]
    BY <1>1 DEF NoAttempt
  <2> HIDE DEF R, C, r
  <2>3. active \in AttemptsOf(C, R)
    BY <2>1, <2>2 DEF AttemptsOf, Stages, Modes, Outcomes
  <2> QED BY <2>3 DEF Attempts, R, C
<1>5. events \in Seq(PlainEvents) BY <1>1
<1>6. DaemonTyped BY <1>1, <1>2, <1>3, <1>4, <1>5 DEF DaemonTyped
<1>7. active.stage = "none" /\ active.changes = <<>> /\ active.outcome = "none"
  BY <1>1 DEF NoAttempt
<1> QED BY <1>1, <1>6, <1>7
        DEF DaemonInv, AttemptSound, ReadOrReported, PromotedOrReported, StaleOnItsWay

\* A step that leaves the snapshot and the attempt, but for its token, and after
\* which every path is on its way that was, or that the step changed.
LEMMA DaemonKept ==
    ASSUME DaemonInv, DaemonTyped', UNCHANGED <<snapshot, dropped>>,
           active'.stage = active.stage, active'.changes = active.changes,
           active'.mode = active.mode, active'.read = active.read,
           active'.outcome = active.outcome,
           \A p \in Watched : OnItsWay(p) => OnItsWay(p)',
           \A p \in Watched : files'[p] = files[p] \/ OnItsWay(p)'
    PROVE  DaemonInv'
<1>1. AttemptSound' BY DEF DaemonInv, AttemptSound
<1>2. ReadOrReported' BY DEF DaemonInv, ReadOrReported
<1>3. PromotedOrReported' BY DEF DaemonInv, PromotedOrReported
<1>4. StaleOnItsWay' BY DEF DaemonInv, StaleOnItsWay
<1> QED BY <1>1, <1>2, <1>3, <1>4 DEF DaemonInv

\* Cancelling an attempt sets its token.
LEMMA CancelledIs ==
    ASSUME NEW a \in Attempts
    PROVE  /\ Cancelled(a) \in Attempts
           /\ Cancelled(a).stage = a.stage /\ Cancelled(a).changes = a.changes
           /\ Cancelled(a).mode = a.mode /\ Cancelled(a).read = a.read
           /\ Cancelled(a).outcome = a.outcome
<1> DEFINE C == Seq(Writes)
           R == [Paths -> Nat]
           b == Cancelled(a)
<1>1. a \in AttemptsOf(C, R) BY DEF Attempts
<1>2. b = a \/ b = [a EXCEPT !.cancelled = TRUE] BY DEF Cancelled
<1> HIDE DEF C, R, b
<1>3. /\ b \in AttemptsOf(C, R) /\ b.stage = a.stage /\ b.changes = a.changes
      /\ b.mode = a.mode /\ b.read = a.read /\ b.outcome = a.outcome
  BY <1>1, <1>2 DEF AttemptsOf
<1> QED BY <1>3 DEF Attempts, C, R, b

\* The events of the edits are plain, and report what they are about.
LEMMA PlainEventIs ==
    /\ \A p \in Paths, k \in {"create", "modify", "any"} :
          /\ watchEvent(k, <<p>>, NoTracker) \in PlainEvents
          /\ Reports(watchEvent(k, <<p>>, NoTracker), p)
    /\ watchEvent("rescan", <<>>, NoTracker) \in PlainEvents
    /\ \A p : Reports(watchEvent("rescan", <<>>, NoTracker), p)
<1> DEFINE E == [kind : {"create", "modify", "any", "rescan"},
                 paths : Seq(Paths), tracker : {NoTracker}]
<1>1. ASSUME NEW s \in Seq(Paths), NEW k \in {"create", "modify", "any", "rescan"}
      PROVE  watchEvent(k, s, NoTracker) \in E
  BY DEF watchEvent
<1>2. ASSUME NEW p \in Paths, NEW k \in {"create", "modify", "any"}
      PROVE  /\ watchEvent(k, <<p>>, NoTracker) \in PlainEvents
             /\ Reports(watchEvent(k, <<p>>, NoTracker), p)
  <2> DEFINE s == <<p>>
             e == watchEvent(k, s, NoTracker)
  <2>1. s \in Seq(Paths) /\ 1 \in DOMAIN s /\ s[1] = p OBVIOUS
  <2>2. OnePath(e, p) BY DEF OnePath
  <2> HIDE DEF s
  <2>3. e \in E BY <1>1, <2>1
  <2>4. e.paths = s BY DEF watchEvent
  <2>5. Reports(e, p) BY <2>1, <2>4 DEF Reports
  <2> HIDE DEF e
  <2>6. e \in PlainEvents BY <2>2, <2>3 DEF PlainEvents
  <2> QED BY <2>5, <2>6 DEF e, s
<1>3. /\ watchEvent("rescan", <<>>, NoTracker) \in PlainEvents
      /\ \A p : Reports(watchEvent("rescan", <<>>, NoTracker), p)
  <2> DEFINE s == <<>>
             e == watchEvent("rescan", s, NoTracker)
  <2>1. s \in Seq(Paths) OBVIOUS
  <2>2. Rescan(e) BY DEF Rescan
  <2> HIDE DEF s
  <2>3. e \in E /\ e.kind = "rescan" BY <1>1, <2>1 DEF watchEvent
  <2> HIDE DEF e
  <2>4. e \in PlainEvents BY <2>2, <2>3 DEF PlainEvents
  <2>5. \A p : Reports(e, p) BY <2>3 DEF Reports
  <2> QED BY <2>4, <2>5 DEF e, s
<1> QED BY <1>2, <1>3

\* An edit reports every path that it changes.
LEMMA EditReports ==
    ASSUME WritesOnly, DaemonTyped, Edit \/ TouchFlushed
    PROVE  /\ files' \in [Paths -> Nat] /\ edits' \in Nat
           /\ \E evs \in Seq(PlainEvents) :
                 /\ events' = events \o evs
                 /\ \A p \in Paths : files'[p] = files[p]
                                       \/ \E i \in 1..Len(evs) : Reports(evs[i], p)
<1> DEFINE Reported_(evs) == \A p \in Paths : files'[p] = files[p]
                                \/ \E i \in 1..Len(evs) : Reports(evs[i], p)
<1>1. /\ files \in [Paths -> Nat] /\ edits \in Nat /\ edits + 1 \in Nat
      /\ Edited \subseteq Paths
  BY RepositoryAssumption DEF DaemonTyped
<1>2. ASSUME NEW p \in Paths, NEW x \in Nat, files' = [files EXCEPT ![p] = x],
             NEW e \in PlainEvents, Reports(e, p), NEW k, Written(k, <<e>>)
      PROVE  /\ files' \in [Paths -> Nat] /\ edits' \in Nat
             /\ \E evs \in Seq(PlainEvents) : events' = events \o evs /\ Reported_(evs)
  <2> DEFINE evs == <<e>>
  <2>1. evs \in Seq(PlainEvents) /\ 1 \in 1..Len(evs) /\ evs[1] = e OBVIOUS
  <2>2. events' = events \o evs /\ edits' = edits + 1 BY <1>2 DEF Written
  <2> HIDE DEF evs
  <2>3. files' \in [Paths -> Nat] /\ \A q \in Paths : q # p => files'[q] = files[q]
    BY <1>1, <1>2
  <2>4. Reported_(evs) BY <1>2, <2>1, <2>3
  <2> HIDE DEF Reported_
  <2> QED BY <1>1, <2>1, <2>2, <2>3, <2>4
<1>3. ASSUME NEW p \in Edited, Create(p)
      PROVE  /\ files' \in [Paths -> Nat] /\ edits' \in Nat
             /\ \E evs \in Seq(PlainEvents) : events' = events \o evs /\ Reported_(evs)
  <2> DEFINE e == watchEvent("create", <<p>>, NoTracker)
  <2>1. e \in PlainEvents /\ Reports(e, p) BY <1>1, PlainEventIs
  <2>2. Written("create", <<e>>) /\ files' = [files EXCEPT ![p] = edits + 1]
    BY <1>3 DEF Create
  <2> HIDE DEF e, Reported_
  <2> QED BY <1>1, <1>2, <2>1, <2>2
<1>4. ASSUME NEW p \in Edited, Modify(p)
      PROVE  /\ files' \in [Paths -> Nat] /\ edits' \in Nat
             /\ \E evs \in Seq(PlainEvents) : events' = events \o evs /\ Reported_(evs)
  <2> DEFINE e == watchEvent("modify", <<p>>, NoTracker)
  <2>1. e \in PlainEvents /\ Reports(e, p) BY <1>1, PlainEventIs
  <2>2. Written("modify", <<e>>) /\ files' = [files EXCEPT ![p] = edits + 1]
    BY <1>4 DEF Modify
  <2> HIDE DEF e, Reported_
  <2> QED BY <1>1, <1>2, <2>1, <2>2
<1>5. ASSUME NEW p \in Edited, Delete(p) PROVE FALSE
  BY <1>5 DEF Delete, Written, WritesOnly
<1>6. ASSUME NEW p \in Edited, Overflow(p)
      PROVE  /\ files' \in [Paths -> Nat] /\ edits' \in Nat
             /\ \E evs \in Seq(PlainEvents) : events' = events \o evs /\ Reported_(evs)
  <2> DEFINE e == watchEvent("rescan", <<>>, NoTracker)
             x == IF files[p] = 0 THEN edits + 1 ELSE 0
  <2>1. e \in PlainEvents /\ Reports(e, p) BY PlainEventIs
  <2>2. Written("overflow", <<e>>) BY <1>6 DEF Overflow
  <2>3. files' = [files EXCEPT ![p] = x] /\ x \in Nat BY <1>1, <1>6 DEF Overflow
  <2> HIDE DEF e, x, Reported_
  <2> QED BY <1>1, <1>2, <2>1, <2>2, <2>3
<1>7. ASSUME NEW p \in Edited, NEW q \in Edited, Rename(p, q)
      PROVE  /\ files' \in [Paths -> Nat] /\ edits' \in Nat
             /\ \E evs \in Seq(PlainEvents) : events' = events \o evs /\ Reported_(evs)
  <2> DEFINE d == watchEvent("any", <<p>>, NoTracker)
             e == watchEvent("any", <<q>>, NoTracker)
             evs == <<d, e>>
  <2>1. d \in PlainEvents /\ Reports(d, p) /\ e \in PlainEvents /\ Reports(e, q)
    BY <1>1, PlainEventIs
  <2>2. RenameEvents("any", p, q) = evs BY DEF RenameEvents
  <2>3. PICK backend \in Backends :
          Written(IF files[q] = 0 THEN "rename" ELSE "overwrite", RenameEvents(backend, p, q))
    BY <1>7 DEF Rename
  <2>4. backend = "any" BY DEF WritesOnly
  <2>5. events' = events \o evs /\ edits' = edits + 1 BY <2>2, <2>3, <2>4 DEF Written
  <2>6. files' = [files EXCEPT ![p] = 0, ![q] = files[p]] BY <1>7 DEF Rename
  <2> HIDE DEF d, e
  <2>7. /\ evs \in Seq(PlainEvents) /\ 1 \in 1..Len(evs) /\ 2 \in 1..Len(evs)
        /\ evs[1] = d /\ evs[2] = e
    BY <2>1
  <2> HIDE DEF evs
  <2>8. /\ files' \in [Paths -> Nat]
        /\ \A r \in Paths : r # p /\ r # q => files'[r] = files[r]
    BY <1>1, <2>6
  <2>9. Reported_(evs) BY <2>1, <2>7, <2>8
  <2> HIDE DEF Reported_
  <2> QED BY <1>1, <2>5, <2>7, <2>8, <2>9
<1>8. ASSUME TouchFlushed
      PROVE  /\ files' \in [Paths -> Nat] /\ edits' \in Nat
             /\ \E evs \in Seq(PlainEvents) : events' = events \o evs /\ Reported_(evs)
  <2>1. PICK p \in Edited : Touch(p) BY <1>8 DEF TouchFlushed
  <2> DEFINE e == watchEvent("modify", <<p>>, NoTracker)
             evs == <<e>>
  <2>2. e \in PlainEvents BY <1>1, PlainEventIs
  <2>3. events' = Append(events, e) /\ UNCHANGED <<files, edits>> BY <2>1 DEF Touch
  <2> HIDE DEF e
  <2>4. events \in Seq(PlainEvents) BY DEF DaemonTyped
  <2>5. evs \in Seq(PlainEvents) /\ Append(events, e) = events \o evs BY <2>2, <2>4
  <2>6. Reported_(evs) BY <2>3
  <2> HIDE DEF evs, Reported_
  <2> QED BY <1>1, <2>3, <2>5, <2>6
<1> HIDE DEF Reported_
<1>9. /\ files' \in [Paths -> Nat] /\ edits' \in Nat
      /\ \E evs \in Seq(PlainEvents) : events' = events \o evs /\ Reported_(evs)
  <2>1. CASE Edit BY <1>3, <1>4, <1>5, <1>6, <1>7, <2>1 DEF Edit
  <2>2. CASE TouchFlushed BY <1>8, <2>2
  <2> QED BY <2>1, <2>2
<1> QED BY <1>9 DEF Reported_

\* What is on its way stays there when events are added behind.
LEMMA EditKeeps ==
    ASSUME WritesOnly, DaemonInv, Edit \/ TouchFlushed, UNCHANGED daemonVars
    PROVE  DaemonInv'
<1>1. DaemonTyped BY DEF DaemonInv
<1>2. UNCHANGED <<coalescer, active, snapshot, dropped, stopping>> BY DEF daemonVars
<1>3. PICK evs \in Seq(PlainEvents) :
        /\ events' = events \o evs
        /\ \A p \in Paths : files'[p] = files[p] \/ \E i \in 1..Len(evs) : Reports(evs[i], p)
  BY <1>1, EditReports
<1>4. files' \in [Paths -> Nat] /\ edits' \in Nat BY <1>1, EditReports
<1>5. events \in Seq(PlainEvents) BY <1>1 DEF DaemonTyped
<1>6. events' \in Seq(PlainEvents)
  <2>1. events \o evs \in Seq(PlainEvents) BY <1>5
  <2> QED BY <1>3, <2>1
<1>7. DaemonTyped' BY <1>1, <1>2, <1>4, <1>6 DEF DaemonTyped
<1>8. /\ \A i \in 1..Len(events) : i \in 1..Len(events') /\ events'[i] = events[i]
      /\ \A i \in 1..Len(evs) : /\ Len(events) + i \in 1..Len(events')
                                /\ events'[Len(events) + i] = evs[i]
  BY <1>3, <1>5
<1>9. \A p \in Watched : OnItsWay(p) => OnItsWay(p)' BY <1>2, <1>8 DEF OnItsWay
<1>10. \A p \in Watched : files'[p] = files[p] \/ OnItsWay(p)'
  <2> TAKE p \in Watched
  <2>1. p \in Paths BY DEF Watched
  <2>2. CASE \E i \in 1..Len(evs) : Reports(evs[i], p)
    BY <1>8, <2>2 DEF OnItsWay
  <2> QED BY <1>3, <2>1, <2>2
<1> QED BY <1>2, <1>7, <1>9, <1>10, DaemonKept

\* Ingesting takes a path from the channel into the coalescer.
LEMMA IngestKeeps ==
    ASSUME DaemonInv, Ingest PROVE DaemonInv'
<1>1. DaemonTyped BY DEF DaemonInv
<1>2. /\ events # <<>> /\ events' = Tail(events)
      /\ coalescer' = ingest(coalescer, Head(events))
      /\ active' = active \/ active' = Cancelled(active)
      /\ UNCHANGED <<files, edits, snapshot, dropped, stopping>>
  BY DEF Ingest
<1>3. /\ events \in Seq(PlainEvents) /\ coalescer \in Holds /\ active \in Attempts
  BY <1>1 DEF DaemonTyped
<1>4. /\ 1 \in 1..Len(events) /\ Head(events) = events[1] /\ events[1] \in PlainEvents
      /\ events' \in Seq(PlainEvents)
      /\ \A i \in 1..Len(events) : i # 1 =>
            i - 1 \in 1..Len(events') /\ events'[i - 1] = events[i]
  <2>1. /\ 1 \in 1..Len(events) /\ Head(events) = events[1] /\ events[1] \in PlainEvents
        /\ Tail(events) \in Seq(PlainEvents) /\ Len(Tail(events)) = Len(events) - 1
        /\ \A j \in 1..Len(events) - 1 : Tail(events)[j] = events[j + 1]
    BY <1>2, <1>3
  <2>2. \A i \in 1..Len(events) : i # 1 => i - 1 \in 1..Len(events) - 1 /\ (i - 1) + 1 = i
    BY <1>3
  <2> QED BY <1>2, <2>1, <2>2
<1>5. /\ coalescer' \in Holds
      /\ \A p : p \in Named(coalescer.operations) => p \in Named(coalescer'.operations)
      /\ \A p \in Watched : Reports(events[1], p) =>
            p \in Named(coalescer'.operations) \/ ConfigPath \in Named(coalescer'.operations)
  BY <1>2, <1>3, <1>4, IngestIs
<1>6. /\ active' \in Attempts
      /\ active'.stage = active.stage /\ active'.changes = active.changes
      /\ active'.mode = active.mode /\ active'.read = active.read
      /\ active'.outcome = active.outcome
  BY <1>2, <1>3, CancelledIs
<1>7. DaemonTyped' BY <1>1, <1>2, <1>4, <1>5, <1>6 DEF DaemonTyped
<1>8. ASSUME NEW p \in Watched, OnItsWay(p) PROVE OnItsWay(p)'
  <2>1. CASE \E i \in 1..Len(events) : Reports(events[i], p)
    <3>1. PICK i \in 1..Len(events) : Reports(events[i], p) BY <2>1
    <3>2. CASE i = 1 BY <1>5, <3>1, <3>2 DEF OnItsWay
    <3>3. CASE i # 1 BY <1>4, <3>1, <3>3 DEF OnItsWay
    <3> QED BY <3>2, <3>3
  <2> QED BY <1>5, <1>8, <2>1 DEF OnItsWay
<1> QED BY <1>2, <1>6, <1>7, <1>8, DaemonKept

\* An attempt that moved: its changes are the same.
Moved(a, b, s, m, r, o) ==
    /\ b \in Attempts /\ b.stage = s /\ b.mode = m /\ b.read = r /\ b.outcome = o
    /\ b.changes = a.changes

\* The ways in which the runner moves it.
LEMMA AttemptMoves ==
    ASSUME NEW a \in Attempts, NEW s \in Stages
    PROVE  /\ Moved(a, [a EXCEPT !.stage = s], s, a.mode, a.read, a.outcome)
           /\ \A m \in Modes :
                 Moved(a, [a EXCEPT !.stage = s, !.mode = m], s, m, a.read, a.outcome)
           /\ \A r \in [Paths -> Nat] :
                 Moved(a, [a EXCEPT !.stage = s, !.read = r], s, a.mode, r, a.outcome)
           /\ \A o \in Outcomes :
                 Moved(a, [a EXCEPT !.stage = s, !.outcome = o], s, a.mode, a.read, o)
<1> DEFINE C == Seq(Writes)
           R == [Paths -> Nat]
           M(b, m, r, o) == /\ b \in AttemptsOf(C, R) /\ b.stage = s /\ b.mode = m
                            /\ b.read = r /\ b.outcome = o /\ b.changes = a.changes
<1>1. a \in AttemptsOf(C, R) BY DEF Attempts
<1>2. \A b, m, r, o : M(b, m, r, o) => Moved(a, b, s, m, r, o) BY DEF Moved, Attempts
<1> HIDE DEF C, R
<1>3. M([a EXCEPT !.stage = s], a.mode, a.read, a.outcome) BY <1>1 DEF AttemptsOf
<1>4. ASSUME NEW m \in Modes
      PROVE  M([a EXCEPT !.stage = s, !.mode = m], m, a.read, a.outcome)
  BY <1>1 DEF AttemptsOf
<1>5. ASSUME NEW r \in R
      PROVE  M([a EXCEPT !.stage = s, !.read = r], a.mode, r, a.outcome)
  BY <1>1 DEF AttemptsOf
<1>6. ASSUME NEW o \in Outcomes
      PROVE  M([a EXCEPT !.stage = s, !.outcome = o], a.mode, a.read, o)
  BY <1>1 DEF AttemptsOf
<1> HIDE DEF M
<1> QED BY <1>2, <1>3, <1>4, <1>5, <1>6 DEF R

\* A step that moves the attempt and leaves the snapshot as it is.
LEMMA AttemptMoved ==
    ASSUME DaemonInv, UNCHANGED <<files, edits, events, coalescer, dropped, snapshot, stopping>>,
           NEW s, NEW m, NEW r, NEW o, Moved(active, active', s, m, r, o),
           s # "none", s = "done" => o \in {"cancelled", "failed"},
           s \in {"analysing", "analysed", "committing"} /\ m # "full"
             => ConfigPath \notin Named(active.changes),
           s \in {"analysed", "committing"} =>
             \A p \in Watched : r[p] # files[p] => OnItsWay(p),
           o # "completed" \/ o = active.outcome
    PROVE  DaemonInv'
<1>1. DaemonTyped' BY DEF DaemonInv, DaemonTyped, Moved
<1>2. AttemptSound' BY DEF AttemptSound, Moved
<1>3. \A p \in Watched : OnItsWay(p)' <=> OnItsWay(p) BY DEF OnItsWay
<1>4. ReadOrReported' BY <1>3 DEF ReadOrReported, Moved
<1>5. PromotedOrReported' BY <1>3 DEF DaemonInv, PromotedOrReported, Moved
<1>6. StaleOnItsWay' BY <1>3 DEF DaemonInv, StaleOnItsWay, Moved
<1> QED BY <1>1, <1>2, <1>4, <1>5, <1>6 DEF DaemonInv

\* A change of the configuration file is left to the full scan.
LEMMA EligibleIs ==
    ASSUME DaemonTyped, NEW mode \in Modes, mode # "full", Eligible(mode)
    PROVE  ConfigPath \notin Named(active.changes)
<1>1. CASE mode = "delta" BY <1>1 DEF Eligible, DeltaEligible
<1>2. CASE mode = "noop"
  <2>1. Len(active.changes) = 1 /\ active.changes[1].new # ConfigPath
    BY <1>2 DEF Eligible, NoopEligible
  <2>2. active.changes \in Seq(Writes) BY DEF DaemonTyped, Attempts, AttemptsOf
  <2>3. \A i \in 1..Len(active.changes) : i = 1 BY <2>1
  <2>4. \A p : p \in Named(active.changes)
                 <=> \E i \in 1..Len(active.changes) : active.changes[i].new = p
    BY <2>2, NamedIs
  <2> QED BY <2>1, <2>3, <2>4
<1> QED BY <1>1, <1>2 DEF Modes

\* The steps of the runner before the promotion.
LEMMA RunKeeps ==
    ASSUME DaemonInv, RunStart \/ RunAnalysis \/ RunFallback \/ RunAnalysed \/ RunFails
    PROVE  DaemonInv'
<1>1. DaemonTyped /\ AttemptSound /\ ReadOrReported BY DEF DaemonInv
<1>2. UNCHANGED <<files, edits, events, coalescer, dropped, snapshot, stopping>>
  BY DEF RunStart, RunAnalysis, RunFallback, RunAnalysed, RunFails, runnerUnchanged
<1>3. active \in Attempts /\ files \in [Paths -> Nat] BY <1>1 DEF DaemonTyped
<1>4. {"analysing", "analysed", "committing", "done"} \subseteq Stages
      /\ {"cancelled", "failed"} \subseteq Outcomes
  BY DEF Stages, Outcomes
<1>5. ASSUME NEW o \in {"cancelled", "failed"}, Ends(o) PROVE DaemonInv'
  <2>1. Moved(active, active', "done", active.mode, active.read, o)
    BY <1>3, <1>4, <1>5, AttemptMoves DEF Ends
  <2> QED BY <1>2, <2>1, AttemptMoved
<1>6. ASSUME NEW mode \in Modes, Eligible(mode),
             active' = [active EXCEPT !.stage = "analysing", !.mode = mode]
      PROVE  DaemonInv'
  <2>1. Moved(active, active', "analysing", mode, active.read, active.outcome)
    BY <1>3, <1>4, <1>6, AttemptMoves
  <2>2. mode # "full" => ConfigPath \notin Named(active.changes)
    BY <1>1, <1>6, EligibleIs
  <2> QED BY <1>2, <2>1, <2>2, AttemptMoved
<1>7. CASE RunStart BY <1>5, <1>6, <1>7 DEF RunStart
<1>8. CASE RunAnalysis
  <2>1. active.stage = "analysing"
        /\ active' = [active EXCEPT !.stage = "analysed", !.read = files]
    BY <1>8 DEF RunAnalysis
  <2>2. Moved(active, active', "analysed", active.mode, files, active.outcome)
    BY <1>3, <1>4, <2>1, AttemptMoves
  <2>3. active.mode # "full" => ConfigPath \notin Named(active.changes)
    BY <1>1, <2>1 DEF AttemptSound
  <2> QED BY <1>2, <2>2, <2>3, AttemptMoved
<1>9. CASE RunFallback BY <1>6, <1>9 DEF RunFallback
<1>10. CASE RunAnalysed
  <2>1. CASE Ends("cancelled") BY <1>5, <2>1
  <2>2. CASE active.stage = "analysed" /\ active' = [active EXCEPT !.stage = "committing"]
    <3>1. Moved(active, active', "committing", active.mode, active.read, active.outcome)
      BY <1>3, <1>4, <2>2, AttemptMoves
    <3>2. active.mode # "full" => ConfigPath \notin Named(active.changes)
      BY <1>1, <2>2 DEF AttemptSound
    <3>3. \A p \in Watched : active.read[p] # files[p] => OnItsWay(p)
      BY <1>1, <2>2 DEF ReadOrReported
    <3> QED BY <1>2, <3>1, <3>2, <3>3, AttemptMoved
  <2> QED BY <1>10, <2>1, <2>2 DEF RunAnalysed
<1>11. CASE RunFails BY <1>5, <1>11 DEF RunFails
<1> QED BY <1>7, <1>8, <1>9, <1>10, <1>11

\* The promotion: what it replaced is as it was read, the rest as it was, and no
\* change of the configuration file stands behind the rest.
LEMMA CommitKeeps ==
    ASSUME DaemonInv, RunCommit PROVE DaemonInv'
<1>1. DaemonTyped /\ AttemptSound /\ ReadOrReported /\ StaleOnItsWay BY DEF DaemonInv
<1>2. /\ active.stage = "committing"
      /\ UNCHANGED <<files, edits, events, coalescer, dropped, stopping>>
  BY DEF RunCommit, runnerUnchanged
<1>3. active \in Attempts /\ snapshot \in [Paths -> Nat] /\ active.read \in [Paths -> Nat]
  BY <1>1 DEF DaemonTyped, Attempts, AttemptsOf
<1>4. "done" \in Stages /\ "cancelled" \in Outcomes /\ "completed" \in Outcomes
  BY DEF Stages, Outcomes
<1>5. CASE Ends("cancelled") /\ UNCHANGED snapshot
  <2>1. Moved(active, active', "done", active.mode, active.read, "cancelled")
    BY <1>3, <1>4, <1>5, AttemptMoves DEF Ends
  <2> QED BY <1>2, <1>5, <2>1, AttemptMoved
<1>6. CASE Promotion
  <2>1. Moved(active, active', "done", active.mode, active.read, "completed")
    BY <1>3, <1>4, <1>6, AttemptMoves DEF Promotion, Ends
  <2>2. snapshot' = [p \in Paths |-> IF p \in Replaced THEN active.read[p] ELSE snapshot[p]]
    BY <1>6 DEF Promotion
  <2>3. snapshot' \in [Paths -> Nat] BY <1>3, <2>2
  <2>4. \A p \in Watched : OnItsWay(p)' <=> OnItsWay(p) BY <1>2 DEF OnItsWay
  <2>5. ASSUME NEW p \in Watched, snapshot'[p] # files[p] PROVE OnItsWay(p) \/ dropped
    <3>1. p \in Paths BY DEF Watched
    <3>2. CASE p \in Replaced
      <4>1. active.read[p] # files[p] BY <2>2, <2>5, <3>1, <3>2
      <4> QED BY <1>1, <1>2, <4>1 DEF ReadOrReported
    <3>3. CASE p \notin Replaced
      <4>1. snapshot[p] # files[p] BY <2>2, <2>5, <3>1, <3>3
      <4>2. active.mode # "full" /\ p \notin Named(active.changes)
        BY <3>1, <3>3 DEF Replaced
      <4>3. ConfigPath \notin Named(active.changes) BY <1>1, <1>2, <4>2 DEF AttemptSound
      <4> QED BY <1>1, <4>1, <4>2, <4>3 DEF StaleOnItsWay
    <3> QED BY <3>2, <3>3
  <2>6. DaemonTyped' BY <1>1, <1>2, <2>1, <2>3 DEF DaemonTyped, Moved
  <2>7. AttemptSound' BY <2>1 DEF AttemptSound, Moved
  <2>8. ReadOrReported' BY <2>1 DEF ReadOrReported, Moved
  <2>9. PromotedOrReported' BY <1>2, <2>4, <2>5 DEF PromotedOrReported
  <2>10. StaleOnItsWay' BY <1>2, <2>4, <2>5 DEF StaleOnItsWay
  <2> QED BY <2>6, <2>7, <2>8, <2>9, <2>10 DEF DaemonInv
<1> QED BY <1>5, <1>6 DEF RunCommit

\* Draining hands what was collected to the attempt.
LEMMA DrainKeeps ==
    ASSUME DaemonInv, Drain PROVE DaemonInv'
<1>1. DaemonTyped /\ AttemptSound /\ StaleOnItsWay BY DEF DaemonInv
<1>2. /\ active.stage = "none" /\ coalescer' = Emptied
      /\ UNCHANGED <<files, edits, events, dropped, snapshot, stopping>>
  BY DEF Drain, Idle
<1>3. active.changes = <<>> BY <1>1, <1>2 DEF AttemptSound
<1>4. coalescer \in Holds BY <1>1 DEF DaemonTyped
<1>5. /\ Drained(coalescer) \in Seq(Writes)
      /\ \A p : p \in Named(Drained(coalescer)) <=> p \in Named(coalescer.operations)
  BY <1>4, WritesDrained DEF Holds
<1>6. \A p : p \notin Named(<<>>) BY DEF Named, Range
<1>7. /\ active' \in Attempts /\ active'.outcome = "none"
      /\ active'.changes = Drained(coalescer)
      /\ active'.stage = "none" => Drained(coalescer) = <<>>
      /\ active'.stage \in {"none", "start"}
  <2> DEFINE C == Seq(Writes)
             R == [Paths -> Nat]
             r == [p \in Paths |-> 0]
             batch == Drained(coalescer)
  <2>1. r \in R /\ <<>> \in C /\ batch \in C BY <1>5
  <2>2. NoAttempt = [stage |-> "none", changes |-> <<>>, flush |-> FALSE,
                     cancelled |-> FALSE, mode |-> "full", read |-> r, outcome |-> "none"]
    BY DEF NoAttempt
  <2>3. active' = IF batch = <<>> THEN NoAttempt
                  ELSE [NoAttempt EXCEPT !.stage = "start", !.changes = batch,
                                         !.flush = stopping]
    BY DEF Drain
  <2>4. CASE batch = <<>>
    <3> HIDE DEF C, R, r, batch
    <3>1. active' = NoAttempt BY <2>3, <2>4
    <3>2. active' \in AttemptsOf(C, R) /\ active'.outcome = "none"
          /\ active'.changes = batch /\ active'.stage = "none"
      BY <2>1, <2>2, <2>4, <3>1 DEF AttemptsOf, Stages, Modes, Outcomes
    <3> QED BY <2>4, <3>2 DEF Attempts, C, R, batch
  <2>5. CASE batch # <<>>
    <3> HIDE DEF C, R, r, batch
    <3>1. active' = [NoAttempt EXCEPT !.stage = "start", !.changes = batch, !.flush = stopping]
      BY <2>3, <2>5
    <3>2. stopping \in BOOLEAN BY <1>1 DEF DaemonTyped
    <3>3. active' \in AttemptsOf(C, R) /\ active'.outcome = "none"
          /\ active'.changes = batch /\ active'.stage = "start"
      BY <2>1, <2>2, <3>1, <3>2 DEF AttemptsOf, Stages, Modes, Outcomes
    <3> QED BY <3>3 DEF Attempts, C, R, batch
  <2> QED BY <2>4, <2>5
<1>8. coalescer' \in Holds BY <1>2 DEF Emptied, Holds, CoalescersOf
<1>9. DaemonTyped' BY <1>1, <1>2, <1>7, <1>8 DEF DaemonTyped
<1>10. AttemptSound' BY <1>7 DEF AttemptSound
<1>11. ReadOrReported' /\ PromotedOrReported'
  BY <1>7 DEF ReadOrReported, PromotedOrReported
<1>12. StaleOnItsWay'
  <2> SUFFICES ASSUME NEW p \in Watched, snapshot[p] # files[p]
               PROVE  \/ \E i \in 1..Len(events) : Reports(events[i], p)
                      \/ dropped \/ p \in Named(active'.changes)
                      \/ ConfigPath \in Named(active'.changes)
    BY <1>2 DEF StaleOnItsWay, OnItsWay
  <2>1. OnItsWay(p) \/ dropped BY <1>1, <1>3, <1>6 DEF StaleOnItsWay
  <2> QED BY <1>5, <1>7, <2>1 DEF OnItsWay
<1> QED BY <1>9, <1>10, <1>11, <1>12 DEF DaemonInv

\* An attempt that has ended: its changes are on their way again, or it completed,
\* or they are given up.
LEMMA CompletionKeeps ==
    ASSUME DaemonInv, Completion PROVE DaemonInv'
<1>1. DaemonTyped /\ AttemptSound /\ PromotedOrReported /\ StaleOnItsWay BY DEF DaemonInv
<1> DEFINE retried == \/ active.outcome = "cancelled"
                      \/ active.outcome = "failed" /\ ~active.flush
<1>2. /\ active.stage = "done" /\ active' = NoAttempt
      /\ coalescer' = IF retried THEN extend(coalescer, active.changes) ELSE coalescer
      /\ dropped' = (dropped \/ (active.flush /\ active.outcome = "failed"))
      /\ UNCHANGED <<files, edits, events, snapshot, stopping>>
  BY DEF Completion
<1>3. /\ coalescer \in Holds /\ active.changes \in Seq(Writes) /\ active.outcome \in Outcomes
      /\ coalescer.operations \in Seq(Writes)
  BY <1>1 DEF DaemonTyped, Attempts, AttemptsOf, Holds, CoalescersOf
<1>4. active.outcome \in {"completed", "cancelled", "failed"}
  BY <1>1, <1>2, <1>3 DEF AttemptSound, Outcomes
<1>5. /\ coalescer' \in Holds
      /\ \A p : p \in Named(coalescer.operations) => p \in Named(coalescer'.operations)
      /\ retried => \A p : p \in Named(active.changes) => p \in Named(coalescer'.operations)
  <2> DEFINE s == active.changes
             on == extend(coalescer, s)
             O == Writes
             T == {<<>>}
  <2>a. coalescer \in CoalescersOf(O, T) /\ s \in Seq(O) BY <1>3 DEF Holds
  <2> HIDE DEF O, T, s
  <2>b. on \in CoalescersOf(O, T) BY <2>a, ExtendIs
  <2>c. on.operations = coalescer.operations \o s BY <2>a, ExtendIs
  <2> USE DEF s
  <2>1. on \in Holds BY <2>b DEF Holds, O, T
  <2>2. on.operations = coalescer.operations \o s BY <2>c
  <2>3. \A p : p \in Named(coalescer.operations \o s)
                 <=> p \in Named(coalescer.operations) \/ p \in Named(s)
    BY <1>3, NamedConcat
  <2>4. coalescer' = IF retried THEN on ELSE coalescer BY <1>2
  <2> HIDE DEF on, s, retried
  <2>5. CASE retried BY <2>1, <2>2, <2>3, <2>4, <2>5 DEF s
  <2>6. CASE ~retried BY <1>3, <2>4, <2>6
  <2> QED BY <2>5, <2>6
<1>6. /\ active' \in Attempts /\ active'.stage = "none" /\ active'.changes = <<>>
      /\ active'.outcome = "none"
  <2> DEFINE C == Seq(Writes)
             R == [Paths -> Nat]
             r == [p \in Paths |-> 0]
  <2>1. r \in R /\ <<>> \in C OBVIOUS
  <2>2. active' = [stage |-> "none", changes |-> <<>>, flush |-> FALSE,
                   cancelled |-> FALSE, mode |-> "full", read |-> r, outcome |-> "none"]
    BY <1>2 DEF NoAttempt
  <2> HIDE DEF C, R, r
  <2>3. active' \in AttemptsOf(C, R) /\ active'.stage = "none" /\ active'.changes = <<>>
        /\ active'.outcome = "none"
    BY <2>1, <2>2 DEF AttemptsOf, Stages, Modes, Outcomes
  <2> QED BY <2>3 DEF Attempts, C, R
<1>7. DaemonTyped' BY <1>1, <1>2, <1>5, <1>6 DEF DaemonTyped
<1>8. AttemptSound' /\ ReadOrReported' /\ PromotedOrReported'
  BY <1>6 DEF AttemptSound, ReadOrReported, PromotedOrReported
<1>9. \A p \in Watched : OnItsWay(p) => OnItsWay(p)' BY <1>2, <1>5 DEF OnItsWay
<1>10. StaleOnItsWay'
  <2> SUFFICES ASSUME NEW p \in Watched, snapshot[p] # files[p]
               PROVE  OnItsWay(p)' \/ dropped'
    BY <1>2 DEF StaleOnItsWay
  <2>1. CASE active.outcome = "completed"
    BY <1>1, <1>2, <1>9, <2>1 DEF PromotedOrReported
  <2>2. CASE retried
    <3>1. OnItsWay(p) \/ dropped \/ p \in Named(active.changes)
             \/ ConfigPath \in Named(active.changes)
      BY <1>1 DEF StaleOnItsWay
    <3> QED BY <1>2, <1>5, <1>9, <2>2, <3>1 DEF OnItsWay
  <2>3. CASE active.outcome = "failed" /\ active.flush BY <1>2, <2>3
  <2> QED BY <1>4, <2>1, <2>2, <2>3
<1> QED BY <1>7, <1>8, <1>10 DEF DaemonInv

\* Every step.
LEMMA DaemonSteps ==
    ASSUME WritesOnly, DaemonInv, [Next]_vars PROVE DaemonInv'
<1>1. DaemonTyped BY DEF DaemonInv
<1>2. ASSUME UNCHANGED <<files, edits, events, coalescer, dropped, snapshot>>,
             stopping' \in {stopping, TRUE}, active' = active \/ active' = Cancelled(active)
      PROVE  DaemonInv'
  <2>1. active \in Attempts BY <1>1 DEF DaemonTyped
  <2>2. /\ active' \in Attempts
        /\ active'.stage = active.stage /\ active'.changes = active.changes
        /\ active'.mode = active.mode /\ active'.read = active.read
        /\ active'.outcome = active.outcome
    BY <1>2, <2>1, CancelledIs
  <2>3. DaemonTyped' BY <1>1, <1>2, <2>2 DEF DaemonTyped
  <2>4. \A p \in Watched : OnItsWay(p) => OnItsWay(p)' BY <1>2 DEF OnItsWay
  <2> QED BY <1>2, <2>2, <2>3, <2>4, DaemonKept
<1>3. CASE Environment
  <2>1. CASE (Edit \/ TouchFlushed) /\ UNCHANGED daemonVars BY <2>1, EditKeeps
  <2>2. CASE UNCHANGED <<files, edits, events, coalescer, armed, active, stopping,
                         phase, failures, dropped, snapshot>>
    BY <1>2, <2>2
  <2> QED BY <1>3, <2>1, <2>2 DEF Environment
<1>4. CASE Loop
  <2>1. CASE Drain BY <2>1, DrainKeeps
  <2>2. CASE Ingest BY <2>2, IngestKeeps
  <2>3. CASE WatcherCloses BY <1>2, <2>3 DEF WatcherCloses
  <2>4. CASE Completion BY <2>4, CompletionKeeps
  <2>5. CASE Break BY <1>2, <2>5 DEF Break
  <2> QED BY <1>4, <2>1, <2>2, <2>3, <2>4, <2>5 DEF Loop
<1>5. CASE Stop BY <1>2, <1>5 DEF Stop
<1>6. CASE Run BY <1>6, RunKeeps, CommitKeeps DEF Run
<1>7. CASE UNCHANGED vars BY <1>2, <1>7 DEF vars
<1> QED BY <1>3, <1>4, <1>5, <1>6, <1>7 DEF Next, Resting

\* However the events, the attempts and the stop interleave, a path that the
\* snapshot shows out of date is reported, collected, or a change of the attempt
\* that runs, unless a shutdown flush has failed.
THEOREM StaleStaysPending ==
    ASSUME WritesOnly PROVE Spec => []StaleIsPending
<1>1. Init => DaemonInv BY DaemonStarts
<1>2. DaemonInv /\ [Next]_vars => DaemonInv' BY DaemonSteps
<1>3. DaemonInv => StaleIsPending BY StaleIsOnItsWay
<1> QED BY <1>1, <1>2, <1>3, PTL DEF Spec

-----------------------------------------------------------------------------
(***************************************************************************)
(* A burst.  What each change of a window keeps: a path may be shown by the *)
(* batch, may be the origin of another one, or may have come from itself.  *)
(***************************************************************************)
\* The batch of a window names a path for what happened to it, a path is not where
\* another one came from, and a path that is there came from itself.
Shown(w, p) ==
    \/ p \in w.deleted
    \/ w.active[p].here /\ (w.active[p].origin # p \/ w.active[p].modified)
NotOrigin(w, p) == \A q \in Paths \ {p} : w.active[q].here => w.active[q].origin # p
Anchored(w, p) == w.active[p].here => w.active[p].origin = p

\* Two windows that differ at some paths only.
SameBut(w, v, P) == \A r \in Paths \ P : v.active[r] = w.active[r]

\* What each change makes of a window.
AddedAt(w, v, p) ==
    /\ SameBut(w, v, {p}) /\ v.deleted = w.deleted \ {p}
    /\ v.active[p].here /\ v.active[p].modified
    /\ p \in w.deleted => v.active[p].origin = p
    /\ p \notin w.deleted => v.active[p].origin = w.active[p].origin

ModifiedAt(w, v, p) ==
    /\ SameBut(w, v, {p}) /\ v.deleted = w.deleted \ {p}
    /\ v.active[p].here /\ v.active[p].modified
    /\ w.active[p].here => v.active[p].origin = w.active[p].origin
    /\ ~w.active[p].here => v.active[p].origin = p

DeletedAt(w, v, p) ==
    /\ SameBut(w, v, {p}) /\ ~v.active[p].here
    /\ w.deleted \subseteq v.deleted
    /\ w.active[p].here /\ w.active[p].origin # NoPath => w.active[p].origin \in v.deleted
    /\ ~w.active[p].here => p \in v.deleted

RenamedTo(w, v, p, q) ==
    \/ w.active[q].here /\ w.active[q].origin = p /\ v = w
    \/ /\ SameBut(w, v, {p, q}) /\ ~v.active[p].here /\ v.active[q].here
       /\ w.active[p].here => v.active[q].origin = w.active[p].origin
       /\ ~w.active[p].here => v.active[q].origin = p
       /\ w.deleted \ {p} \subseteq v.deleted
       /\ w.active[q].origin # NoPath => w.active[q].origin \in v.deleted

\* An added path.
LEMMA AddedIs ==
    ASSUME NEW w, Window(w), NEW p \in Watched
    PROVE  AddedAt(w, FoldAdded(w, p), p)
<1> DEFINE v == FoldAdded(w, p)
<1>1. w.active \in [Paths -> PathStates] /\ p \in Paths BY DEF Window, Watched
<1>2. ASSUME NEW state, v.active = [w.active EXCEPT ![p] = state]
      PROVE  SameBut(w, v, {p}) /\ v.active[p] = state
  <2> HIDE DEF v
  <2> QED BY <1>1, <1>2 DEF SameBut
<1>3. CASE p \in w.deleted
  <2>1. v.active = [w.active EXCEPT ![p] = PathState(p, TRUE)] /\ v.deleted = w.deleted \ {p}
    BY <1>3 DEF FoldAdded
  <2>2. SameBut(w, v, {p}) /\ v.active[p] = PathState(p, TRUE) BY <1>2, <2>1
  <2> HIDE DEF v
  <2> QED BY <1>3, <2>1, <2>2 DEF PathState, v, AddedAt
<1>4. CASE p \notin w.deleted /\ w.active[p].here
  <2> DEFINE state == [w.active[p] EXCEPT !.modified = TRUE]
  <2>1. v = [w EXCEPT !.active[p].modified = TRUE] BY <1>4 DEF FoldAdded
  <2>2. v.active = [w.active EXCEPT ![p] = state] /\ v.deleted = w.deleted
    BY <2>1 DEF Window
  <2>3. w.active[p] \in PathStates BY <1>1
  <2>4. state.here = w.active[p].here /\ state.modified /\ state.origin = w.active[p].origin
    BY <2>3 DEF PathStates
  <2> HIDE DEF v, state
  <2>5. SameBut(w, v, {p}) /\ v.active[p] = state BY <1>2, <2>2
  <2> QED BY <1>4, <2>2, <2>4, <2>5 DEF v, AddedAt
<1>5. CASE p \notin w.deleted /\ ~w.active[p].here
  <2>1. v = [w EXCEPT !.active[p] = PathState(NoPath, TRUE)] BY <1>5 DEF FoldAdded
  <2>2. v.active = [w.active EXCEPT ![p] = PathState(NoPath, TRUE)] /\ v.deleted = w.deleted
    BY <2>1 DEF Window
  <2>3. w.active[p].origin = NoPath BY <1>1, <1>5 DEF Window
  <2> HIDE DEF v
  <2>4. SameBut(w, v, {p}) /\ v.active[p] = PathState(NoPath, TRUE) BY <1>2, <2>2
  <2> QED BY <1>5, <2>2, <2>3, <2>4 DEF PathState, v, AddedAt
<1> QED BY <1>3, <1>4, <1>5

\* A modified one.
LEMMA ModifiedIs ==
    ASSUME NEW w, Window(w), NEW p \in Watched
    PROVE  ModifiedAt(w, FoldModified(w, p), p)
<1> DEFINE v == FoldModified(w, p)
           state == IF w.active[p].here THEN [w.active[p] EXCEPT !.modified = TRUE]
                                        ELSE PathState(p, TRUE)
<1>1. w.active \in [Paths -> PathStates] /\ p \in Paths BY DEF Window, Watched
<1>2. v.active = [w.active EXCEPT ![p] = state] /\ v.deleted = w.deleted \ {p}
  BY <1>1 DEF FoldModified
<1>3. w.active[p] \in PathStates BY <1>1
<1>4. /\ state.here /\ state.modified
      /\ state.origin = IF w.active[p].here THEN w.active[p].origin ELSE p
  BY <1>3 DEF PathStates, PathState
<1> HIDE DEF v, state
<1>5. SameBut(w, v, {p}) /\ v.active[p] = state BY <1>1, <1>2 DEF SameBut
<1> QED BY <1>2, <1>4, <1>5 DEF v, ModifiedAt

\* A deleted one.
LEMMA DeletedIs ==
    ASSUME NEW w, Window(w), NEW p \in Watched
    PROVE  DeletedAt(w, FoldDeleted(w, p), p)
<1> DEFINE v == FoldDeleted(w, p)
<1>1. w.active \in [Paths -> PathStates] /\ p \in Paths BY DEF Window, Watched
<1>2. CASE w.active[p].here
  <2>1. v.active = [w.active EXCEPT ![p] = Absent]
        /\ v.deleted = Gone(w.deleted, w.active[p].origin)
    BY <1>2 DEF FoldDeleted
  <2>2. w.deleted \subseteq v.deleted
        /\ (w.active[p].origin # NoPath => w.active[p].origin \in v.deleted)
    BY <2>1 DEF Gone
  <2> HIDE DEF v
  <2>3. SameBut(w, v, {p}) /\ v.active[p] = Absent BY <1>1, <2>1 DEF SameBut
  <2> QED BY <1>2, <2>2, <2>3 DEF Absent, v, DeletedAt
<1>3. CASE ~w.active[p].here
  <2>1. v.active = w.active /\ v.deleted = w.deleted \cup {p}
    BY <1>3 DEF FoldDeleted, Window
  <2> HIDE DEF v
  <2> QED BY <1>3, <2>1 DEF SameBut, v, DeletedAt
<1> QED BY <1>2, <1>3

\* A renamed one.
LEMMA RenamedIs ==
    ASSUME NEW w, Window(w), NEW p \in Watched, NEW q \in Watched, p # q
    PROVE  RenamedTo(w, FoldRenamed(w, p, q), p, q)
<1> DEFINE v == FoldRenamed(w, p, q)
           state == IF w.active[p].here THEN w.active[p] ELSE PathState(p, FALSE)
<1>1. w.active \in [Paths -> PathStates] /\ p \in Paths /\ q \in Paths
  BY DEF Window, Watched
<1>2. CASE w.active[q].here /\ w.active[q].origin = p
  BY <1>2 DEF FoldRenamed, RenamedTo
<1>3. CASE ~(w.active[q].here /\ w.active[q].origin = p)
  <2>1. v.active = [w.active EXCEPT ![p] = Absent, ![q] = state]
        /\ v.deleted = Gone(w.deleted \ {p}, w.active[q].origin)
    BY <1>3 DEF FoldRenamed
  <2>2. state.here /\ state.origin = IF w.active[p].here THEN w.active[p].origin ELSE p
    BY DEF PathState
  <2>3. w.deleted \ {p} \subseteq v.deleted
        /\ (w.active[q].origin # NoPath => w.active[q].origin \in v.deleted)
    BY <2>1 DEF Gone
  <2> HIDE DEF v, state
  <2>4. SameBut(w, v, {p, q}) /\ v.active[p] = Absent /\ v.active[q] = state
    BY <1>1, <2>1 DEF SameBut
  <2> QED BY <2>2, <2>3, <2>4 DEF Absent, v, RenamedTo
<1> QED BY <1>2, <1>3

\* The four forms of a change, and how each is folded.
LEMMA ChangeForms ==
    ASSUME NEW w, NEW c \in IncrementalFileChange
    PROVE  \/ \E p \in Watched : /\ c.kind = "added" /\ c.old = NoPath /\ c.new = p
                                 /\ FoldChange(w, c) = FoldAdded(w, p)
           \/ \E p \in Watched : /\ c.kind = "modified" /\ c.old = NoPath /\ c.new = p
                                 /\ FoldChange(w, c) = FoldModified(w, p)
           \/ \E p \in Watched : /\ c.kind = "deleted" /\ c.old = p /\ c.new = NoPath
                                 /\ FoldChange(w, c) = FoldDeleted(w, p)
           \/ \E p, q \in Watched : /\ p # q /\ c.kind = "renamed" /\ c.old = p /\ c.new = q
                                    /\ FoldChange(w, c) = FoldRenamed(w, p, q)
<1>1. CASE c \in { added(p) : p \in Watched } BY <1>1 DEF FoldChange, added
<1>2. CASE c \in { modified(p) : p \in Watched } BY <1>2 DEF FoldChange, modified
<1>3. CASE c \in { deleted(p) : p \in Watched } BY <1>3 DEF FoldChange, deleted
<1>4. CASE c \in { renamed(p[1], p[2]) : p \in { q \in Watched \X Watched : q[1] # q[2] } }
  <2>1. PICK p \in Watched, q \in Watched : p # q /\ c = renamed(p, q) BY <1>4
  <2> QED BY <2>1 DEF FoldChange, renamed
<1> QED BY <1>1, <1>2, <1>3, <1>4 DEF IncrementalFileChange

\* A change leaves alone what it does not name.
LEMMA ChangeElsewhere ==
    ASSUME NEW w, Window(w), NEW c \in IncrementalFileChange,
           NEW r \in Watched, c.old # r, c.new # r
    PROVE  /\ FoldChange(w, c).active[r] = w.active[r]
           /\ r \in w.deleted => r \in FoldChange(w, c).deleted
<1> DEFINE v == FoldChange(w, c)
<1>1. r \in Paths BY DEF Watched
<1>2. ASSUME NEW p \in Watched, c.new = p, v = FoldAdded(w, p)
      PROVE  v.active[r] = w.active[r] /\ (r \in w.deleted => r \in v.deleted)
  <2> HIDE DEF v
  <2> QED BY <1>1, <1>2, AddedIs DEF SameBut, AddedAt
<1>3. ASSUME NEW p \in Watched, c.new = p, v = FoldModified(w, p)
      PROVE  v.active[r] = w.active[r] /\ (r \in w.deleted => r \in v.deleted)
  <2> HIDE DEF v
  <2> QED BY <1>1, <1>3, ModifiedIs DEF SameBut, ModifiedAt
<1>4. ASSUME NEW p \in Watched, c.old = p, v = FoldDeleted(w, p)
      PROVE  v.active[r] = w.active[r] /\ (r \in w.deleted => r \in v.deleted)
  <2> HIDE DEF v
  <2> QED BY <1>1, <1>4, DeletedIs DEF SameBut, DeletedAt
<1>5. ASSUME NEW p \in Watched, NEW q \in Watched, p # q, c.old = p, c.new = q,
             v = FoldRenamed(w, p, q)
      PROVE  v.active[r] = w.active[r] /\ (r \in w.deleted => r \in v.deleted)
  <2> HIDE DEF v
  <2> QED BY <1>1, <1>5, RenamedIs DEF SameBut, RenamedTo
<1> HIDE DEF v
<1>6. \/ \E p \in Watched : c.new = p /\ v = FoldAdded(w, p)
      \/ \E p \in Watched : c.new = p /\ v = FoldModified(w, p)
      \/ \E p \in Watched : c.old = p /\ v = FoldDeleted(w, p)
      \/ \E p, q \in Watched : p # q /\ c.old = p /\ c.new = q /\ v = FoldRenamed(w, p, q)
  BY ChangeForms DEF v
<1> QED BY <1>2, <1>3, <1>4, <1>5, <1>6 DEF v

\* Only a rename gives a path an origin at another place.
LEMMA NotOriginKept ==
    ASSUME NEW w, Window(w), NEW c \in IncrementalFileChange, NEW r \in Watched,
           NotOrigin(w, r), c.kind = "renamed" => c.old # r
    PROVE  NotOrigin(FoldChange(w, c), r)
<1> DEFINE v == FoldChange(w, c)
<1>1. r \in Paths /\ r # NoPath /\ Watched \subseteq Paths
  BY PathsAssumption DEF Watched, NoPath
<1>2. \A q \in Paths : ~w.active[q].here => w.active[q].origin = NoPath BY DEF Window
<1>3. \A q \in Paths : q # r => w.active[q].origin # r BY <1>1, <1>2 DEF NotOrigin
<1> SUFFICES ASSUME NEW q \in Paths, q # r, v.active[q].here PROVE v.active[q].origin # r
  BY DEF NotOrigin
<1>4. ASSUME NEW p \in Watched, v = FoldAdded(w, p) PROVE v.active[q].origin # r
  <2> HIDE DEF v
  <2> QED BY <1>1, <1>3, <1>4, AddedIs DEF SameBut, AddedAt
<1>5. ASSUME NEW p \in Watched, v = FoldModified(w, p) PROVE v.active[q].origin # r
  <2> HIDE DEF v
  <2> QED BY <1>1, <1>3, <1>5, ModifiedIs DEF SameBut, ModifiedAt
<1>6. ASSUME NEW p \in Watched, v = FoldDeleted(w, p) PROVE v.active[q].origin # r
  <2> HIDE DEF v
  <2> QED BY <1>1, <1>3, <1>6, DeletedIs DEF SameBut, DeletedAt
<1>7. ASSUME NEW p \in Watched, NEW t \in Watched, p # t, p # r, v = FoldRenamed(w, p, t)
      PROVE  v.active[q].origin # r
  <2> HIDE DEF v
  <2> QED BY <1>1, <1>3, <1>7, RenamedIs DEF SameBut, RenamedTo
<1> HIDE DEF v
<1>8. \/ \E p \in Watched : v = FoldAdded(w, p)
      \/ \E p \in Watched : v = FoldModified(w, p)
      \/ \E p \in Watched : v = FoldDeleted(w, p)
      \/ \E p, t \in Watched : p # t /\ p # r /\ v = FoldRenamed(w, p, t)
  BY ChangeForms DEF v
<1> QED BY <1>4, <1>5, <1>6, <1>7, <1>8

\* What a change says is there now, the batch names.
LEMMA NewIsShown ==
    ASSUME NEW w, Window(w), NEW c \in IncrementalFileChange, NEW r \in Watched,
           NotOrigin(w, r), c.new = r
    PROVE  Shown(FoldChange(w, c), r)
<1> DEFINE v == FoldChange(w, c)
<1>1. r \in Paths /\ r # NoPath /\ Watched \subseteq Paths
  BY PathsAssumption DEF Watched, NoPath
<1>2. ASSUME v = FoldAdded(w, r) PROVE Shown(v, r)
  <2> HIDE DEF v
  <2> QED BY <1>2, AddedIs DEF Shown, AddedAt
<1>3. ASSUME v = FoldModified(w, r) PROVE Shown(v, r)
  <2> HIDE DEF v
  <2> QED BY <1>3, ModifiedIs DEF Shown, ModifiedAt
<1>4. ASSUME NEW p \in Watched, p # r, v = FoldRenamed(w, p, r) PROVE Shown(v, r)
  <2> HIDE DEF v
  <2>1. w.active[p].here => w.active[p].origin # r BY <1>1, <1>4 DEF NotOrigin
  <2>2. RenamedTo(w, v, p, r) BY <1>4, RenamedIs
  <2> QED BY <1>4, <2>1, <2>2 DEF Shown, RenamedTo
<1> HIDE DEF v
<1>5. \/ v = FoldAdded(w, r) \/ v = FoldModified(w, r)
      \/ \E p \in Watched : p # r /\ v = FoldRenamed(w, p, r)
  BY <1>1, ChangeForms DEF v
<1> QED BY <1>2, <1>3, <1>4, <1>5 DEF v

\* It goes on naming it as long as no change says that it goes away.
LEMMA ShownKept ==
    ASSUME NEW w, Window(w), NEW c \in IncrementalFileChange, NEW r \in Watched,
           NotOrigin(w, r), Shown(w, r), c.old # r
    PROVE  Shown(FoldChange(w, c), r) /\ NotOrigin(FoldChange(w, c), r)
<1>1. NotOrigin(FoldChange(w, c), r) BY NotOriginKept
<1>2. CASE c.new = r BY <1>1, <1>2, NewIsShown
<1>3. CASE c.new # r
  <2> DEFINE v == FoldChange(w, c)
  <2>1. v.active[r] = w.active[r] /\ (r \in w.deleted => r \in v.deleted)
    BY <1>3, ChangeElsewhere
  <2> HIDE DEF v
  <2>2. Shown(v, r) BY <2>1 DEF Shown
  <2> QED BY <1>1, <2>2 DEF v
<1> QED BY <1>2, <1>3

-----------------------------------------------------------------------------
(***************************************************************************)
(* The drain replays the tracked renames behind the operations.            *)
(***************************************************************************)
\* The trackers of a coalescer, in order: each once.
LEMMA TrackersInOrder ==
    ASSUME NEW D \in SUBSET Nat, IsFiniteSet(D)
    PROVE  /\ Cardinality(D) \in Nat
           /\ InOrder(D, <) \in [1..Cardinality(D) -> D]
           /\ \A i, j \in 1..Cardinality(D) : i < j => InOrder(D, <)[i] < InOrder(D, <)[j]
           /\ \A d \in D : \E i \in 1..Cardinality(D) : InOrder(D, <)[i] = d
<1> DEFINE R == { p \in D \X D : p[1] < p[2] }
           n == Cardinality(D)
           sorted == InOrder(D, <)
<1>1. \A c, d \in D : <<c, d>> \in R <=> c < d OBVIOUS
<1> HIDE DEF R
<1>2. StrictOrder(R, D) BY <1>1 DEF StrictOrder
<1>3. PICK t : LinedUp(t, R, D) BY <1>2, LineUpExists
<1>4. n \in Nat BY FS_CardinalityType
<1>5. t \in [1..n -> D] /\ \A i, j \in DOMAIN t : i < j => t[i] < t[j]
  BY <1>1, <1>3 DEF LinedUp
<1>6. sorted \in [1..n -> D] /\ \A i, j \in DOMAIN sorted : i < j => sorted[i] < sorted[j]
  BY <1>5 DEF InOrder
<1>7. LinedUp(sorted, R, D) BY <1>1, <1>6 DEF LinedUp
<1> HIDE DEF sorted
<1>8. Range(sorted) = D BY <1>2, <1>7, LineUpAll
<1>9. \A d \in D : \E i \in 1..n : sorted[i] = d BY <1>6, <1>8 DEF Range
<1> QED BY <1>4, <1>6, <1>9 DEF sorted

\* Folding one sequence behind another, change by change.
LEMMA FoldedBehind ==
    ASSUME NEW ops \in Seq(IncrementalFileChange), NEW tr \in Seq(IncrementalFileChange)
    PROVE  \E g : /\ g[0] = Folded(ops) /\ g[Len(tr)] = Folded(ops \o tr)
                  /\ \A k \in 0..Len(tr) : Window(g[k])
                  /\ \A k \in 1..Len(tr) : g[k] = FoldChange(g[k - 1], tr[k])
<1> DEFINE m == Len(ops)
           n == Len(tr)
           u == ops \o tr
           P(k) == [i \in 1..m + k |-> u[i]]
           g == [k \in 0..n |-> Folded(P(k))]
<1>1. m \in Nat /\ n \in Nat /\ u \in Seq(IncrementalFileChange) /\ Len(u) = m + n
      /\ (\A i \in 1..m : u[i] = ops[i]) /\ (\A i \in 1..n : u[m + i] = tr[i])
      /\ ops \in [1..m -> IncrementalFileChange]
  OBVIOUS
<1> HIDE DEF u, m, n
<1>2. ASSUME NEW k \in 0..n
      PROVE  P(k) \in Seq(IncrementalFileChange) /\ DOMAIN P(k) = 1..m + k
  <2>1. m + k \in Nat /\ \A i \in 1..m + k : i \in 1..Len(u) BY <1>1
  <2>2. \A i \in 1..m + k : u[i] \in IncrementalFileChange BY <1>1, <2>1
  <2> QED BY <2>1, <2>2
<1>3. P(0) = ops
  <2>1. m + 0 = m BY <1>1
  <2>2. P(0) = [i \in 1..m |-> ops[i]] BY <1>1, <2>1
  <2> DEFINE a == P(0)
  <2>3. a \in [1..m -> IncrementalFileChange] /\ \A i \in 1..m : a[i] = ops[i]
    BY <1>1, <2>2
  <2> HIDE DEF a
  <2>4. a = ops BY <1>1, <2>3
  <2> QED BY <2>4 DEF a
<1>4. P(n) = u
  <2>1. u = [i \in 1..m + n |-> u[i]] BY <1>1
  <2> QED BY <2>1
<1>5. 0 \in 0..n /\ n \in 0..n BY <1>1
<1>6. g[0] = Folded(ops) /\ g[n] = Folded(u) BY <1>3, <1>4, <1>5
<1>7. \A k \in 0..n : Window(g[k]) BY <1>2, FoldedTyped
<1>8. ASSUME NEW k \in 1..n PROVE g[k] = FoldChange(g[k - 1], tr[k])
  <2>1. k \in 0..n /\ k - 1 \in 0..n /\ k - 1 \in Nat BY <1>1
  <2> DEFINE a == P(k - 1)
             b == P(k)
             l == m + (k - 1)
  <2>2. l \in Nat /\ l + 1 = m + k BY <1>1, <2>1
  <2>3. DOMAIN a = 1..l /\ DOMAIN b = 1..l + 1 BY <1>2, <2>1, <2>2
  <2>4. \A i \in 1..l : a[i] = b[i] BY <2>2
  <2>5. b[l + 1] = tr[k] BY <1>1, <2>2
  <2> HIDE DEF l, a, b
  <2>6. Folded(b) = FoldChange(Folded(a), b[l + 1]) BY <2>2, <2>3, <2>4, FoldedOn
  <2>7. g[k] = Folded(b) /\ g[k - 1] = Folded(a) BY <2>1 DEF a, b
  <2> QED BY <2>5, <2>6, <2>7
<1> HIDE DEF g
<1> QED BY <1>6, <1>7, <1>8 DEF u, n

\* The drain, change by change: the operations, then the tracked renames.
Replay(c, n, s, g) ==
    /\ n \in Nat /\ s \in [1..n -> DOMAIN c.tracked]
    /\ \A i, j \in 1..n : i < j => s[i] < s[j]
    /\ \A t \in DOMAIN c.tracked : \E i \in 1..n : s[i] = t
    /\ g[0] = Folded(c.operations) /\ Drained(c) = Batch(g[n])
    /\ \A k \in 0..n : Window(g[k])
    /\ \A k \in 1..n : g[k] = FoldChange(g[k - 1], TrackedChange(c.tracked[s[k]]))

\* Every drain of a finite number of tracked renames is one.
LEMMA ReplayExists ==
    ASSUME NEW c, c.operations \in Seq(IncrementalFileChange),
           DOMAIN c.tracked \in SUBSET Nat, IsFiniteSet(DOMAIN c.tracked),
           \A t \in DOMAIN c.tracked : TrackedChange(c.tracked[t]) \in IncrementalFileChange
    PROVE  \E n, s, g : Replay(c, n, s, g)
<1> DEFINE D == DOMAIN c.tracked
           n == Cardinality(D)
           s == InOrder(D, <)
           tr == [i \in 1..n |-> TrackedChange(c.tracked[s[i]])]
<1>1. /\ n \in Nat /\ s \in [1..n -> D]
      /\ \A i, j \in 1..n : i < j => s[i] < s[j]
      /\ \A t \in D : \E i \in 1..n : s[i] = t
  BY TrackersInOrder
<1>2. Drained(c) = coalesce_incremental_changes(c.operations \o tr) BY Zenon DEF Drained
<1> HIDE DEF n, s
<1>3. \A i \in 1..n : TrackedChange(c.tracked[s[i]]) \in IncrementalFileChange BY <1>1
<1>4. tr \in Seq(IncrementalFileChange) /\ Len(tr) = n
      /\ \A i \in 1..n : tr[i] = TrackedChange(c.tracked[s[i]])
  BY <1>1, <1>3
<1> HIDE DEF tr
<1>5. PICK g : /\ g[0] = Folded(c.operations) /\ g[n] = Folded(c.operations \o tr)
               /\ \A k \in 0..n : Window(g[k])
               /\ \A k \in 1..n : g[k] = FoldChange(g[k - 1], tr[k])
  <2>1. PICK g : /\ g[0] = Folded(c.operations) /\ g[Len(tr)] = Folded(c.operations \o tr)
                 /\ \A k \in 0..Len(tr) : Window(g[k])
                 /\ \A k \in 1..Len(tr) : g[k] = FoldChange(g[k - 1], tr[k])
    BY <1>4, FoldedBehind
  <2>2. Len(tr) = n BY <1>4
  <2> QED BY <2>1, <2>2
<1>6. Drained(c) = Batch(g[n])
  BY <1>2, <1>5, Zenon DEF coalesce_incremental_changes, Folded, NothingYet
<1>7. \A k \in 1..n : g[k] = FoldChange(g[k - 1], TrackedChange(c.tracked[s[k]]))
  BY <1>4, <1>5
<1>8. Replay(c, n, s, g) BY <1>1, <1>5, <1>6, <1>7 DEF Replay
<1> QED BY <1>8

\* Induction over a segment.
LEMMA Upwards ==
    ASSUME NEW n \in Nat, NEW m \in 0..n, NEW T, m \in T,
           \A k \in m + 1..n : k - 1 \in T => k \in T
    PROVE  \A k \in m..n : k \in T
<1> DEFINE U == { k \in Nat : k \in m..n => k \in T }
<1>1. 0 \in U OBVIOUS
<1>2. ASSUME NEW k \in Nat, k \in U PROVE k + 1 \in U
  <2> SUFFICES ASSUME k + 1 \in m..n PROVE k + 1 \in T OBVIOUS
  <2>1. CASE k + 1 = m BY <2>1
  <2>2. CASE k + 1 # m
    <3>1. k + 1 \in m + 1..n /\ (k + 1) - 1 = k /\ k \in m..n BY <2>2
    <3>2. k \in T BY <1>2, <3>1
    <3> QED BY <3>1, <3>2
  <2> QED BY <2>1, <2>2
<1> HIDE DEF U
<1>3. Nat \subseteq U BY <1>1, <1>2, Induction
<1> QED BY <1>3 DEF U

\* Every half that is tracked is of a rename of the window, no path that is used
\* once is in two of them, and no file from an ignored path hides such a path.
HalfOf(half, S, Z) ==
    /\ half.from \in (S \cap Watched) \cup {NoPath}
    /\ half.to \in (Z \cap Watched) \cup {NoPath}
    /\ half.from # half.to
Halves(T, S, Z) == \A t \in DOMAIN T : HalfOf(T[t], S, Z)
Names(half, p) == half.from = p \/ half.to = p
Single(T, R) ==
    \A t, u \in DOMAIN T, p \in Watched \ R : Names(T[t], p) /\ Names(T[u], p) => t = u
Unhidden(T, R) ==
    \A t, u, v \in DOMAIN T :
        T[t].from = NoPath /\ u < t /\ T[u].to = T[t].to /\ v < t /\ T[v].from \in Watched
            => T[v].from \in R

\* The change of a tracked rename.
LEMMA TrackedChangeIs ==
    ASSUME NEW half, half.from \in Watched \cup {NoPath}, half.to \in Watched \cup {NoPath},
           half.from # half.to
    PROVE  LET x == TrackedChange(half)
           IN  /\ x \in IncrementalFileChange
               /\ x.old = half.from /\ x.new = half.to
               /\ half.from # NoPath /\ half.to # NoPath => x.kind = "renamed"
               /\ half.to = NoPath => x.kind = "deleted"
               /\ half.from = NoPath => x.kind = "added"
<1> DEFINE p == half.from
           q == half.to
           x == TrackedChange(half)
<1>1. NoPath \notin Watched BY PathsAssumption DEF Watched, NoPath
<1>2. CASE p # NoPath /\ q # NoPath
  <2>1. x = renamed(p, q) BY <1>2 DEF TrackedChange
  <2> DEFINE y == <<p, q>>
  <2>2. y \in { z \in Watched \X Watched : z[1] # z[2] } /\ renamed(p, q) = renamed(y[1], y[2])
    BY <1>2
  <2> HIDE DEF y
  <2>3. renamed(p, q) \in IncrementalFileChange BY <2>2 DEF IncrementalFileChange
  <2> HIDE DEF x
  <2> QED BY <1>2, <2>1, <2>3 DEF renamed, x
<1>3. CASE p # NoPath /\ q = NoPath
  <2>1. x = deleted(p) BY <1>3 DEF TrackedChange
  <2>2. deleted(p) \in IncrementalFileChange BY <1>3 DEF IncrementalFileChange
  <2> HIDE DEF x
  <2> QED BY <1>3, <2>1, <2>2 DEF deleted, x
<1>4. CASE p = NoPath /\ q # NoPath
  <2>1. x = added(q) BY <1>4 DEF TrackedChange
  <2>2. added(q) \in IncrementalFileChange BY <1>4 DEF IncrementalFileChange
  <2> HIDE DEF x
  <2> QED BY <1>4, <2>1, <2>2 DEF added, x
<1> QED BY <1>2, <1>3, <1>4

\* One step of the drain: the change of a tracked rename is folded.
Folds(v, w, half, x) ==
    /\ Window(v) /\ w = FoldChange(v, x) /\ x \in IncrementalFileChange
    /\ x.old = half.from /\ x.new = half.to

\* Each step of a replay is one.
LEMMA ReplayStep ==
    ASSUME NEW c, NEW n, NEW s, NEW g, Replay(c, n, s, g), NEW S, NEW Z,
           Halves(c.tracked, S, Z), NEW k \in 1..n
    PROVE  /\ n \in Nat /\ k - 1 \in 0..n /\ k \in 0..n /\ s[k] \in DOMAIN c.tracked
           /\ HalfOf(c.tracked[s[k]], S, Z)
           /\ Folds(g[k - 1], g[k], c.tracked[s[k]], TrackedChange(c.tracked[s[k]]))
<1> DEFINE half == c.tracked[s[k]]
           x == TrackedChange(half)
<1>1. n \in Nat /\ k - 1 \in 0..n /\ k \in 0..n /\ s[k] \in DOMAIN c.tracked BY DEF Replay
<1>2. Window(g[k - 1]) /\ g[k] = FoldChange(g[k - 1], x) BY <1>1 DEF Replay
<1>3. HalfOf(half, S, Z) BY <1>1 DEF Halves
<1> HIDE DEF half
<1>4. half.from \in Watched \cup {NoPath} /\ half.to \in Watched \cup {NoPath}
      /\ half.from # half.to
  BY <1>3 DEF HalfOf
<1>5. x \in IncrementalFileChange /\ x.old = half.from /\ x.new = half.to
  BY <1>4, TrackedChangeIs
<1> HIDE DEF x
<1>6. Folds(g[k - 1], g[k], half, x) BY <1>2, <1>5 DEF Folds
<1> QED BY <1>1, <1>3, <1>6 DEF half, x

\* A path that was not renamed away, and that the batch names at some point of the
\* drain, it names in the end.
LEMMA ReplayShows ==
    ASSUME NEW c, NEW n, NEW s, NEW g, Replay(c, n, s, g), NEW S, NEW Z,
           Halves(c.tracked, S, Z), NEW r \in Watched \ S, NotOrigin(g[0], r)
    PROVE  /\ \A m \in 0..n : Shown(g[m], r) => Shown(g[n], r)
           /\ \A t \in DOMAIN c.tracked : c.tracked[t].to = r => Shown(g[n], r)
<1>1. n \in Nat /\ r # NoPath BY PathsAssumption DEF Replay, Watched, NoPath
<1>2. \A k \in 0..n : NotOrigin(g[k], r)
  <2> DEFINE T == { k \in 0..n : NotOrigin(g[k], r) }
  <2>1. 0 \in T /\ 0 \in 0..n BY <1>1
  <2>2. ASSUME NEW k \in 0 + 1..n, k - 1 \in T PROVE k \in T
    <3>1. k \in 1..n OBVIOUS
    <3> DEFINE half == c.tracked[s[k]]
               x == TrackedChange(half)
    <3>2. HalfOf(half, S, Z) /\ Folds(g[k - 1], g[k], half, x) /\ k - 1 \in 0..n /\ k \in 0..n
      BY <3>1, ReplayStep
    <3>3. NotOrigin(g[k - 1], r) BY <2>2
    <3> HIDE DEF x, half
    <3>4. x.old # r BY <1>1, <3>2 DEF HalfOf, Folds
    <3>5. NotOrigin(g[k], r) BY <3>2, <3>3, <3>4, NotOriginKept DEF Folds
    <3> QED BY <3>2, <3>5
  <2> HIDE DEF T
  <2>3. \A k \in 0..n : k \in T BY <1>1, <2>1, <2>2, Upwards
  <2> QED BY <2>3 DEF T
<1>3. ASSUME NEW m \in 0..n, Shown(g[m], r) PROVE Shown(g[n], r)
  <2> DEFINE T == { k \in 0..n : Shown(g[k], r) }
  <2>1. m \in T BY <1>3
  <2>2. ASSUME NEW k \in m + 1..n, k - 1 \in T PROVE k \in T
    <3>1. k \in 1..n OBVIOUS
    <3> DEFINE half == c.tracked[s[k]]
               x == TrackedChange(half)
    <3>2. HalfOf(half, S, Z) /\ Folds(g[k - 1], g[k], half, x) /\ k - 1 \in 0..n /\ k \in 0..n
      BY <3>1, ReplayStep
    <3>3. Shown(g[k - 1], r) /\ NotOrigin(g[k - 1], r) BY <1>2, <2>2, <3>2
    <3> HIDE DEF x, half
    <3>4. x.old # r BY <1>1, <3>2 DEF HalfOf, Folds
    <3>5. Shown(g[k], r) BY <3>2, <3>3, <3>4, ShownKept DEF Folds
    <3> QED BY <3>2, <3>5
  <2> HIDE DEF T
  <2>3. \A k \in m..n : k \in T BY <1>1, <2>1, <2>2, Upwards
  <2>4. n \in T BY <1>1, <2>3
  <2> QED BY <2>4 DEF T
<1>4. ASSUME NEW t \in DOMAIN c.tracked, c.tracked[t].to = r PROVE Shown(g[n], r)
  <2>1. PICK k \in 1..n : s[k] = t BY DEF Replay
  <2> DEFINE half == c.tracked[s[k]]
             x == TrackedChange(half)
  <2>2. Folds(g[k - 1], g[k], half, x) /\ k - 1 \in 0..n /\ k \in 0..n BY ReplayStep
  <2>3. half.to = r BY <1>4, <2>1
  <2>4. NotOrigin(g[k - 1], r) BY <1>2, <2>2
  <2> HIDE DEF x, half
  <2>5. Shown(g[k], r) BY <2>2, <2>3, <2>4, NewIsShown DEF Folds
  <2> QED BY <1>3, <2>2, <2>5
<1> QED BY <1>3, <1>4

\* How a tracked change is folded, by the halves that arrived.
LEMMA FoldsAs ==
    ASSUME NEW v, NEW w, NEW half, NEW x, Folds(v, w, half, x),
           NEW S, NEW Z, HalfOf(half, S, Z)
    PROVE  \/ /\ half.from \in Watched /\ half.to \in Watched
              /\ RenamedTo(v, w, half.from, half.to)
           \/ /\ half.from \in Watched /\ half.to = NoPath /\ DeletedAt(v, w, half.from)
           \/ /\ half.from = NoPath /\ half.to \in Watched
              /\ SameBut(v, w, {half.to}) /\ w.deleted = v.deleted \ {half.to}
<1>1. NoPath \notin Watched BY PathsAssumption DEF Watched, NoPath
<1>2. /\ Window(v) /\ w = FoldChange(v, x) /\ x \in IncrementalFileChange
      /\ x.old = half.from /\ x.new = half.to
  BY DEF Folds
<1>3. /\ half.from \in Watched \cup {NoPath} /\ half.to \in Watched \cup {NoPath}
      /\ half.from # half.to
  BY DEF HalfOf
<1>4. \/ \E p \in Watched : half.from = NoPath /\ half.to = p /\ w = FoldAdded(v, p)
      \/ \E p \in Watched : half.from = NoPath /\ half.to = p /\ w = FoldModified(v, p)
      \/ \E p \in Watched : half.from = p /\ half.to = NoPath /\ w = FoldDeleted(v, p)
      \/ \E p, q \in Watched : /\ p # q /\ half.from = p /\ half.to = q
                               /\ w = FoldRenamed(v, p, q)
  BY <1>2, ChangeForms
<1>5. ASSUME NEW p \in Watched, half.from = NoPath, half.to = p, w = FoldAdded(v, p)
      PROVE  SameBut(v, w, {half.to}) /\ w.deleted = v.deleted \ {half.to}
  BY <1>2, <1>5, AddedIs DEF AddedAt
<1>6. ASSUME NEW p \in Watched, half.from = NoPath, half.to = p, w = FoldModified(v, p)
      PROVE  SameBut(v, w, {half.to}) /\ w.deleted = v.deleted \ {half.to}
  BY <1>2, <1>6, ModifiedIs DEF ModifiedAt
<1>7. ASSUME NEW p \in Watched, half.from = p, half.to = NoPath, w = FoldDeleted(v, p)
      PROVE  DeletedAt(v, w, half.from)
  BY <1>2, <1>7, DeletedIs
<1>8. ASSUME NEW p \in Watched, NEW q \in Watched, p # q, half.from = p, half.to = q,
             w = FoldRenamed(v, p, q)
      PROVE  RenamedTo(v, w, half.from, half.to)
  BY <1>2, <1>8, RenamedIs
<1> QED BY <1>4, <1>5, <1>6, <1>7, <1>8

\* A path is known to be gone, or as the origin of another one.
HeldAt(w, r, q) == q \in Watched /\ q # r /\ w.active[q].here /\ w.active[q].origin = r

\* A tracked rename of a path that came from itself leaves it so.
LEMMA MovedAway ==
    ASSUME NEW v, NEW w, NEW half, NEW x, Folds(v, w, half, x),
           NEW S, NEW Z, HalfOf(half, S, Z), NEW r \in Watched, half.from = r, Anchored(v, r)
    PROVE  r \in w.deleted \/ HeldAt(w, r, half.to)
<1>1. r # NoPath BY PathsAssumption DEF Watched, NoPath
<1>2. half.to # r BY DEF HalfOf
<1>3. CASE half.to \in Watched /\ RenamedTo(v, w, r, half.to)
  BY <1>1, <1>2, <1>3 DEF RenamedTo, Anchored, HeldAt
<1>4. CASE DeletedAt(v, w, r)
  BY <1>1, <1>4 DEF DeletedAt, Anchored
<1> QED BY <1>1, <1>3, <1>4, FoldsAs

\* What another change does to the path that came from it.
LEMMA HeldKept ==
    ASSUME NEW v, NEW w, NEW half, NEW x, Folds(v, w, half, x),
           NEW S, NEW Z, HalfOf(half, S, Z), NEW r \in Watched, ~Names(half, r),
           NEW q, HeldAt(v, r, q), ~(half.from = NoPath /\ half.to = q)
    PROVE  r \in w.deleted \/ HeldAt(w, r, q) \/ HeldAt(w, r, half.to)
<1>1. r # NoPath BY PathsAssumption DEF Watched, NoPath
<1>2. q \in Watched /\ q # r /\ v.active[q].here /\ v.active[q].origin = r /\ q \in Paths
  BY DEF HeldAt, Watched
<1>3. half.from # r /\ half.to # r BY DEF Names
<1>4. CASE half.from \in Watched /\ half.to \in Watched /\ RenamedTo(v, w, half.from, half.to)
  <2>1. CASE v = w BY <2>1
  <2>2. CASE /\ SameBut(v, w, {half.from, half.to}) /\ ~w.active[half.from].here
             /\ w.active[half.to].here
             /\ v.active[half.from].here => w.active[half.to].origin = v.active[half.from].origin
             /\ v.active[half.to].origin # NoPath => v.active[half.to].origin \in w.deleted
    <3>1. CASE q = half.from BY <1>2, <1>3, <1>4, <2>2, <3>1 DEF HeldAt
    <3>2. CASE q = half.to BY <1>1, <1>2, <2>2, <3>2
    <3>3. CASE q \notin {half.from, half.to}
      <4>1. w.active[q] = v.active[q] BY <1>2, <2>2, <3>3 DEF SameBut
      <4> QED BY <1>2, <4>1 DEF HeldAt
    <3> QED BY <3>1, <3>2, <3>3
  <2> QED BY <1>4, <2>1, <2>2 DEF RenamedTo
<1>5. CASE DeletedAt(v, w, half.from)
  <2>1. CASE q = half.from BY <1>1, <1>2, <1>5, <2>1 DEF DeletedAt
  <2>2. CASE q # half.from
    <3>1. w.active[q] = v.active[q] BY <1>2, <1>5, <2>2 DEF DeletedAt, SameBut
    <3> QED BY <1>2, <3>1 DEF HeldAt
  <2> QED BY <2>1, <2>2
<1>6. CASE half.from = NoPath /\ SameBut(v, w, {half.to})
  <2>1. q # half.to BY <1>6
  <2>2. w.active[q] = v.active[q] BY <1>2, <1>6, <2>1 DEF SameBut
  <2> QED BY <1>2, <2>2 DEF HeldAt
<1> QED BY <1>4, <1>5, <1>6, FoldsAs

Spared(c, s, l, r) == \A k \in 1..l : ~Names(c.tracked[s[k]], r)

\* A path that the first tracked renames do not name stays as it is.
LEMMA ReplayPasses ==
    ASSUME NEW c, NEW n, NEW s, NEW g, Replay(c, n, s, g), NEW S, NEW Z,
           Halves(c.tracked, S, Z), NEW r \in Watched, NEW l \in 0..n,
           Spared(c, s, l, r)
    PROVE  /\ g[l].active[r] = g[0].active[r]
           /\ r \in g[0].deleted => r \in g[l].deleted
<1> DEFINE T == { k \in 0..n : /\ g[k].active[r] = g[0].active[r]
                               /\ r \in g[0].deleted => r \in g[k].deleted }
<1>1. n \in Nat /\ l \in Nat /\ 0 \in 0..l BY DEF Replay
<1>2. 0 \in T BY <1>1
<1>3. ASSUME NEW k \in 0 + 1..l, k - 1 \in T PROVE k \in T
  <2>1. k \in 1..n /\ k \in 0..n /\ k \in 1..l BY <1>1
  <2> DEFINE half == c.tracked[s[k]]
             x == TrackedChange(half)
  <2>2. Folds(g[k - 1], g[k], half, x) /\ ~Names(half, r) BY <2>1, ReplayStep DEF Spared
  <2> HIDE DEF half, x
  <2>3. x.old # r /\ x.new # r BY <2>2 DEF Folds, Names
  <2>4. /\ g[k].active[r] = g[k - 1].active[r]
        /\ r \in g[k - 1].deleted => r \in g[k].deleted
    BY <2>2, <2>3, ChangeElsewhere DEF Folds
  <2> QED BY <1>3, <2>1, <2>4
<1> HIDE DEF T
<1>4. \A k \in 0..l : k \in T BY <1>1, <1>2, <1>3, Upwards
<1>5. l \in T BY <1>1, <1>4
<1> QED BY <1>5 DEF T

\* A tracked rename of a path, and one to it.
TrackedFrom(T, p) == \E t \in DOMAIN T : T[t].from = p
TrackedTo(T, p) == \E t \in DOMAIN T : T[t].to = p

\* A path that was renamed away, and whose rename is replayed, is named by the batch:
\* it is gone, or another path came from it.
LEMMA ReplayHolds ==
    ASSUME NEW c, NEW n, NEW s, NEW g, Replay(c, n, s, g), NEW S, NEW Z, NEW R,
           Halves(c.tracked, S, Z), Single(c.tracked, R), Unhidden(c.tracked, R),
           DOMAIN c.tracked \subseteq Nat, NEW r \in Watched \ R, Anchored(g[0], r),
           TrackedFrom(c.tracked, r)
    PROVE  r \in g[n].deleted \/ \E q : HeldAt(g[n], r, q)
<1> DEFINE T == c.tracked
<1>1. /\ n \in Nat /\ s \in [1..n -> DOMAIN T]
      /\ \A i, j \in 1..n : i < j => s[i] < s[j]
      /\ DOMAIN T \subseteq Nat
  BY DEF Replay
<1>2. PICK m \in 1..n : T[s[m]].from = r
  <2>1. PICK t \in DOMAIN T : T[t].from = r BY DEF TrackedFrom
  <2>2. \E m \in 1..n : s[m] = t BY DEF Replay
  <2> QED BY <2>1, <2>2
<1>3. ASSUME NEW k \in 1..n, k # m PROVE ~Names(T[s[k]], r)
  <2>1. s[k] \in DOMAIN T /\ s[m] \in DOMAIN T BY <1>1
  <2>2. s[k] < s[m] \/ s[m] < s[k]
    <3>1. k < m \/ m < k BY <1>1, <1>3
    <3> QED BY <1>1, <3>1
  <2>3. SUFFICES ASSUME Names(T[s[k]], r) PROVE FALSE OBVIOUS
  <2>4. Names(T[s[m]], r) BY <1>2 DEF Names
  <2>5. s[k] = s[m] BY <2>1, <2>3, <2>4 DEF Single
  <2>6. s[k] \in Nat /\ s[m] \in Nat BY <1>1, <2>1
  <2> QED BY <2>2, <2>5, <2>6
<1>4. m - 1 \in 0..n /\ 0 \in 0..n /\ m \in 0..n BY <1>1
<1>5. Anchored(g[m - 1], r)
  <2>1. \A k \in 1..m - 1 : ~Names(T[s[k]], r) BY <1>1, <1>3
  <2>2. g[m - 1].active[r] = g[0].active[r]
    <3>1. Spared(c, s, m - 1, r) BY <2>1 DEF Spared
    <3>2. ASSUME NEW l \in 0..n, Spared(c, s, l, r)
          PROVE  /\ g[l].active[r] = g[0].active[r]
                 /\ r \in g[0].deleted => r \in g[l].deleted
      BY <3>2, ReplayPasses
    <3> QED BY <1>4, <3>1, <3>2
  <2> QED BY <2>2 DEF Anchored
<1> DEFINE Held(k) == r \in g[k].deleted
                        \/ \E j \in 1..k : HeldAt(g[k], r, T[s[j]].to)
           U == { k \in 0..n : Held(k) }
<1>6. m \in U
  <2> DEFINE half == T[s[m]]
             x == TrackedChange(half)
  <2>1. Folds(g[m - 1], g[m], half, x) /\ HalfOf(half, S, Z) BY ReplayStep
  <2>2. half.from = r BY <1>2
  <2> HIDE DEF x
  <2>3. r \in g[m].deleted \/ HeldAt(g[m], r, half.to)
    <3> HIDE DEF half
    <3> QED BY <1>5, <2>1, <2>2, MovedAway
  <2>4. m \in 1..m BY <1>1
  <2> QED BY <1>4, <2>3, <2>4
<1>7. ASSUME NEW k \in m + 1..n, k - 1 \in U PROVE k \in U
  <2>1. k \in 1..n /\ k \in 0..n /\ k # m /\ m < k BY <1>1
  <2> DEFINE half == T[s[k]]
             x == TrackedChange(half)
             v == g[k - 1]
  <2>2. Folds(v, g[k], half, x) /\ HalfOf(half, S, Z) /\ ~Names(half, r)
    BY <1>3, <2>1, ReplayStep
  <2>3. CASE r \in v.deleted
    <3> HIDE DEF x, half
    <3>1. x.old # r /\ x.new # r BY <2>2 DEF Folds, Names
    <3>2. r \in g[k].deleted BY <2>2, <2>3, <3>1, ChangeElsewhere DEF Folds
    <3> QED BY <2>1, <3>2
  <2>4. ASSUME NEW j \in 1..k - 1, HeldAt(v, r, T[s[j]].to) PROVE k \in U
    <3> DEFINE q == T[s[j]].to
    <3>1. j \in 1..n /\ j < k /\ j \in 1..k /\ k \in 1..k BY <1>1, <2>1
    <3>2. /\ s[j] < s[k] /\ s[m] < s[k]
          /\ s[j] \in DOMAIN T /\ s[k] \in DOMAIN T /\ s[m] \in DOMAIN T
      BY <1>1, <2>1, <3>1
    <3>3. ~(half.from = NoPath /\ half.to = q)
      <4> SUFFICES ASSUME half.from = NoPath, half.to = q PROVE FALSE OBVIOUS
      <4>1. T[s[m]].from = r BY <1>2
      <4>2. r \in R BY <3>2, <4>1 DEF Unhidden
      <4> QED BY <4>2
    <3>4. r \in g[k].deleted \/ HeldAt(g[k], r, q) \/ HeldAt(g[k], r, half.to)
      <4> HIDE DEF half, x, q, v
      <4>1. HeldAt(v, r, q) BY <2>4 DEF q
      <4> QED BY <2>2, <3>3, <4>1, HeldKept
    <3> QED BY <2>1, <3>1, <3>4
  <2> QED BY <1>7, <2>3, <2>4
<1> HIDE DEF U
<1>8. \A k \in m..n : k \in U BY <1>1, <1>4, <1>6, <1>7, Upwards
<1>9. n \in U BY <1>1, <1>8
<1> QED BY <1>9 DEF U

\* What the batch of a window names.
LEMMA BatchNames ==
    ASSUME NEW w, Window(w), NEW r \in Watched,
           Shown(w, r) \/ r \in w.deleted \/ \E q : HeldAt(w, r, q)
    PROVE  r \in Named(Batch(w))
<1>1. r # NoPath /\ r \in Paths BY PathsAssumption DEF Watched, NoPath
<1>2. SUFFICES \E x \in Reported(w) : x.old = r \/ x.new = r
  <2>1. Range(Batch(w)) = Reported(w) BY BatchIs
  <2>2. ASSUME NEW x \in Reported(w), x.old = r \/ x.new = r PROVE r \in NamedBy(x)
    BY <1>1, <2>2 DEF NamedBy
  <2> QED BY <2>1, <2>2 DEF Named
<1>3. CASE r \in w.deleted
  <2>1. deleted(r) \in Reported(w) BY <1>3 DEF Reported
  <2>2. deleted(r).old = r BY DEF deleted
  <2> QED BY <2>1, <2>2
<1>4. CASE w.active[r].here /\ (w.active[r].origin # r \/ w.active[r].modified)
  <2>1. CASE w.active[r].origin = NoPath
    <3>1. added(r) \in Reported(w) BY <1>1, <1>4, <2>1 DEF Reported
    <3>2. added(r).new = r BY DEF added
    <3> QED BY <3>1, <3>2
  <2>2. CASE w.active[r].origin \notin {NoPath, r}
    <3>1. renamed(w.active[r].origin, r) \in Reported(w) BY <1>1, <1>4, <2>2 DEF Reported
    <3>2. renamed(w.active[r].origin, r).new = r BY DEF renamed
    <3> QED BY <3>1, <3>2
  <2>3. CASE w.active[r].origin = r
    <3>1. modified(r) \in Reported(w) BY <1>1, <1>4, <2>3 DEF Reported
    <3>2. modified(r).new = r BY DEF modified
    <3> QED BY <3>1, <3>2
  <2> QED BY <2>1, <2>2, <2>3
<1>5. ASSUME NEW q, HeldAt(w, r, q) PROVE \E x \in Reported(w) : x.old = r \/ x.new = r
  <2>1. q \in Paths /\ q # r /\ w.active[q].here /\ w.active[q].origin = r
    BY <1>5 DEF HeldAt, Watched
  <2>2. renamed(w.active[q].origin, q) \in Reported(w) BY <1>1, <2>1 DEF Reported
  <2>3. renamed(w.active[q].origin, q).old = r BY <2>1 DEF renamed
  <2> QED BY <2>2, <2>3
<1> QED BY <1>3, <1>4, <1>5 DEF Shown

\* What the invariant of a window says of a path: it was renamed away, is not there,
\* and the batch will say so if it was there; or it was not renamed away, and the
\* batch will name it if it differs.
Source(w, T, f, b, p) ==
    f[p] = 0 /\ (b[p] = 0 \/ (Anchored(w, p) /\ (TrackedFrom(T, p) \/ Shown(w, p))))
Other(w, T, f, b, p) ==
    TrackedTo(T, p) \/ ((b[p] # 0 => Anchored(w, p)) /\ (f[p] # b[p] => Shown(w, p)))
Covered(w, T, f, b, S, p) ==
    IF p \in S THEN Source(w, T, f, b, p) ELSE Other(w, T, f, b, p)
CoveredAll(w, T, f, b, S, R) ==
    \/ ConfigPath \in R
    \/ ConfigPath \notin S /\ Shown(w, ConfigPath)
    \/ \A p \in Watched \ R : Covered(w, T, f, b, S, p)

\* The trackers of a window with n edits.
Trackers(T, n, S, Z, R) ==
    /\ DOMAIN T \subseteq 1..n /\ Halves(T, S, Z) /\ Single(T, R) /\ Unhidden(T, R)
    /\ S \cap Z \subseteq R

-----------------------------------------------------------------------------
(***************************************************************************)
(* What ingesting an event makes of a coalescer.                           *)
(***************************************************************************)
\* A coalescer, and what ingesting an event makes of it: it folds a change, or leaves
\* what is folded as it is.
Coalescer(c) == c \in CoalescersOf(IncrementalFileChange, {c.tracked})
FoldsInto(c, d, x) ==
    /\ Coalescer(d) /\ d.tracked = c.tracked
    /\ x \in IncrementalFileChange
    /\ Folded(d.operations) = FoldChange(Folded(c.operations), x)
FoldsNothing(c, d) ==
    Coalescer(d) /\ d.tracked = c.tracked /\ Folded(d.operations) = Folded(c.operations)
FoldsOf(c, d, p, x) ==
    /\ p \in Watched => FoldsInto(c, d, x)
    /\ p \notin Watched => FoldsNothing(c, d)

\* The coalescer is extended by nothing, or by one change.
LEMMA ExtendFolds ==
    ASSUME NEW c, Coalescer(c)
    PROVE  /\ FoldsNothing(c, extend(c, <<>>))
           /\ \A x \in IncrementalFileChange : FoldsInto(c, extend(c, <<x>>), x)
<1> DEFINE O == IncrementalFileChange
           T == {c.tracked}
<1>1. c \in CoalescersOf(O, T) /\ c.operations \in Seq(O) BY DEF Coalescer, CoalescersOf
<1>2. FoldsNothing(c, extend(c, <<>>))
  <2> DEFINE s == <<>>
             d == extend(c, s)
  <2>1. s \in Seq(O) /\ c.operations \o s = c.operations BY <1>1
  <2> HIDE DEF s, O, T
  <2>2. d \in CoalescersOf(O, T) /\ d.operations = c.operations \o s /\ d.tracked = c.tracked
    BY <1>1, <2>1, ExtendIs
  <2> HIDE DEF d
  <2>3. d \in CoalescersOf(O, {d.tracked}) BY <2>2 DEF T
  <2> QED BY <2>1, <2>2, <2>3 DEF FoldsNothing, Coalescer, d, s, O
<1>3. ASSUME NEW x \in O PROVE FoldsInto(c, extend(c, <<x>>), x)
  <2> DEFINE d == extend(c, <<x>>)
  <2> HIDE DEF O, T
  <2>1. /\ d \in CoalescersOf(O, T) /\ d.operations = Append(c.operations, x)
        /\ d.tracked = c.tracked
    BY <1>1, ExtendByOne
  <2>2. Folded(Append(c.operations, x)) = FoldChange(Folded(c.operations), x)
    BY <1>1, FoldedAppend
  <2> HIDE DEF d
  <2>3. d \in CoalescersOf(O, {d.tracked}) BY <2>1 DEF T
  <2> QED BY <2>1, <2>2, <2>3 DEF FoldsInto, Coalescer, d, O
<1> QED BY <1>2, <1>3

\* The three changes of a path.
LEMMA ChangesOf ==
    ASSUME NEW p \in Watched
    PROVE  /\ added(p) \in IncrementalFileChange /\ added(p).old = NoPath /\ added(p).new = p
           /\ modified(p) \in IncrementalFileChange
           /\ modified(p).old = NoPath /\ modified(p).new = p
           /\ deleted(p) \in IncrementalFileChange
           /\ deleted(p).old = p /\ deleted(p).new = NoPath
           /\ \A w : /\ FoldChange(w, added(p)) = FoldAdded(w, p)
                     /\ FoldChange(w, modified(p)) = FoldModified(w, p)
                     /\ FoldChange(w, deleted(p)) = FoldDeleted(w, p)
BY DEF IncrementalFileChange, FoldChange, added, modified, deleted

\* An event that names one path.
LEMMA IngestPath ==
    ASSUME NEW c, Coalescer(c), NEW p \in Paths
    PROVE  /\ FoldsOf(c, ingest(c, watchEvent("create", <<p>>, NoTracker)), p, added(p))
           /\ FoldsOf(c, ingest(c, watchEvent("modify", <<p>>, NoTracker)), p, modified(p))
           /\ FoldsOf(c, ingest(c, watchEvent("any", <<p>>, NoTracker)), p, modified(p))
           /\ FoldsOf(c, ingest(c, watchEvent("remove", <<p>>, NoTracker)), p, deleted(p))
           /\ FoldsOf(c, ingest(c, watchEvent("from", <<p>>, NoTracker)), p, deleted(p))
           /\ FoldsOf(c, ingest(c, watchEvent("to", <<p>>, NoTracker)), p, added(p))
<1>1. /\ FoldsOf(c, extend(c, Each(Classified(<<p>>), added)), p, added(p))
      /\ FoldsOf(c, extend(c, Each(Classified(<<p>>), modified)), p, modified(p))
      /\ FoldsOf(c, extend(c, Each(Classified(<<p>>), deleted)), p, deleted(p))
  <2>1. CASE p \in Watched
    <3>1. /\ Each(Classified(<<p>>), added) = <<added(p)>>
          /\ Each(Classified(<<p>>), modified) = <<modified(p)>>
          /\ Each(Classified(<<p>>), deleted) = <<deleted(p)>>
      BY <2>1, EachOfPath
    <3>2. /\ FoldsInto(c, extend(c, <<added(p)>>), added(p))
          /\ FoldsInto(c, extend(c, <<modified(p)>>), modified(p))
          /\ FoldsInto(c, extend(c, <<deleted(p)>>), deleted(p))
      BY <2>1, ChangesOf, ExtendFolds
    <3> QED BY <2>1, <3>1, <3>2 DEF FoldsOf
  <2>2. CASE p \notin Watched
    <3>1. /\ Each(Classified(<<p>>), added) = <<>>
          /\ Each(Classified(<<p>>), modified) = <<>>
          /\ Each(Classified(<<p>>), deleted) = <<>>
      BY <2>2, EachOfPath
    <3>2. FoldsNothing(c, extend(c, <<>>)) BY ExtendFolds
    <3> QED BY <2>2, <3>1, <3>2 DEF FoldsOf
  <2> QED BY <2>1, <2>2
<1>2. ingest(c, watchEvent("create", <<p>>, NoTracker))
        = extend(c, Each(Classified(<<p>>), added))
  BY Zenon DEF ingest, watchEvent
<1>3. ingest(c, watchEvent("remove", <<p>>, NoTracker))
        = extend(c, Each(Classified(<<p>>), deleted))
  BY Zenon DEF ingest, watchEvent
<1>4. ingest(c, watchEvent("modify", <<p>>, NoTracker))
        = extend(c, Each(Classified(<<p>>), modified))
  <2> DEFINE e == watchEvent("modify", <<p>>, NoTracker)
  <2>1. e.kind = "modify" /\ e.paths = <<p>> BY DEF watchEvent
  <2> HIDE DEF e
  <2>2. ingest(c, e) = extend(c, Each(Classified(<<p>>), modified))
    BY <2>1, Zenon DEF ingest
  <2> QED BY <2>2 DEF e
<1>5. ingest(c, watchEvent("any", <<p>>, NoTracker))
        = extend(c, Each(Classified(<<p>>), modified))
  <2> DEFINE e == watchEvent("any", <<p>>, NoTracker)
  <2>1. e.kind = "any" /\ e.paths = <<p>> BY DEF watchEvent
  <2>2. Len(Classified(<<p>>)) # 2
    <3>1. Len(Classified(<<p>>)) = 1 BY EachOfPath
    <3> QED BY <3>1
  <2> HIDE DEF e
  <2>3. ingest(c, e) = extend(c, Each(Classified(<<p>>), modified))
    BY <2>1, <2>2, Zenon DEF ingest
  <2> QED BY <2>3 DEF e
<1>6. ingest(c, watchEvent("from", <<p>>, NoTracker))
        = extend(c, Each(Classified(<<p>>), deleted))
  <2> DEFINE e == watchEvent("from", <<p>>, NoTracker)
  <2>1. e.kind = "from" /\ e.paths = <<p>> /\ e.tracker = NoTracker BY DEF watchEvent
  <2> HIDE DEF e
  <2>2. ingest(c, e) = extend(c, Each(Classified(<<p>>), deleted))
    BY <2>1, Zenon DEF ingest
  <2> QED BY <2>2 DEF e
<1>7. ingest(c, watchEvent("to", <<p>>, NoTracker))
        = extend(c, Each(Classified(<<p>>), added))
  <2> DEFINE e == watchEvent("to", <<p>>, NoTracker)
  <2>1. e.kind = "to" /\ e.paths = <<p>> /\ e.tracker = NoTracker BY DEF watchEvent
  <2> HIDE DEF e
  <2>2. ingest(c, e) = extend(c, Each(Classified(<<p>>), added))
    BY <2>1, Zenon DEF ingest
  <2> QED BY <2>2 DEF e
<1> QED BY <1>1, <1>2, <1>3, <1>4, <1>5, <1>6, <1>7

\* The event of an overflow.
LEMMA IngestRescan ==
    ASSUME NEW c, Coalescer(c)
    PROVE  FoldsInto(c, ingest(c, watchEvent("rescan", <<>>, NoTracker)), modified(ConfigPath))
<1>1. ingest(c, watchEvent("rescan", <<>>, NoTracker)) = extend(c, <<modified(ConfigPath)>>)
  BY Zenon DEF ingest, watchEvent
<1>2. ConfigPath \in Watched BY PathsAssumption DEF Watched
<1>3. modified(ConfigPath) \in IncrementalFileChange BY <1>2, ChangesOf
<1> QED BY <1>1, <1>3, ExtendFolds

\* What one window says of a path, the next one says too.
Same(w, v, r) ==
    v.active[r] = w.active[r] /\ (r \in w.deleted => r \in v.deleted)

\* A window of which a path went away, and one to which a path came.
LeftFrom(w, v, p) ==
    /\ \A r \in Watched \ {p} : Same(w, v, r) /\ (NotOrigin(w, r) => NotOrigin(v, r))
    /\ p \in Watched /\ NotOrigin(w, p) /\ Anchored(w, p) => Anchored(v, p) /\ Shown(v, p)
CameTo(w, v, q) ==
    /\ \A r \in Watched \ {q} : Same(w, v, r)
    /\ \A r \in Watched : NotOrigin(w, r) => NotOrigin(v, r)
    /\ q \in Watched /\ NotOrigin(w, q) =>
           Shown(v, q) /\ (Anchored(w, q) /\ Shown(w, q) => Anchored(v, q))

\* Nothing is folded for an ignored path.
LEMMA NothingFolded ==
    ASSUME NEW w, NEW p, p \notin Watched
    PROVE  LeftFrom(w, w, p) /\ CameTo(w, w, p)
BY DEF LeftFrom, CameTo, Same

\* A file that is written, or was renamed there, came to its path; and a change of a
\* path that came from itself leaves the path so, and names it.
LEMMA WrittenAt ==
    ASSUME NEW w, Window(w), NEW p \in Watched
    PROVE  /\ CameTo(w, FoldChange(w, added(p)), p)
           /\ CameTo(w, FoldChange(w, modified(p)), p)
           /\ LeftFrom(w, FoldChange(w, modified(p)), p)
           /\ LeftFrom(w, FoldChange(w, deleted(p)), p)
<1>1. /\ added(p) \in IncrementalFileChange /\ added(p).old = NoPath /\ added(p).new = p
      /\ modified(p) \in IncrementalFileChange
      /\ modified(p).old = NoPath /\ modified(p).new = p
      /\ deleted(p) \in IncrementalFileChange
      /\ deleted(p).old = p /\ deleted(p).new = NoPath
      /\ FoldChange(w, added(p)) = FoldAdded(w, p)
      /\ FoldChange(w, modified(p)) = FoldModified(w, p)
      /\ FoldChange(w, deleted(p)) = FoldDeleted(w, p)
  BY ChangesOf
<1>2. p \in Paths /\ NoPath \notin Watched BY PathsAssumption DEF Watched, NoPath
<1>3. ASSUME NEW x \in IncrementalFileChange, x.old \in {p, NoPath}, x.new \in {p, NoPath}
      PROVE  \A r \in Watched \ {p} : /\ Same(w, FoldChange(w, x), r)
                                      /\ NotOrigin(w, r) => NotOrigin(FoldChange(w, x), r)
  <2> SUFFICES ASSUME NEW r \in Watched \ {p}
               PROVE  /\ Same(w, FoldChange(w, x), r)
                      /\ NotOrigin(w, r) => NotOrigin(FoldChange(w, x), r)
    OBVIOUS
  <2>1. x.old # r /\ x.new # r BY <1>2, <1>3
  <2>2. /\ FoldChange(w, x).active[r] = w.active[r]
        /\ r \in w.deleted => r \in FoldChange(w, x).deleted
    BY <2>1, ChangeElsewhere
  <2>3. NotOrigin(w, r) => NotOrigin(FoldChange(w, x), r) BY <2>1, NotOriginKept
  <2> QED BY <2>2, <2>3 DEF Same
<1>4. ASSUME NEW x \in IncrementalFileChange, x.old = NoPath, x.new = p, NotOrigin(w, p)
      PROVE  Shown(FoldChange(w, x), p) /\ NotOrigin(FoldChange(w, x), p)
  <2>1. x.old # p BY <1>2, <1>4
  <2> QED BY <1>4, <2>1, NewIsShown, NotOriginKept
<1>5. CameTo(w, FoldChange(w, added(p)), p)
  <2> DEFINE v == FoldChange(w, added(p))
  <2>1. AddedAt(w, v, p) BY <1>1, AddedIs
  <2>2. NotOrigin(w, p) => Shown(v, p) /\ NotOrigin(v, p) BY <1>1, <1>4
  <2>3. \A r \in Watched \ {p} : Same(w, v, r) /\ (NotOrigin(w, r) => NotOrigin(v, r))
    BY <1>1, <1>3
  <2> HIDE DEF v
  <2>4. Anchored(w, p) /\ Shown(w, p) => Anchored(v, p)
    BY <2>1 DEF AddedAt, Anchored, Shown
  <2>5. CameTo(w, v, p) BY <2>2, <2>3, <2>4 DEF CameTo
  <2> QED BY <2>5 DEF v
<1>6. CameTo(w, FoldChange(w, modified(p)), p) /\ LeftFrom(w, FoldChange(w, modified(p)), p)
  <2> DEFINE v == FoldChange(w, modified(p))
  <2>1. ModifiedAt(w, v, p) BY <1>1, ModifiedIs
  <2>2. NotOrigin(w, p) => Shown(v, p) /\ NotOrigin(v, p) BY <1>1, <1>4
  <2>3. \A r \in Watched \ {p} : Same(w, v, r) /\ (NotOrigin(w, r) => NotOrigin(v, r))
    BY <1>1, <1>3
  <2> HIDE DEF v
  <2>4. Anchored(w, p) => Anchored(v, p) BY <2>1 DEF ModifiedAt, Anchored
  <2>5. CameTo(w, v, p) /\ LeftFrom(w, v, p) BY <2>2, <2>3, <2>4 DEF CameTo, LeftFrom
  <2> QED BY <2>5 DEF v
<1>7. LeftFrom(w, FoldChange(w, deleted(p)), p)
  <2> DEFINE v == FoldChange(w, deleted(p))
  <2>1. DeletedAt(w, v, p) BY <1>1, DeletedIs
  <2>2. \A r \in Watched \ {p} : Same(w, v, r) /\ (NotOrigin(w, r) => NotOrigin(v, r))
    BY <1>1, <1>3
  <2> HIDE DEF v
  <2>3. Anchored(w, p) => Anchored(v, p) /\ Shown(v, p)
    <3> SUFFICES ASSUME Anchored(w, p) PROVE Anchored(v, p) /\ Shown(v, p) OBVIOUS
    <3>1. p # NoPath BY <1>2
    <3>2. p \in v.deleted
      <4>1. CASE w.active[p].here BY <2>1, <3>1, <4>1 DEF DeletedAt, Anchored
      <4>2. CASE ~w.active[p].here BY <2>1, <4>2 DEF DeletedAt
      <4> QED BY <4>1, <4>2
    <3>3. Anchored(v, p) BY <2>1 DEF DeletedAt, Anchored
    <3> QED BY <3>2, <3>3 DEF Shown
  <2>4. LeftFrom(w, v, p) BY <2>2, <2>3 DEF LeftFrom
  <2> QED BY <2>4 DEF v
<1> QED BY <1>5, <1>6, <1>7

\* What a rename makes of a window and of its trackers.
Renames(w, v, U, p, q) ==
    /\ \A r \in Watched \ {p, q} : Same(w, v, r)
    /\ \A r \in Watched \ {p} : NotOrigin(w, r) => NotOrigin(v, r)
    /\ \A r \in Watched \ {p} : NotOrigin(w, r) /\ Shown(w, r) => Shown(v, r)
    /\ q \in Watched /\ NotOrigin(w, q) =>
           \/ TrackedTo(U, q)
           \/ Shown(v, q) /\ (Anchored(w, q) /\ Shown(w, q) => Anchored(v, q))
    /\ p \in Watched /\ NotOrigin(w, p) /\ Anchored(w, p) =>
           Anchored(v, p) /\ (TrackedFrom(U, p) \/ Shown(v, p))

\* Two halves, or two events that name the paths.
LEMMA RenamesByHalves ==
    ASSUME NEW w, NEW u, NEW v, NEW T, NEW p, NEW q, p # q,
           LeftFrom(w, u, p), CameTo(u, v, q)
    PROVE  Renames(w, v, T, p, q)
<1>1. ASSUME NEW r \in Watched \ {p, q} PROVE Same(w, v, r)
  <2>1. Same(w, u, r) /\ Same(u, v, r) BY DEF LeftFrom, CameTo
  <2> QED BY <2>1 DEF Same
<1>2. ASSUME NEW r \in Watched \ {p}, NotOrigin(w, r) PROVE NotOrigin(v, r)
  BY <1>2 DEF LeftFrom, CameTo
<1>3. ASSUME q \in Watched, NotOrigin(w, q)
      PROVE  Shown(v, q) /\ (Anchored(w, q) /\ Shown(w, q) => Anchored(v, q))
  <2>1. Same(w, u, q) /\ NotOrigin(u, q) BY <1>3 DEF LeftFrom
  <2>2. Anchored(w, q) /\ Shown(w, q) => Anchored(u, q) /\ Shown(u, q)
    BY <2>1 DEF Same, Anchored, Shown
  <2> QED BY <1>3, <2>1, <2>2 DEF CameTo
<1>4. ASSUME NEW r \in Watched \ {p}, NotOrigin(w, r), Shown(w, r) PROVE Shown(v, r)
  <2>1. CASE r = q BY <1>3, <1>4, <2>1
  <2>2. CASE r # q
    <3>1. Same(w, v, r) BY <1>1, <2>2
    <3> QED BY <1>4, <3>1 DEF Same, Shown
  <2> QED BY <2>1, <2>2
<1>5. ASSUME p \in Watched, NotOrigin(w, p), Anchored(w, p) PROVE Anchored(v, p) /\ Shown(v, p)
  <2>1. Anchored(u, p) /\ Shown(u, p) BY <1>5 DEF LeftFrom
  <2>2. Same(u, v, p) BY <1>5 DEF CameTo
  <2> QED BY <2>1, <2>2 DEF Same, Anchored, Shown
<1> QED BY <1>1, <1>2, <1>3, <1>4, <1>5 DEF Renames

\* The half that is tracked of a path, and the trackers with one more.
OnTrack(p) == IF p \in Watched THEN p ELSE NoPath
OneMore(T, U, t, p, q) ==
    /\ DOMAIN U = DOMAIN T \cup {t}
    /\ U[t].from = OnTrack(p) /\ U[t].to = OnTrack(q)
    /\ \A u \in DOMAIN T : U[u] = T[u]
NoneOrOneMore(T, U, t, p, q) ==
    \/ U = T
    \/ (p \in Watched \/ q \in Watched) /\ OneMore(T, U, t, p, q)

\* A coalescer with one half more, and nothing else.
Tracks(c, d, t, half) ==
    /\ Coalescer(d) /\ d.operations = c.operations
    /\ DOMAIN d.tracked = DOMAIN c.tracked \cup {t}
    /\ d.tracked[t] = half
    /\ \A u \in DOMAIN c.tracked \ {t} : d.tracked[u] = c.tracked[u]

\* A half is put into the trackers.
LEMMA TrackedIs ==
    ASSUME NEW c, Coalescer(c), NEW t, NEW half
    PROVE  Tracks(c, Tracked(c, t, half), t, half)
<1> DEFINE d == Tracked(c, t, half)
           U == [u \in DOMAIN c.tracked \cup {t} |-> IF u = t THEN half ELSE c.tracked[u]]
<1>1. /\ c = [operations |-> c.operations, tracked |-> c.tracked, revision |-> c.revision]
      /\ c.operations \in Seq(IncrementalFileChange) /\ c.revision \in Nat
  BY DEF Coalescer, CoalescersOf
<1>2. d = [c EXCEPT !.tracked = U, !.revision = @ + 1] BY DEF Tracked
<1>3. /\ DOMAIN U = DOMAIN c.tracked \cup {t} /\ U[t] = half
      /\ \A u \in DOMAIN c.tracked \ {t} : U[u] = c.tracked[u]
  OBVIOUS
<1> HIDE DEF U
<1>4. d = [operations |-> c.operations, tracked |-> U, revision |-> c.revision + 1]
  BY <1>1, <1>2
<1>5. d.operations = c.operations /\ d.tracked = U /\ Coalescer(d)
  BY <1>1, <1>4 DEF Coalescer, CoalescersOf
<1> HIDE DEF d
<1>6. Tracks(c, d, t, half) BY <1>3, <1>5 DEF Tracks
<1> QED BY <1>6 DEF d

\* The two halves of a tracked rename.
LEMMA IngestHalves ==
    ASSUME NEW c, Coalescer(c), NEW t, t # NoTracker, t \notin DOMAIN c.tracked,
           NEW p \in Paths, NEW q \in Paths, p # q, NEW b, NEW d,
           b = ingest(c, watchEvent("from", <<p>>, t)),
           d = ingest(b, watchEvent("to", <<q>>, t))
    PROVE  /\ Coalescer(d) /\ d.operations = c.operations
           /\ p \notin Watched /\ q \notin Watched => d.tracked = c.tracked
           /\ p \in Watched \/ q \in Watched => OneMore(c.tracked, d.tracked, t, p, q)
<1>1. NoPath \notin Watched BY PathsAssumption DEF Watched, NoPath
<1>2. ASSUME NEW r \in Paths PROVE Classified(<<r>>)[1] = OnTrack(r)
  BY DEF Classified, OnTrack, Watched
<1>3. b = IF OnTrack(p) = NoPath THEN c ELSE track_rename_from(c, t, OnTrack(p))
  <2> DEFINE e == watchEvent("from", <<p>>, t)
  <2>1. e.kind = "from" /\ e.paths = <<p>> /\ e.tracker = t BY DEF watchEvent
  <2> HIDE DEF e
  <2>2. ingest(c, e) = IF Classified(<<p>>)[1] = NoPath THEN c
                       ELSE track_rename_from(c, t, Classified(<<p>>)[1])
    BY <2>1, Zenon DEF ingest
  <2>3. b = ingest(c, e) BY DEF e
  <2> QED BY <1>2, <2>2, <2>3
<1>4. d = IF OnTrack(q) = NoPath THEN b ELSE track_rename_to(b, t, OnTrack(q))
  <2> DEFINE e == watchEvent("to", <<q>>, t)
  <2>1. e.kind = "to" /\ e.paths = <<q>> /\ e.tracker = t BY DEF watchEvent
  <2> HIDE DEF e
  <2>2. ingest(b, e) = IF Classified(<<q>>)[1] = NoPath THEN b
                       ELSE track_rename_to(b, t, Classified(<<q>>)[1])
    BY <2>1, Zenon DEF ingest
  <2>3. d = ingest(b, e) BY DEF e
  <2> QED BY <1>2, <2>2, <2>3
<1>5. Half(c, t) = [from |-> NoPath, to |-> NoPath] BY DEF Half
<1>6. CASE p \notin Watched
  <2>1. b = c /\ OnTrack(p) = NoPath BY <1>3, <1>6 DEF OnTrack
  <2>2. CASE q \notin Watched BY <1>4, <1>6, <2>1, <2>2 DEF OnTrack
  <2>3. CASE q \in Watched
    <3>1. d = Tracked(c, t, [Half(c, t) EXCEPT !.to = q]) /\ OnTrack(q) = q
      BY <1>1, <1>4, <2>1, <2>3 DEF OnTrack, track_rename_to
    <3> DEFINE half == [from |-> NoPath, to |-> q]
    <3>2. d = Tracked(c, t, half) BY <1>5, <3>1
    <3>3. half.from = NoPath /\ half.to = q OBVIOUS
    <3> HIDE DEF half
    <3>4. /\ Coalescer(d) /\ d.operations = c.operations
          /\ DOMAIN d.tracked = DOMAIN c.tracked \cup {t}
          /\ d.tracked[t] = half
          /\ \A u \in DOMAIN c.tracked \ {t} : d.tracked[u] = c.tracked[u]
      <4>1. Tracks(c, Tracked(c, t, half), t, half) BY TrackedIs
      <4> QED BY <3>2, <4>1 DEF Tracks
    <3>5. \A u \in DOMAIN c.tracked : d.tracked[u] = c.tracked[u] BY <3>4
    <3>6. d.tracked[t].from = OnTrack(p) /\ d.tracked[t].to = OnTrack(q)
      BY <2>1, <3>1, <3>3, <3>4
    <3>7. OneMore(c.tracked, d.tracked, t, p, q) BY <3>4, <3>5, <3>6 DEF OneMore
    <3> QED BY <1>6, <2>3, <3>4, <3>7
  <2> QED BY <2>2, <2>3
<1>7. CASE p \in Watched
  <2>1. b = Tracked(c, t, [Half(c, t) EXCEPT !.from = p]) /\ OnTrack(p) = p
    BY <1>1, <1>3, <1>7 DEF OnTrack, track_rename_from
  <2> DEFINE half == [from |-> p, to |-> NoPath]
  <2>2. b = Tracked(c, t, half) BY <1>5, <2>1
  <2>3. half.from = p /\ half.to = NoPath OBVIOUS
  <2>4. [half EXCEPT !.to = q] = [from |-> p, to |-> q] OBVIOUS
  <2> HIDE DEF half
  <2>5. /\ Coalescer(b) /\ b.operations = c.operations
        /\ DOMAIN b.tracked = DOMAIN c.tracked \cup {t}
        /\ b.tracked[t] = half
        /\ \A u \in DOMAIN c.tracked \ {t} : b.tracked[u] = c.tracked[u]
    BY <2>2, TrackedIs DEF Tracks
  <2>6. CASE q \notin Watched
    <3>1. d = b /\ OnTrack(q) = NoPath BY <1>4, <2>6 DEF OnTrack
    <3> QED BY <1>7, <2>1, <2>3, <2>5, <3>1 DEF OneMore
  <2>7. CASE q \in Watched
    <3>1. d = Tracked(b, t, [Half(b, t) EXCEPT !.to = q]) /\ OnTrack(q) = q
      BY <1>1, <1>4, <2>7 DEF OnTrack, track_rename_to
    <3>2. Half(b, t) = half BY <2>5 DEF Half
    <3> DEFINE whole == [from |-> p, to |-> q]
    <3>3. d = Tracked(b, t, whole) BY <2>4, <3>1, <3>2
    <3>4. whole.from = p /\ whole.to = q OBVIOUS
    <3> HIDE DEF whole
    <3>5. /\ Coalescer(d) /\ d.operations = b.operations
          /\ DOMAIN d.tracked = DOMAIN b.tracked \cup {t}
          /\ d.tracked[t] = whole
          /\ \A u \in DOMAIN b.tracked \ {t} : d.tracked[u] = b.tracked[u]
      <4>1. Tracks(b, Tracked(b, t, whole), t, whole) BY <2>5, TrackedIs
      <4> QED BY <3>3, <4>1 DEF Tracks
    <3>6. /\ DOMAIN d.tracked = DOMAIN c.tracked \cup {t}
          /\ \A u \in DOMAIN c.tracked : d.tracked[u] = c.tracked[u]
      BY <2>5, <3>5
    <3>7. d.tracked[t].from = OnTrack(p) /\ d.tracked[t].to = OnTrack(q)
      BY <2>1, <3>1, <3>4, <3>5
    <3>8. OneMore(c.tracked, d.tracked, t, p, q) BY <3>6, <3>7 DEF OneMore
    <3> QED BY <1>7, <2>5, <3>5, <3>8
  <2> QED BY <2>6, <2>7
<1> QED BY <1>6, <1>7

\* The pair of a rename.
LEMMA IngestPair ==
    ASSUME NEW c, Coalescer(c), NEW t, NEW p \in Paths, NEW q \in Paths, p # q, NEW d,
           d = ingest(c, watchEvent("both", <<p, q>>, t))
    PROVE  \/ p \in Watched /\ q \in Watched /\ FoldsInto(c, d, renamed(p, q))
           \/ p \in Watched /\ q \notin Watched /\ FoldsInto(c, d, deleted(p))
           \/ p \notin Watched /\ q \in Watched /\ FoldsInto(c, d, added(q))
           \/ p \notin Watched /\ q \notin Watched /\ FoldsNothing(c, d)
<1>1. NoPath \notin Watched BY PathsAssumption DEF Watched, NoPath
<1>2. d = extend(c, PairChange(OnTrack(p), OnTrack(q)))
  <2> DEFINE s == <<p, q>>
             e == watchEvent("both", s, t)
  <2>1. e.kind = "both" /\ e.paths = s BY DEF watchEvent
  <2>2. Classified(s)[1] = OnTrack(p) /\ Classified(s)[2] = OnTrack(q)
    BY DEF Classified, OnTrack, Watched
  <2>3. d = ingest(c, e) OBVIOUS
  <2> HIDE DEF e, s
  <2>4. ingest(c, e) = extend(c, PairChange(Classified(s)[1], Classified(s)[2]))
    BY <2>1, Zenon DEF ingest
  <2> QED BY <2>2, <2>3, <2>4
<1>3. CASE p \in Watched /\ q \in Watched
  <2>1. PairChange(OnTrack(p), OnTrack(q)) = <<renamed(p, q)>>
    BY <1>1, <1>3 DEF PairChange, OnTrack
  <2>2. renamed(p, q) \in IncrementalFileChange
    <3> DEFINE x == <<p, q>>
    <3>1. x \in { y \in Watched \X Watched : y[1] # y[2] } /\ renamed(p, q) = renamed(x[1], x[2])
      BY <1>3
    <3> HIDE DEF x
    <3> QED BY <3>1 DEF IncrementalFileChange
  <2>3. FoldsInto(c, extend(c, <<renamed(p, q)>>), renamed(p, q)) BY <2>2, ExtendFolds
  <2> QED BY <1>2, <1>3, <2>1, <2>3
<1>4. CASE p \in Watched /\ q \notin Watched
  <2>1. PairChange(OnTrack(p), OnTrack(q)) = <<deleted(p)>>
    BY <1>1, <1>4 DEF PairChange, OnTrack
  <2>2. deleted(p) \in IncrementalFileChange BY <1>4, ChangesOf
  <2>3. FoldsInto(c, extend(c, <<deleted(p)>>), deleted(p)) BY <2>2, ExtendFolds
  <2> QED BY <1>2, <1>4, <2>1, <2>3
<1>5. CASE p \notin Watched /\ q \in Watched
  <2>1. PairChange(OnTrack(p), OnTrack(q)) = <<added(q)>>
    BY <1>1, <1>5 DEF PairChange, OnTrack
  <2>2. added(q) \in IncrementalFileChange BY <1>5, ChangesOf
  <2>3. FoldsInto(c, extend(c, <<added(q)>>), added(q)) BY <2>2, ExtendFolds
  <2> QED BY <1>2, <1>5, <2>1, <2>3
<1>6. CASE p \notin Watched /\ q \notin Watched
  <2>1. PairChange(OnTrack(p), OnTrack(q)) = <<>> BY <1>6 DEF PairChange, OnTrack
  <2>2. FoldsNothing(c, extend(c, <<>>)) BY ExtendFolds
  <2> QED BY <1>2, <1>6, <2>1, <2>2
<1> QED BY <1>3, <1>4, <1>5, <1>6

\* The pair of a rename whose halves are tracked.
LEMMA RenamesByPair ==
    ASSUME NEW c, Coalescer(c), NEW d, NEW t, NEW p \in Paths, NEW q \in Paths, p # q,
           d = ingest(c, watchEvent("both", <<p, q>>, t)),
           p \in Watched => TrackedFrom(c.tracked, p), q \in Watched => TrackedTo(c.tracked, q)
    PROVE  /\ Coalescer(d) /\ d.tracked = c.tracked
           /\ Renames(Folded(c.operations), Folded(d.operations), c.tracked, p, q)
<1> DEFINE w == Folded(c.operations)
           v == Folded(d.operations)
<1>1. Window(w)
  <2>1. c.operations \in Seq(IncrementalFileChange) BY DEF Coalescer, CoalescersOf
  <2> QED BY <2>1, FoldedTyped
<1>2. NoPath \notin Watched BY PathsAssumption DEF Watched, NoPath
<1>3. ASSUME v = w PROVE Renames(w, v, c.tracked, p, q)
  <2> HIDE DEF w, v
  <2> QED BY <1>3 DEF Renames, Same
<1>4. ASSUME NEW x, FoldsInto(c, d, x), x.old \in {p, NoPath}, x.new \in {q, NoPath},
             p \in Watched /\ Anchored(w, p) => Anchored(v, p)
      PROVE  Renames(w, v, c.tracked, p, q)
  <2>1. v = FoldChange(w, x) /\ x \in IncrementalFileChange BY <1>4 DEF FoldsInto
  <2> HIDE DEF w, v
  <2>2. ASSUME NEW r \in Watched \ {p, q} PROVE Same(w, v, r)
    <3>1. x.old # r /\ x.new # r BY <1>2, <1>4
    <3>2. /\ FoldChange(w, x).active[r] = w.active[r]
          /\ r \in w.deleted => r \in FoldChange(w, x).deleted
      BY <1>1, <2>1, <3>1, ChangeElsewhere
    <3> QED BY <2>1, <3>2 DEF Same
  <2>3. ASSUME NEW r \in Watched \ {p}, NotOrigin(w, r) PROVE NotOrigin(v, r)
    <3>1. x.old # r BY <1>2, <1>4
    <3> QED BY <1>1, <2>1, <2>3, <3>1, NotOriginKept
  <2>4. ASSUME NEW r \in Watched \ {p}, NotOrigin(w, r), Shown(w, r) PROVE Shown(v, r)
    <3>1. x.old # r BY <1>2, <1>4
    <3>2. Shown(FoldChange(w, x), r) /\ NotOrigin(FoldChange(w, x), r)
      BY <1>1, <2>1, <2>4, <3>1, ShownKept
    <3> QED BY <2>1, <3>2
  <2> QED BY <1>4, <2>2, <2>3, <2>4 DEF Renames
<1>5. CASE p \in Watched /\ q \in Watched /\ FoldsInto(c, d, renamed(p, q))
  <2>1. renamed(p, q).old = p /\ renamed(p, q).new = q
        /\ FoldChange(w, renamed(p, q)) = FoldRenamed(w, p, q)
    BY DEF renamed, FoldChange
  <2>2. v = FoldRenamed(w, p, q) BY <1>5, <2>1 DEF FoldsInto
  <2>3. RenamedTo(w, v, p, q) BY <1>1, <1>5, <2>2, RenamedIs
  <2>4. Anchored(w, p) => Anchored(v, p)
    <3> HIDE DEF w, v
    <3> QED BY <2>3 DEF RenamedTo, Anchored
  <2> HIDE DEF w, v
  <2>5. Renames(w, v, c.tracked, p, q) BY <1>4, <1>5, <2>1, <2>4
  <2> QED BY <1>5, <2>5 DEF FoldsInto, v, w
<1>6. CASE p \in Watched /\ q \notin Watched /\ FoldsInto(c, d, deleted(p))
  <2>1. deleted(p).old = p /\ deleted(p).new = NoPath
        /\ FoldChange(w, deleted(p)) = FoldDeleted(w, p)
    BY DEF deleted, FoldChange
  <2>2. v = FoldDeleted(w, p) BY <1>6, <2>1 DEF FoldsInto
  <2>3. DeletedAt(w, v, p) BY <1>1, <1>6, <2>2, DeletedIs
  <2>4. Anchored(v, p)
    <3> HIDE DEF w, v
    <3> QED BY <2>3 DEF DeletedAt, Anchored
  <2> HIDE DEF w, v
  <2>5. Renames(w, v, c.tracked, p, q) BY <1>4, <1>6, <2>1, <2>4
  <2> QED BY <1>6, <2>5 DEF FoldsInto, v, w
<1>7. CASE p \notin Watched /\ q \in Watched /\ FoldsInto(c, d, added(q))
  <2>1. added(q).old = NoPath /\ added(q).new = q BY DEF added
  <2> HIDE DEF w, v
  <2>2. Renames(w, v, c.tracked, p, q) BY <1>4, <1>7, <2>1
  <2> QED BY <1>7, <2>2 DEF FoldsInto, v, w
<1>8. CASE p \notin Watched /\ q \notin Watched /\ FoldsNothing(c, d)
  BY <1>3, <1>8 DEF FoldsNothing
<1> QED BY <1>5, <1>6, <1>7, <1>8, IngestPair

\* An event that says that a path went away, and one that says that it is there.
LEMMA EventLeft ==
    ASSUME NEW c, Coalescer(c), NEW d, NEW p, NEW x, FoldsOf(c, d, p, x),
           x = modified(p) \/ x = deleted(p)
    PROVE  /\ Coalescer(d) /\ d.tracked = c.tracked
           /\ LeftFrom(Folded(c.operations), Folded(d.operations), p)
<1>1. Window(Folded(c.operations))
  <2>1. c.operations \in Seq(IncrementalFileChange) BY DEF Coalescer, CoalescersOf
  <2> QED BY <2>1, FoldedTyped
<1>2. CASE p \in Watched
  <2>1. FoldsInto(c, d, x) BY <1>2 DEF FoldsOf
  <2>2. Coalescer(d) /\ d.tracked = c.tracked
        /\ Folded(d.operations) = FoldChange(Folded(c.operations), x)
    BY <2>1 DEF FoldsInto
  <2>3. /\ LeftFrom(Folded(c.operations), FoldChange(Folded(c.operations), modified(p)), p)
        /\ LeftFrom(Folded(c.operations), FoldChange(Folded(c.operations), deleted(p)), p)
    BY <1>1, <1>2, WrittenAt
  <2> QED BY <2>2, <2>3
<1>3. CASE p \notin Watched
  <2>1. Coalescer(d) /\ d.tracked = c.tracked /\ Folded(d.operations) = Folded(c.operations)
    BY <1>3 DEF FoldsOf, FoldsNothing
  <2> QED BY <1>3, <2>1, NothingFolded
<1> QED BY <1>2, <1>3

\* The second kind of event: the file is there.
LEMMA EventCame ==
    ASSUME NEW c, Coalescer(c), NEW d, NEW p, NEW x, FoldsOf(c, d, p, x),
           x = added(p) \/ x = modified(p)
    PROVE  /\ Coalescer(d) /\ d.tracked = c.tracked
           /\ CameTo(Folded(c.operations), Folded(d.operations), p)
<1>1. Window(Folded(c.operations))
  <2>1. c.operations \in Seq(IncrementalFileChange) BY DEF Coalescer, CoalescersOf
  <2> QED BY <2>1, FoldedTyped
<1>2. CASE p \in Watched
  <2>1. FoldsInto(c, d, x) BY <1>2 DEF FoldsOf
  <2>2. Coalescer(d) /\ d.tracked = c.tracked
        /\ Folded(d.operations) = FoldChange(Folded(c.operations), x)
    BY <2>1 DEF FoldsInto
  <2>3. /\ CameTo(Folded(c.operations), FoldChange(Folded(c.operations), added(p)), p)
        /\ CameTo(Folded(c.operations), FoldChange(Folded(c.operations), modified(p)), p)
    BY <1>1, <1>2, WrittenAt
  <2> QED BY <2>2, <2>3
<1>3. CASE p \notin Watched
  <2>1. Coalescer(d) /\ d.tracked = c.tracked /\ Folded(d.operations) = Folded(c.operations)
    BY <1>3 DEF FoldsOf, FoldsNothing
  <2> QED BY <1>3, <2>1, NothingFolded
<1> QED BY <1>2, <1>3

\* A coalescer that has ingested what a backend sends for a rename.
RenameIngested(c, d, t, p, q) ==
    /\ Coalescer(d)
    /\ NoneOrOneMore(c.tracked, d.tracked, t, p, q)
    /\ Renames(Folded(c.operations), Folded(d.operations), d.tracked, p, q)

\* Two events, one of each path.
LEMMA IngestTwo ==
    ASSUME NEW c, Coalescer(c), NEW b, NEW d, NEW t, NEW p, NEW q, p # q,
           NEW x, FoldsOf(c, b, p, x), x = modified(p) \/ x = deleted(p),
           NEW y, FoldsOf(b, d, q, y), y = added(q) \/ y = modified(q)
    PROVE  RenameIngested(c, d, t, p, q)
<1>1. /\ Coalescer(b) /\ b.tracked = c.tracked
      /\ LeftFrom(Folded(c.operations), Folded(b.operations), p)
  BY EventLeft
<1>2. /\ Coalescer(d) /\ d.tracked = b.tracked
      /\ CameTo(Folded(b.operations), Folded(d.operations), q)
  BY <1>1, EventCame
<1>3. Renames(Folded(c.operations), Folded(d.operations), d.tracked, p, q)
  BY <1>1, <1>2, RenamesByHalves
<1> QED BY <1>1, <1>2, <1>3 DEF RenameIngested, NoneOrOneMore

\* Two tracked halves, and the pair behind them.
LEMMA IngestTracked ==
    ASSUME NEW c, Coalescer(c), NEW t, t # NoTracker, t \notin DOMAIN c.tracked,
           NEW p \in Paths, NEW q \in Paths, p # q, NEW b, NEW d,
           b = ingest(c, watchEvent("from", <<p>>, t)),
           d = ingest(b, watchEvent("to", <<q>>, t))
    PROVE  /\ RenameIngested(c, d, t, p, q)
           /\ RenameIngested(c, ingest(d, watchEvent("both", <<p, q>>, t)), t, p, q)
<1>1. /\ Coalescer(d) /\ d.operations = c.operations
      /\ p \notin Watched /\ q \notin Watched => d.tracked = c.tracked
      /\ p \in Watched \/ q \in Watched => OneMore(c.tracked, d.tracked, t, p, q)
  BY IngestHalves
<1>2. NoneOrOneMore(c.tracked, d.tracked, t, p, q) BY <1>1 DEF NoneOrOneMore
<1>3. /\ p \in Watched => TrackedFrom(d.tracked, p)
      /\ q \in Watched => TrackedTo(d.tracked, q)
  <2>1. CASE OneMore(c.tracked, d.tracked, t, p, q)
    <3>1. t \in DOMAIN d.tracked /\ d.tracked[t].from = OnTrack(p)
          /\ d.tracked[t].to = OnTrack(q)
      BY <2>1 DEF OneMore
    <3> QED BY <3>1 DEF OnTrack, TrackedFrom, TrackedTo
  <2> QED BY <1>1, <2>1
<1>4. RenameIngested(c, d, t, p, q)
  <2> DEFINE w == Folded(c.operations)
  <2>1. Folded(d.operations) = w BY <1>1
  <2> HIDE DEF w
  <2>2. Renames(w, w, d.tracked, p, q) BY <1>3 DEF Renames, Same
  <2> QED BY <1>1, <1>2, <2>1, <2>2 DEF RenameIngested, w
<1>5. RenameIngested(c, ingest(d, watchEvent("both", <<p, q>>, t)), t, p, q)
  <2> DEFINE a == ingest(d, watchEvent("both", <<p, q>>, t))
  <2>1. /\ Coalescer(a) /\ a.tracked = d.tracked
        /\ Renames(Folded(d.operations), Folded(a.operations), d.tracked, p, q)
    BY <1>1, <1>3, RenamesByPair
  <2> HIDE DEF a
  <2>2. RenameIngested(c, a, t, p, q) BY <1>1, <1>2, <2>1 DEF RenameIngested
  <2> QED BY <2>2 DEF a
<1> QED BY <1>4, <1>5

-----------------------------------------------------------------------------
(***************************************************************************)
(* What the coalescer says of the edits so far, and how each edit keeps it. *)
(***************************************************************************)
\* What holds of a coalescer after n edits: b and f are the files when the window
\* began and now, S and Z the paths renamed away and renamed to, R the paths that the
\* batch may lose.
Described(c, n, f, b, S, Z, R) ==
    /\ Coalescer(c)
    /\ Trackers(c.tracked, n, S, Z, R)
    /\ \A p \in Watched \ S : NotOrigin(Folded(c.operations), p)
    /\ ConfigPath \in S => ConfigPath \in R
    /\ CoveredAll(Folded(c.operations), c.tracked, f, b, S, R)

\* A path that an edit leaves alone stays covered.
LEMMA CoveredElsewhere ==
    ASSUME NEW w, NEW v, NEW T, NEW U, NEW f, NEW g, NEW b, NEW S, NEW Q, NEW r,
           Same(w, v, r), g[r] = f[r], r \in S <=> r \in Q,
           TrackedFrom(T, r) => TrackedFrom(U, r), TrackedTo(T, r) => TrackedTo(U, r),
           Covered(w, T, f, b, S, r)
    PROVE  Covered(v, U, g, b, Q, r)
<1>1. Anchored(w, r) => Anchored(v, r) BY DEF Same, Anchored
<1>2. Shown(w, r) => Shown(v, r) BY DEF Same, Shown
<1>3. CASE r \in S
  <2>1. Source(w, T, f, b, r) /\ r \in Q BY <1>3 DEF Covered
  <2>2. Source(v, U, g, b, r) BY <1>1, <1>2, <2>1 DEF Source
  <2> QED BY <2>1, <2>2 DEF Covered
<1>4. CASE r \notin S
  <2>1. Other(w, T, f, b, r) /\ r \notin Q BY <1>4 DEF Covered
  <2>2. Other(v, U, g, b, r) BY <1>1, <1>2, <2>1 DEF Other
  <2> QED BY <2>1, <2>2 DEF Covered
<1> QED BY <1>3, <1>4

\* The trackers of a window, later.
LEMMA TrackersLater ==
    ASSUME NEW T, NEW n \in Nat, NEW S, NEW Z, NEW R, NEW Q, Trackers(T, n, S, Z, R), R \subseteq Q
    PROVE  Trackers(T, n + 1, S, Z, Q)
<1>1. DOMAIN T \subseteq 1..n /\ Halves(T, S, Z) /\ Single(T, R) /\ Unhidden(T, R)
      /\ S \cap Z \subseteq R
  BY DEF Trackers
<1>2. DOMAIN T \subseteq 1..n + 1 BY <1>1
<1>3. Single(T, Q) BY <1>1 DEF Single
<1>4. Unhidden(T, Q) BY <1>1 DEF Unhidden
<1> QED BY <1>1, <1>2, <1>3, <1>4 DEF Trackers

\* An edit of one path, reported by one event.
LEMMA EditOfOne ==
    ASSUME NEW c, NEW d, NEW n \in Nat, NEW f, NEW g, NEW b, NEW S, NEW Z, NEW R, NEW Q,
           Described(c, n, f, b, S, Z, R), R \subseteq Q,
           NEW p \in Paths, \A r \in Paths \ {p} : g[r] = f[r],
           NEW x, FoldsOf(c, d, p, x), x \in {added(p), modified(p), deleted(p)},
           x = deleted(p) /\ p = ConfigPath => ConfigPath \in Q,
           p \in Watched /\ p \notin Q /\ NotOrigin(Folded(c.operations), p)
             /\ Other(Folded(c.operations), c.tracked, f, b, p) /\ p \notin S
             => Other(Folded(d.operations), c.tracked, g, b, p),
           p \in Watched /\ p \in S /\ f[p] = 0 => p \in Q
    PROVE  Described(d, n + 1, g, b, S, Z, Q)
<1> DEFINE w == Folded(c.operations)
           v == Folded(d.operations)
           T == c.tracked
<1>1. /\ Coalescer(c) /\ Trackers(T, n, S, Z, R) /\ (\A r \in Watched \ S : NotOrigin(w, r))
      /\ (ConfigPath \in S => ConfigPath \in R) /\ CoveredAll(w, T, f, b, S, R)
  BY DEF Described
<1>2. Window(w)
  <2>1. c.operations \in Seq(IncrementalFileChange) BY <1>1 DEF Coalescer, CoalescersOf
  <2> QED BY <2>1, FoldedTyped
<1>3. NoPath \notin Watched /\ ConfigPath \in Watched /\ Watched \subseteq Paths
  BY PathsAssumption DEF Watched, NoPath
<1>4. Coalescer(d) /\ d.tracked = T /\ (p \notin Watched => v = w)
      /\ (p \in Watched => v = FoldChange(w, x) /\ x \in IncrementalFileChange)
  <2>1. CASE p \in Watched
    <3>1. FoldsInto(c, d, x) BY <2>1 DEF FoldsOf
    <3> QED BY <2>1, <3>1 DEF FoldsInto
  <2>2. CASE p \notin Watched
    <3>1. FoldsNothing(c, d) BY <2>2 DEF FoldsOf
    <3> QED BY <2>2, <3>1 DEF FoldsNothing
  <2> QED BY <2>1, <2>2
<1>5. /\ x.old \in {p, NoPath} /\ x.new \in {p, NoPath} /\ x.kind # "renamed"
      /\ x.old = p => x = deleted(p)
  <2>1. p # NoPath BY PathsAssumption DEF NoPath
  <2>2. CASE x = added(p) BY <2>1, <2>2 DEF added
  <2>3. CASE x = modified(p) BY <2>1, <2>3 DEF modified
  <2>4. CASE x = deleted(p) BY <2>4 DEF deleted
  <2> QED BY <2>2, <2>3, <2>4
<1>6. Trackers(T, n + 1, S, Z, Q) BY <1>1, TrackersLater
<1> HIDE DEF w, v, T
<1>7. ASSUME NEW r \in Watched \ {p} PROVE Same(w, v, r)
  <2>1. CASE p \notin Watched BY <1>4, <2>1 DEF Same
  <2>2. CASE p \in Watched
    <3>1. x.old # r /\ x.new # r BY <1>3, <1>5
    <3>2. /\ FoldChange(w, x).active[r] = w.active[r]
          /\ r \in w.deleted => r \in FoldChange(w, x).deleted
      BY <1>2, <1>4, <2>2, <3>1, ChangeElsewhere
    <3> QED BY <1>4, <2>2, <3>2 DEF Same
  <2> QED BY <2>1, <2>2
<1>8. ASSUME NEW r \in Watched \ S PROVE NotOrigin(v, r)
  <2>1. NotOrigin(w, r) BY <1>1
  <2>2. CASE p \notin Watched BY <1>4, <2>1, <2>2
  <2>3. CASE p \in Watched
    <3>1. NotOrigin(FoldChange(w, x), r) BY <1>2, <1>4, <1>5, <2>1, <2>3, NotOriginKept
    <3> QED BY <1>4, <2>3, <3>1
  <2> QED BY <2>2, <2>3
<1>9. CoveredAll(v, T, g, b, S, Q)
  <2>1. CASE ConfigPath \in R BY <2>1 DEF CoveredAll
  <2>2. CASE ConfigPath \notin S /\ Shown(w, ConfigPath)
    <3>1. CASE ConfigPath \in Q BY <3>1 DEF CoveredAll
    <3>2. CASE ConfigPath \notin Q
      <4>1. CASE p \notin Watched BY <1>4, <2>2, <4>1 DEF CoveredAll
      <4>2. CASE p \in Watched
        <5>1. x.old # ConfigPath BY <1>3, <1>5, <3>2
        <5>2. NotOrigin(w, ConfigPath) BY <1>1, <1>3, <2>2
        <5>3. Shown(FoldChange(w, x), ConfigPath) /\ NotOrigin(FoldChange(w, x), ConfigPath)
          BY <1>2, <1>3, <1>4, <2>2, <4>2, <5>1, <5>2, ShownKept
        <5> QED BY <1>4, <2>2, <4>2, <5>3 DEF CoveredAll
      <4> QED BY <4>1, <4>2
    <3> QED BY <3>1, <3>2
  <2>3. CASE \A r \in Watched \ R : Covered(w, T, f, b, S, r)
    <3>1. ASSUME NEW r \in Watched \ Q PROVE Covered(v, T, g, b, S, r)
      <4>1. Covered(w, T, f, b, S, r) BY <2>3
      <4>2. CASE r # p
        <5>1. Same(w, v, r) /\ g[r] = f[r] BY <1>3, <1>7, <4>2
        <5> QED BY <4>1, <5>1, CoveredElsewhere
      <4>3. CASE r = p
        <5>1. CASE r \in S
          <6>1. f[r] = 0 BY <4>1, <5>1 DEF Covered, Source
          <6> QED BY <4>3, <5>1, <6>1
        <5>2. CASE r \notin S
          <6>1. NotOrigin(w, r) /\ Other(w, T, f, b, r) BY <1>1, <4>1, <5>2 DEF Covered
          <6>2. Other(v, T, g, b, r) BY <4>3, <5>2, <6>1 DEF w, v, T
          <6> QED BY <5>2, <6>2 DEF Covered
        <5> QED BY <5>1, <5>2
      <4> QED BY <4>2, <4>3
    <3> QED BY <3>1 DEF CoveredAll
  <2> QED BY <1>1, <2>1, <2>2, <2>3 DEF CoveredAll
<1>10. ConfigPath \in S => ConfigPath \in Q BY <1>1
<1> QED BY <1>4, <1>6, <1>8, <1>9, <1>10 DEF Described, v

\* A file is written at a path: it is there afterwards.
LEMMA WrittenDescribed ==
    ASSUME NEW c, NEW d, NEW n \in Nat, NEW f, NEW g, NEW b, NEW S, NEW Z, NEW R, NEW Q,
           Described(c, n, f, b, S, Z, R), R \subseteq Q,
           NEW p \in Paths, \A r \in Paths \ {p} : g[r] = f[r],
           NEW x, FoldsOf(c, d, p, x),
           \/ x = modified(p)
           \/ x = added(p) /\ f[p] = 0,
           p \in Watched /\ p \in S /\ f[p] = 0 => p \in Q
    PROVE  Described(d, n + 1, g, b, S, Z, Q)
<1> DEFINE w == Folded(c.operations)
           v == Folded(d.operations)
           T == c.tracked
<1>1. x \in {added(p), modified(p), deleted(p)} OBVIOUS
<1>2. x # deleted(p) BY DEF added, modified, deleted
<1>3. Coalescer(c) /\ Window(w)
  <2>1. Coalescer(c) BY DEF Described
  <2>2. c.operations \in Seq(IncrementalFileChange) BY <2>1 DEF Coalescer, CoalescersOf
  <2> QED BY <2>1, <2>2, FoldedTyped
<1>4. ASSUME p \in Watched, NotOrigin(w, p), Other(w, T, f, b, p)
      PROVE  Other(v, T, g, b, p)
  <2>1. FoldsInto(c, d, x) BY <1>4 DEF FoldsOf
  <2>2. v = FoldChange(w, x) BY <2>1 DEF FoldsInto
  <2>3. /\ CameTo(w, FoldChange(w, added(p)), p)
        /\ CameTo(w, FoldChange(w, modified(p)), p)
        /\ LeftFrom(w, FoldChange(w, modified(p)), p)
        /\ LeftFrom(w, FoldChange(w, deleted(p)), p)
    BY <1>3, <1>4, WrittenAt
  <2> HIDE DEF w, v, T
  <2>4. Shown(v, p) BY <1>4, <2>2, <2>3 DEF CameTo
  <2>5. CASE TrackedTo(T, p) BY <2>5 DEF Other
  <2>6. CASE (b[p] # 0 => Anchored(w, p)) /\ (f[p] # b[p] => Shown(w, p))
    <3>1. ASSUME b[p] # 0 PROVE Anchored(v, p)
      <4>1. Anchored(w, p) BY <2>6, <3>1
      <4>2. CASE x = modified(p) BY <1>4, <2>2, <2>3, <4>1, <4>2 DEF LeftFrom
      <4>3. CASE x = added(p) /\ f[p] = 0
        <5>1. Shown(w, p) BY <2>6, <3>1, <4>3
        <5> QED BY <1>4, <2>2, <2>3, <4>1, <4>3, <5>1 DEF CameTo
      <4> QED BY <4>2, <4>3
    <3> QED BY <2>4, <3>1 DEF Other
  <2> QED BY <1>4, <2>5, <2>6 DEF Other
<1>5. p \in Watched /\ p \notin Q /\ NotOrigin(w, p) /\ Other(w, T, f, b, p) /\ p \notin S
        => Other(v, T, g, b, p)
  BY <1>4
<1> QED BY <1>1, <1>2, <1>5, EditOfOne

\* A file is deleted.
LEMMA DeletedDescribed ==
    ASSUME NEW c, NEW d, NEW n \in Nat, NEW f, NEW g, NEW b, NEW S, NEW Z, NEW R, NEW Q,
           Described(c, n, f, b, S, Z, R), R \subseteq Q,
           NEW p \in Paths, \A r \in Paths \ {p} : g[r] = f[r],
           FoldsOf(c, d, p, deleted(p)), f[p] # 0, g[p] = 0,
           p = ConfigPath => ConfigPath \in Q
    PROVE  Described(d, n + 1, g, b, S, Z, Q)
<1> DEFINE w == Folded(c.operations)
           v == Folded(d.operations)
           T == c.tracked
           x == deleted(p)
<1>1. x \in {added(p), modified(p), deleted(p)} OBVIOUS
<1>2. Coalescer(c) /\ Window(w)
  <2>1. Coalescer(c) BY DEF Described
  <2>2. c.operations \in Seq(IncrementalFileChange) BY <2>1 DEF Coalescer, CoalescersOf
  <2> QED BY <2>1, <2>2, FoldedTyped
<1>3. ASSUME p \in Watched, NotOrigin(w, p), Other(w, T, f, b, p)
      PROVE  Other(v, T, g, b, p)
  <2>1. FoldsInto(c, d, x) BY <1>3 DEF FoldsOf
  <2>2. v = FoldChange(w, deleted(p)) BY <2>1 DEF FoldsInto
  <2>3. /\ CameTo(w, FoldChange(w, added(p)), p)
        /\ CameTo(w, FoldChange(w, modified(p)), p)
        /\ LeftFrom(w, FoldChange(w, modified(p)), p)
        /\ LeftFrom(w, FoldChange(w, deleted(p)), p)
    BY <1>2, <1>3, WrittenAt
  <2>4. DeletedAt(w, v, p)
    <3>1. FoldChange(w, deleted(p)) = FoldDeleted(w, p) BY DEF FoldChange, deleted
    <3> QED BY <1>2, <1>3, <2>2, <3>1, DeletedIs
  <2> HIDE DEF w, v, T
  <2>5. Anchored(v, p) BY <2>4 DEF DeletedAt, Anchored
  <2>6. CASE TrackedTo(T, p) BY <2>6 DEF Other
  <2>7. CASE b[p] # 0 => Anchored(w, p)
    <3>1. ASSUME g[p] # b[p] PROVE Shown(v, p)
      <4>1. Anchored(w, p) BY <2>7, <3>1
      <4> QED BY <1>3, <2>2, <2>3, <4>1 DEF LeftFrom
    <3> QED BY <2>5, <3>1 DEF Other
  <2> QED BY <1>3, <2>6, <2>7 DEF Other
<1>4. p \in Watched /\ p \notin Q /\ NotOrigin(w, p) /\ Other(w, T, f, b, p) /\ p \notin S
        => Other(v, T, g, b, p)
  BY <1>3
<1>5. FoldsOf(c, d, p, x) OBVIOUS
<1> HIDE DEF x
<1>6. x = deleted(p) /\ p = ConfigPath => ConfigPath \in Q OBVIOUS
<1>7. p \in Watched /\ p \in S /\ f[p] = 0 => p \in Q OBVIOUS
<1> QED BY <1>1, <1>4, <1>5, <1>6, <1>7, EditOfOne

\* An event is lost, and the watcher asks for a rescan.
LEMMA OverflowDescribed ==
    ASSUME NEW c, NEW d, NEW n \in Nat, NEW f, NEW g, NEW b, NEW S, NEW Z, NEW R,
           Described(c, n, f, b, S, Z, R), FoldsInto(c, d, modified(ConfigPath))
    PROVE  Described(d, n + 1, g, b, S, Z, R)
<1> DEFINE w == Folded(c.operations)
           v == Folded(d.operations)
           T == c.tracked
           x == modified(ConfigPath)
<1>1. /\ Coalescer(c) /\ Trackers(T, n, S, Z, R) /\ (\A r \in Watched \ S : NotOrigin(w, r))
      /\ (ConfigPath \in S => ConfigPath \in R)
  BY DEF Described
<1>2. Window(w)
  <2>1. c.operations \in Seq(IncrementalFileChange) BY <1>1 DEF Coalescer, CoalescersOf
  <2> QED BY <2>1, FoldedTyped
<1>3. ConfigPath \in Watched /\ NoPath \notin Watched
  BY PathsAssumption DEF Watched, NoPath
<1>4. /\ Coalescer(d) /\ d.tracked = T /\ v = FoldChange(w, x)
      /\ x \in IncrementalFileChange
  BY DEF FoldsInto
<1>5. x.old = NoPath /\ x.new = ConfigPath /\ x.kind # "renamed" BY DEF modified
<1>6. Trackers(T, n + 1, S, Z, R) BY <1>1, TrackersLater
<1> HIDE DEF w, v, T, x
<1>7. ASSUME NEW r \in Watched \ S PROVE NotOrigin(v, r)
  <2>1. NotOrigin(w, r) BY <1>1
  <2> QED BY <1>2, <1>4, <1>5, <2>1, NotOriginKept
<1>8. CoveredAll(v, T, g, b, S, R)
  <2>1. CASE ConfigPath \in R BY <2>1 DEF CoveredAll
  <2>2. CASE ConfigPath \notin R
    <3>1. ConfigPath \notin S BY <1>1, <2>2
    <3>2. NotOrigin(w, ConfigPath) BY <1>1, <1>3, <3>1
    <3>3. Shown(FoldChange(w, x), ConfigPath) BY <1>2, <1>3, <1>4, <1>5, <3>2, NewIsShown
    <3> QED BY <1>4, <3>1, <3>3 DEF CoveredAll
  <2> QED BY <2>1, <2>2
<1> QED BY <1>1, <1>4, <1>6, <1>7, <1>8 DEF Described, v

\* What a rename puts into Q, the paths that the batch may lose.
LosesAtMost(p, q, f, S, Z, R, Q) ==
    /\ R \subseteq Q
    /\ {p, q} \cap (S \cup Z) \subseteq Q
    /\ p = ConfigPath => ConfigPath \in Q
    /\ f[q] # 0 => q \in Q
    /\ p \in Ignored /\ q \in Z => S \subseteq Q

\* The trackers after a rename.
LEMMA TrackersOn ==
    ASSUME NEW T, NEW U, NEW n \in Nat, NEW f, NEW S, NEW Z, NEW R, NEW Q,
           Trackers(T, n, S, Z, R), NEW p \in Paths, NEW q \in Paths, p # q,
           LosesAtMost(p, q, f, S, Z, R, Q), NoneOrOneMore(T, U, n + 1, p, q)
    PROVE  Trackers(U, n + 1, S \cup {p}, Z \cup {q}, Q)
<1> DEFINE A == S \cup {p}
           B == Z \cup {q}
           t == n + 1
<1>1. /\ DOMAIN T \subseteq 1..n /\ Halves(T, S, Z) /\ Single(T, R) /\ Unhidden(T, R)
      /\ S \cap Z \subseteq R
  BY DEF Trackers
<1>2. NoPath \notin Watched BY PathsAssumption DEF Watched, NoPath
<1>3. A \cap B \subseteq Q BY <1>1 DEF LosesAtMost
<1>4. ASSUME NEW u \in DOMAIN T PROVE HalfOf(T[u], S, Z) /\ HalfOf(T[u], A, B) /\ u \in 1..n
  <2>1. HalfOf(T[u], S, Z) /\ u \in 1..n BY <1>1 DEF Halves
  <2> QED BY <2>1 DEF HalfOf
<1>5. CASE U = T
  <2>1. DOMAIN U \subseteq 1..n + 1 BY <1>1, <1>5
  <2>2. Halves(U, A, B) BY <1>4, <1>5 DEF Halves
  <2>3. Single(U, Q) BY <1>1, <1>5 DEF Single, LosesAtMost
  <2>4. Unhidden(U, Q) BY <1>1, <1>5 DEF Unhidden, LosesAtMost
  <2> QED BY <1>3, <2>1, <2>2, <2>3, <2>4 DEF Trackers
<1>6. CASE (p \in Watched \/ q \in Watched) /\ OneMore(T, U, t, p, q)
  <2>1. /\ DOMAIN U = DOMAIN T \cup {t} /\ U[t].from = OnTrack(p) /\ U[t].to = OnTrack(q)
        /\ \A u \in DOMAIN T : U[u] = T[u]
    BY <1>6 DEF OneMore
  <2>2. DOMAIN U \subseteq 1..n + 1 BY <1>1, <2>1
  <2>3. HalfOf(U[t], A, B)
    <3>1. OnTrack(p) # OnTrack(q) BY <1>2, <1>6 DEF OnTrack
    <3>2. OnTrack(p) \in (A \cap Watched) \cup {NoPath}
          /\ OnTrack(q) \in (B \cap Watched) \cup {NoPath}
      BY DEF OnTrack
    <3> QED BY <2>1, <3>1, <3>2 DEF HalfOf
  <2>4. Halves(U, A, B)
    <3> SUFFICES ASSUME NEW u \in DOMAIN U PROVE HalfOf(U[u], A, B) BY DEF Halves
    <3>1. CASE u = t BY <2>3, <3>1
    <3>2. CASE u \in DOMAIN T BY <1>4, <2>1, <3>2
    <3> QED BY <2>1, <3>1, <3>2
  <2>5. ASSUME NEW u \in DOMAIN T, NEW r \in Watched, Names(T[u], r), Names(U[t], r)
        PROVE  r \in Q
    <3>1. HalfOf(T[u], S, Z) BY <1>4
    <3>2. r \in S \cup Z BY <1>2, <2>5, <3>1 DEF Names, HalfOf
    <3>3. r \in {p, q} BY <1>2, <2>1, <2>5 DEF Names, OnTrack
    <3> QED BY <3>2, <3>3 DEF LosesAtMost
  <2>6. Single(U, Q)
    <3> SUFFICES ASSUME NEW u \in DOMAIN U, NEW v \in DOMAIN U, NEW r \in Watched \ Q,
                        Names(U[u], r), Names(U[v], r)
                 PROVE  u = v
      BY DEF Single
    <3>1. CASE u = t /\ v = t BY <3>1
    <3>2. CASE u \in DOMAIN T /\ v = t BY <2>1, <2>5, <3>2
    <3>3. CASE v \in DOMAIN T /\ u = t BY <2>1, <2>5, <3>3
    <3>4. CASE u \in DOMAIN T /\ v \in DOMAIN T
      <4>1. r \in Watched \ R BY DEF LosesAtMost
      <4> QED BY <1>1, <2>1, <3>4, <4>1 DEF Single
    <3> QED BY <2>1, <3>1, <3>2, <3>3, <3>4
  <2>7. Unhidden(U, Q)
    <3> SUFFICES ASSUME NEW a \in DOMAIN U, NEW u \in DOMAIN U, NEW v \in DOMAIN U,
                        U[a].from = NoPath, u < a, U[u].to = U[a].to, v < a,
                        U[v].from \in Watched
                 PROVE  U[v].from \in Q
      BY DEF Unhidden
    <3>1. u \in 1..n + 1 /\ v \in 1..n + 1 /\ a \in 1..n + 1 BY <2>2
    <3>2. u # t /\ v # t BY <3>1
    <3>3. u \in DOMAIN T /\ v \in DOMAIN T /\ U[u] = T[u] /\ U[v] = T[v] BY <2>1, <3>2
    <3>4. CASE a = t
      <4>1. p \notin Watched /\ q \in Watched /\ U[a].to = q
        BY <1>2, <1>6, <2>1, <3>4 DEF OnTrack
      <4>2. p \in Ignored BY <4>1 DEF Watched
      <4>3. HalfOf(T[u], S, Z) /\ HalfOf(T[v], S, Z) BY <1>4, <3>3
      <4>4. q \in Z BY <1>2, <3>3, <4>1, <4>3 DEF HalfOf
      <4>5. U[v].from \in S BY <1>2, <3>3, <4>3 DEF HalfOf
      <4> QED BY <4>2, <4>4, <4>5 DEF LosesAtMost
    <3>5. CASE a \in DOMAIN T
      <4>1. U[a] = T[a] BY <2>1, <3>5
      <4>2. T[v].from \in R BY <1>1, <3>3, <3>5, <4>1 DEF Unhidden
      <4> QED BY <3>3, <4>2 DEF LosesAtMost
    <3> QED BY <2>1, <3>4, <3>5
  <2> QED BY <1>3, <2>2, <2>4, <2>6, <2>7 DEF Trackers
<1> QED BY <1>5, <1>6 DEF NoneOrOneMore

\* A tracked path stays tracked.
LEMMA TrackedOn ==
    ASSUME NEW T, NEW U, NEW n \in Nat, DOMAIN T \subseteq 1..n, NEW p, NEW q,
           NoneOrOneMore(T, U, n + 1, p, q), NEW r
    PROVE  /\ TrackedFrom(T, r) => TrackedFrom(U, r)
           /\ TrackedTo(T, r) => TrackedTo(U, r)
<1>1. CASE U = T BY <1>1
<1>2. CASE OneMore(T, U, n + 1, p, q) BY <1>2 DEF OneMore, TrackedFrom, TrackedTo
<1> QED BY <1>1, <1>2 DEF NoneOrOneMore

\* A rename, however it is reported.
LEMMA RenameDescribed ==
    ASSUME NEW c, NEW d, NEW n \in Nat, NEW f, NEW g, NEW b, NEW S, NEW Z, NEW R, NEW Q,
           Described(c, n, f, b, S, Z, R), NEW p \in Paths, NEW q \in Paths, p # q,
           \A r \in Paths \ {p, q} : g[r] = f[r], f[p] # 0, g[p] = 0,
           LosesAtMost(p, q, f, S, Z, R, Q), RenameIngested(c, d, n + 1, p, q)
    PROVE  Described(d, n + 1, g, b, S \cup {p}, Z \cup {q}, Q)
<1> DEFINE w == Folded(c.operations)
           v == Folded(d.operations)
           T == c.tracked
           U == d.tracked
           A == S \cup {p}
           B == Z \cup {q}
<1>1. /\ Coalescer(c) /\ Trackers(T, n, S, Z, R) /\ (\A r \in Watched \ S : NotOrigin(w, r))
      /\ (ConfigPath \in S => ConfigPath \in R) /\ CoveredAll(w, T, f, b, S, R)
  BY DEF Described
<1>2. ConfigPath \in Watched /\ NoPath \notin Watched /\ Watched \subseteq Paths
  BY PathsAssumption DEF Watched, NoPath
<1>3. Coalescer(d) /\ NoneOrOneMore(T, U, n + 1, p, q) /\ Renames(w, v, U, p, q)
  BY DEF RenameIngested
<1> HIDE DEF w, v, T, U
<1>4. /\ DOMAIN T \subseteq 1..n /\ Halves(T, S, Z) BY <1>1 DEF Trackers
<1>5. Trackers(U, n + 1, A, B, Q) BY <1>1, <1>3, TrackersOn
<1>6. ASSUME NEW r \in Watched \ A PROVE NotOrigin(v, r)
  <2>1. NotOrigin(w, r) /\ r # p BY <1>1
  <2> QED BY <1>3, <2>1 DEF Renames
<1>7. ConfigPath \in A => ConfigPath \in Q BY <1>1 DEF LosesAtMost
<1>8. ASSUME NEW r \in Watched, TrackedTo(T, r) PROVE r \in Z
  <2>1. PICK t \in DOMAIN T : T[t].to = r BY <1>8 DEF TrackedTo
  <2>2. HalfOf(T[t], S, Z) BY <1>4 DEF Halves
  <2> QED BY <1>2, <2>1, <2>2 DEF HalfOf
<1>9. ASSUME NEW r \in Watched \ Q, Covered(w, T, f, b, S, r) PROVE Covered(v, U, g, b, A, r)
  <2>1. CASE r \notin {p, q}
    <3>1. Same(w, v, r) /\ g[r] = f[r] /\ (r \in S <=> r \in A)
      BY <1>2, <1>3, <2>1 DEF Renames
    <3>2. /\ TrackedFrom(T, r) => TrackedFrom(U, r)
          /\ TrackedTo(T, r) => TrackedTo(U, r)
      BY <1>3, <1>4, TrackedOn
    <3> HIDE DEF A
    <3> QED BY <1>9, <3>1, <3>2, CoveredElsewhere
  <2>2. CASE r = p
    <3>1. r \notin S /\ r \notin Z /\ r \in A BY <2>2 DEF LosesAtMost
    <3>2. NotOrigin(w, r) /\ Other(w, T, f, b, r) BY <1>1, <1>9, <3>1 DEF Covered
    <3>3. ~TrackedTo(T, r) BY <1>8, <3>1
    <3>4. b[r] # 0 => Anchored(w, r) BY <3>2, <3>3 DEF Other
    <3>5. b[r] # 0 => Anchored(v, r) /\ (TrackedFrom(U, r) \/ Shown(v, r))
      BY <1>3, <2>2, <3>2, <3>4 DEF Renames
    <3>6. Source(v, U, g, b, r) BY <2>2, <3>5 DEF Source
    <3> QED BY <3>1, <3>6 DEF Covered
  <2>3. CASE r = q
    <3>1. r \notin S /\ r \notin Z /\ r \notin A /\ f[r] = 0 BY <2>3 DEF LosesAtMost
    <3>2. NotOrigin(w, r) /\ Other(w, T, f, b, r) BY <1>1, <1>9, <3>1 DEF Covered
    <3>3. ~TrackedTo(T, r) BY <1>8, <3>1
    <3>4. b[r] # 0 => Anchored(w, r) /\ Shown(w, r) BY <3>1, <3>2, <3>3 DEF Other
    <3>5. \/ TrackedTo(U, r)
          \/ Shown(v, r) /\ (Anchored(w, r) /\ Shown(w, r) => Anchored(v, r))
      BY <1>3, <2>3, <3>2 DEF Renames
    <3>6. Other(v, U, g, b, r) BY <3>4, <3>5 DEF Other
    <3> QED BY <3>1, <3>6 DEF Covered
  <2> QED BY <2>1, <2>2, <2>3
<1>10. CoveredAll(v, U, g, b, A, Q)
  <2>1. CASE ConfigPath \in Q BY <2>1 DEF CoveredAll
  <2>2. CASE ConfigPath \notin Q /\ ConfigPath \notin S /\ Shown(w, ConfigPath)
    <3>1. ConfigPath # p /\ NotOrigin(w, ConfigPath) BY <1>1, <1>2, <2>2 DEF LosesAtMost
    <3>2. Shown(v, ConfigPath) BY <1>2, <1>3, <2>2, <3>1 DEF Renames
    <3> QED BY <2>2, <3>1, <3>2 DEF CoveredAll
  <2>3. CASE \A r \in Watched \ R : Covered(w, T, f, b, S, r)
    <3>1. \A r \in Watched \ Q : Covered(w, T, f, b, S, r) BY <2>3 DEF LosesAtMost
    <3> HIDE DEF A
    <3> QED BY <1>9, <3>1 DEF CoveredAll
  <2>4. ConfigPath \in R => ConfigPath \in Q BY DEF LosesAtMost
  <2> QED BY <1>1, <2>1, <2>2, <2>3, <2>4 DEF CoveredAll
<1> QED BY <1>3, <1>5, <1>6, <1>7, <1>10 DEF Described, v, U

-----------------------------------------------------------------------------
(***************************************************************************)
(* The channel, and the theorem.                                           *)
(***************************************************************************)
\* The coalescer once everything in the channel is ingested.
Leads(first, channel, last) ==
    \E h : /\ h[1] = first /\ h[Len(channel) + 1] = last
           /\ \A i \in 1..Len(channel) : h[i + 1] = ingest(h[i], channel[i])

WatchEvents == [kind : {"create", "modify", "remove", "rescan", "any", "from", "to", "both"},
                paths : Seq(Paths), tracker : Nat]

\* The inductive invariant of a burst: the coalescer that the daemon will have when
\* it has ingested what is in the channel describes the edits made so far.
BurstInv ==
    /\ files \in [Paths -> Nat] /\ edits \in Nat /\ events \in Seq(WatchEvents)
    /\ \E c : /\ Leads(window, events, c)
              /\ Described(c, edits, files, before, sources, targets, reused)

\* One more event in the channel.
LEMMA LeadsOn ==
    ASSUME NEW first, NEW s \in Seq(WatchEvents), NEW c, Leads(first, s, c), NEW e \in WatchEvents
    PROVE  Append(s, e) \in Seq(WatchEvents) /\ Leads(first, Append(s, e), ingest(c, e))
<1> DEFINE n == Len(s)
           u == Append(s, e)
<1>1. PICK h : /\ h[1] = first /\ h[n + 1] = c
               /\ \A i \in 1..n : h[i + 1] = ingest(h[i], s[i])
  BY DEF Leads
<1>2. /\ n \in Nat /\ u \in Seq(WatchEvents) /\ Len(u) = n + 1 /\ u[n + 1] = e
      /\ \A i \in 1..n : u[i] = s[i]
  OBVIOUS
<1> DEFINE k == [i \in 1..n + 2 |-> IF i = n + 2 THEN ingest(c, e) ELSE h[i]]
<1> HIDE DEF n, u
<1>3. k[1] = first /\ k[n + 2] = ingest(c, e) /\ \A i \in 1..n + 1 : k[i] = h[i]
  BY <1>1, <1>2
<1> HIDE DEF k
<1>4. ASSUME NEW i \in 1..n + 1 PROVE k[i + 1] = ingest(k[i], u[i])
  <2>1. CASE i = n + 1
    <3>1. i + 1 = n + 2 /\ k[i] = c /\ u[i] = e BY <1>1, <1>2, <1>3, <2>1
    <3> QED BY <1>3, <3>1
  <2>2. CASE i # n + 1
    <3>1. i \in 1..n /\ i + 1 \in 1..n + 1 BY <1>2, <2>2
    <3>2. k[i + 1] = h[i + 1] /\ k[i] = h[i] /\ u[i] = s[i] BY <1>2, <1>3, <3>1
    <3>3. h[i + 1] = ingest(h[i], s[i]) BY <1>1, <3>1
    <3> QED BY <3>2, <3>3
  <2> QED BY <2>1, <2>2
<1>5. Len(u) + 1 = n + 2 BY <1>2
<1>6. /\ k[1] = first /\ k[Len(u) + 1] = ingest(c, e)
      /\ \A i \in 1..Len(u) : k[i + 1] = ingest(k[i], u[i])
  BY <1>2, <1>3, <1>4, <1>5
<1>7. Leads(first, u, ingest(c, e)) BY <1>6 DEF Leads
<1> QED BY <1>2, <1>7 DEF u

\* The daemon ingests the first event.
LEMMA LeadsTail ==
    ASSUME NEW first, NEW s \in Seq(WatchEvents), NEW c, Leads(first, s, c), s # <<>>
    PROVE  Tail(s) \in Seq(WatchEvents) /\ Leads(ingest(first, Head(s)), Tail(s), c)
<1> DEFINE n == Len(s)
           u == Tail(s)
<1>1. PICK h : /\ h[1] = first /\ h[n + 1] = c
               /\ \A i \in 1..n : h[i + 1] = ingest(h[i], s[i])
  BY DEF Leads
<1>2. /\ n \in Nat /\ n # 0 /\ u \in Seq(WatchEvents) /\ Len(u) = n - 1 /\ Head(s) = s[1]
      /\ \A i \in 1..n - 1 : u[i] = s[i + 1]
  OBVIOUS
<1> DEFINE k == [i \in 1..n |-> h[i + 1]]
<1> HIDE DEF n, u
<1>3. \A i \in 1..n : k[i] = h[i + 1] OBVIOUS
<1> HIDE DEF k
<1>4. 1 \in 1..n /\ n \in 1..n /\ Len(u) + 1 = n BY <1>2
<1>5. k[1] = ingest(first, Head(s)) /\ k[n] = c
  <2>1. k[1] = h[1 + 1] /\ k[n] = h[n + 1] BY <1>3, <1>4
  <2>2. h[1 + 1] = ingest(h[1], s[1]) BY <1>1, <1>4
  <2> QED BY <1>1, <1>2, <2>1, <2>2
<1>6. ASSUME NEW i \in 1..n - 1 PROVE k[i + 1] = ingest(k[i], u[i])
  <2>1. i \in 1..n /\ i + 1 \in 1..n BY <1>2
  <2>2. k[i + 1] = h[(i + 1) + 1] /\ k[i] = h[i + 1] BY <1>3, <2>1
  <2>3. h[(i + 1) + 1] = ingest(h[i + 1], s[i + 1]) BY <1>1, <2>1
  <2>4. u[i] = s[i + 1] BY <1>2
  <2> QED BY <2>2, <2>3, <2>4
<1>7. Leads(ingest(first, Head(s)), u, c)
  <2>1. /\ k[1] = ingest(first, Head(s)) /\ k[Len(u) + 1] = c
        /\ \A i \in 1..Len(u) : k[i + 1] = ingest(k[i], u[i])
    BY <1>2, <1>4, <1>5, <1>6
  <2> QED BY <2>1 DEF Leads
<1> QED BY <1>2, <1>7 DEF u

\* The events of the edits.
LEMMA EventsAre ==
    ASSUME NEW p \in Paths, NEW q \in Paths, NEW t \in Nat
    PROVE  /\ watchEvent("create", <<p>>, NoTracker) \in WatchEvents
           /\ watchEvent("modify", <<p>>, NoTracker) \in WatchEvents
           /\ watchEvent("remove", <<p>>, NoTracker) \in WatchEvents
           /\ watchEvent("rescan", <<>>, NoTracker) \in WatchEvents
           /\ watchEvent("any", <<p>>, NoTracker) \in WatchEvents
           /\ watchEvent("from", <<p>>, t) \in WatchEvents
           /\ watchEvent("to", <<q>>, t) \in WatchEvents
           /\ watchEvent("both", <<p, q>>, t) \in WatchEvents
<1>1. /\ <<p>> \in Seq(Paths) /\ <<q>> \in Seq(Paths) /\ <<p, q>> \in Seq(Paths)
      /\ <<>> \in Seq(Paths) /\ NoTracker \in Nat
  BY DEF NoTracker
<1> DEFINE one == <<p>>
           other == <<q>>
           pair == <<p, q>>
           none == <<>>
<1>2. one \in Seq(Paths) /\ other \in Seq(Paths) /\ pair \in Seq(Paths) /\ none \in Seq(Paths)
  BY <1>1
<1> HIDE DEF one, other, pair, none
<1>3. /\ watchEvent("create", one, NoTracker) \in WatchEvents
      /\ watchEvent("modify", one, NoTracker) \in WatchEvents
      /\ watchEvent("remove", one, NoTracker) \in WatchEvents
      /\ watchEvent("rescan", none, NoTracker) \in WatchEvents
      /\ watchEvent("any", one, NoTracker) \in WatchEvents
      /\ watchEvent("from", one, t) \in WatchEvents
      /\ watchEvent("to", other, t) \in WatchEvents
      /\ watchEvent("both", pair, t) \in WatchEvents
  BY <1>1, <1>2 DEF watchEvent, WatchEvents
<1> QED BY <1>3 DEF one, other, pair, none

\* The window opens empty, and nothing has changed.
LEMMA BurstStarts ==
    ASSUME BurstInit PROVE BurstInv
<1>1. /\ files \in [Paths -> Nat] /\ before = files /\ edits = 0 /\ events = <<>>
      /\ window = Emptied /\ sources = {} /\ targets = {} /\ reused = {}
  <2>1. Paths \subseteq Nat /\ MaxEdits \in Nat BY PathsAssumption, RepositoryAssumption
  <2>2. Contents \subseteq Nat BY <2>1 DEF Contents, Original
  <2> QED BY <2>2 DEF BurstInit
<1>2. Leads(window, <<>>, window)
  <2> DEFINE h == [i \in 1..1 |-> window]
             none == <<>>
  <2>1. Len(none) = 0 /\ h[1] = window OBVIOUS
  <2> HIDE DEF h, none
  <2>2. Len(none) + 1 = 1 /\ 1..Len(none) = {} BY <2>1
  <2>3. Leads(window, none, window) BY <2>1, <2>2 DEF Leads
  <2> QED BY <2>3 DEF none
<1>3. Coalescer(window) /\ window.operations = <<>> /\ window.tracked = <<>>
  <2>1. window.operations = <<>> /\ window.tracked = <<>> BY <1>1 DEF Emptied
  <2>2. Emptied \in CoalescersOf(IncrementalFileChange, {<<>>})
    BY DEF Emptied, CoalescersOf
  <2> QED BY <1>1, <2>1, <2>2 DEF Coalescer
<1> DEFINE T == window.tracked
           w == Folded(window.operations)
<1>4. \A p \in Paths : ~w.active[p].here
  <2>1. w = NothingYet BY <1>3, FoldedEmpty
  <2>2. NothingYet.active = [p \in Paths |-> Absent] BY DEF NothingYet
  <2>3. \A p \in Paths : NothingYet.active[p] = Absent BY <2>2
  <2> HIDE DEF w
  <2> QED BY <2>1, <2>3 DEF Absent
<1>5. DOMAIN T = {} BY <1>3
<1> HIDE DEF T, w
<1>6. Trackers(T, 0, {}, {}, {}) BY <1>5 DEF Trackers, Halves, Single, Unhidden
<1>7. \A p \in Watched : NotOrigin(w, p) /\ Anchored(w, p)
  <2>1. Watched \subseteq Paths BY DEF Watched
  <2> QED BY <1>4, <2>1 DEF NotOrigin, Anchored
<1>8. CoveredAll(w, T, files, before, {}, {})
  <2>1. \A p \in Watched : Covered(w, T, files, before, {}, p)
    BY <1>1, <1>7 DEF Covered, Other
  <2> QED BY <2>1 DEF CoveredAll
<1>9. Described(window, edits, files, before, sources, targets, reused)
  BY <1>1, <1>3, <1>6, <1>7, <1>8 DEF Described, T, w
<1> QED BY <1>1, <1>2, <1>9 DEF BurstInv

\* What is described, the drained batch names.
LEMMA DrainNames ==
    ASSUME NEW c, NEW l \in Nat, NEW f, NEW b, NEW S, NEW Z, NEW R,
           Described(c, l, f, b, S, Z, R), NEW r \in Watched \ R, f[r] # b[r]
    PROVE  r \in Named(Drained(c)) \/ ConfigPath \in Named(Drained(c)) \cup R
<1> DEFINE T == c.tracked
<1>0. /\ c.operations \in Seq(IncrementalFileChange)
      /\ Trackers(T, l, S, Z, R)
      /\ \A p \in Watched \ S : NotOrigin(Folded(c.operations), p)
      /\ CoveredAll(Folded(c.operations), T, f, b, S, R)
  BY DEF Described, Coalescer, CoalescersOf
<1>1. DOMAIN T \subseteq 1..l /\ Halves(T, S, Z) /\ Single(T, R) /\ Unhidden(T, R)
      /\ DOMAIN T \subseteq Nat
  BY <1>0 DEF Trackers
<1>2. DOMAIN T \in SUBSET Nat /\ IsFiniteSet(DOMAIN T)
  <2>1. IsFiniteSet(1..l) BY FS_Interval
  <2> QED BY <1>1, <2>1, FS_Subset
<1>3. ASSUME NEW t \in DOMAIN T PROVE TrackedChange(T[t]) \in IncrementalFileChange
  <2>1. HalfOf(T[t], S, Z) BY <1>1 DEF Halves
  <2>2. T[t].from \in Watched \cup {NoPath} /\ T[t].to \in Watched \cup {NoPath}
        /\ T[t].from # T[t].to
    BY <2>1 DEF HalfOf
  <2> QED BY <2>2, TrackedChangeIs
<1>4. PICK n, s, g : Replay(c, n, s, g) BY <1>0, <1>2, <1>3, ReplayExists
<1>5. /\ n \in Nat /\ 0 \in 0..n /\ g[0] = Folded(c.operations) /\ Window(g[n])
      /\ Drained(c) = Batch(g[n])
  <2>1. n \in Nat /\ \A k \in 0..n : Window(g[k]) BY <1>4 DEF Replay
  <2>2. n \in 0..n BY <2>1
  <2> QED BY <1>4, <2>1, <2>2 DEF Replay
<1>6. ConfigPath \in Watched BY PathsAssumption DEF Watched
<1>7. CASE ConfigPath \notin S /\ Shown(g[0], ConfigPath)
  <2>1. NotOrigin(g[0], ConfigPath) BY <1>0, <1>5, <1>6, <1>7
  <2>2. Shown(g[n], ConfigPath) BY <1>1, <1>4, <1>5, <1>6, <1>7, <2>1, ReplayShows
  <2> QED BY <1>5, <1>6, <2>2, BatchNames
<1>8. CASE r \in S /\ Source(g[0], T, f, b, r)
  <2>1. Anchored(g[0], r) /\ (TrackedFrom(T, r) \/ Shown(g[0], r))
    BY <1>8 DEF Source
  <2>2. CASE TrackedFrom(T, r)
    <3>1. r \in g[n].deleted \/ \E q : HeldAt(g[n], r, q)
      BY <1>1, <1>4, <2>1, <2>2, ReplayHolds
    <3> QED BY <1>5, <3>1, BatchNames
  <2>3. CASE TrackedTo(T, r)
    <3>1. PICK t \in DOMAIN T : T[t].to = r BY <2>3 DEF TrackedTo
    <3>2. HalfOf(T[t], S, Z) BY <1>1 DEF Halves
    <3>3. r \in Z
      <4>1. r # NoPath BY PathsAssumption DEF Watched, NoPath
      <4> QED BY <3>1, <3>2, <4>1 DEF HalfOf
    <3> QED BY <1>0, <1>8, <3>3 DEF Trackers
  <2>4. CASE Shown(g[0], r) /\ ~TrackedFrom(T, r) /\ ~TrackedTo(T, r)
    <3>1. Spared(c, s, n, r)
      <4>1. \A k \in 1..n : s[k] \in DOMAIN T BY <1>4 DEF Replay
      <4> QED BY <1>5, <2>4, <4>1 DEF Names, TrackedFrom, TrackedTo, Spared
    <3>2. n \in 0..n BY <1>5
    <3>3. /\ g[n].active[r] = g[0].active[r]
          /\ r \in g[0].deleted => r \in g[n].deleted
      BY <1>1, <1>4, <1>5, <3>1, <3>2, ReplayPasses
    <3>4. Shown(g[n], r) BY <2>4, <3>3 DEF Shown
    <3> QED BY <1>5, <3>4, BatchNames
  <2> QED BY <2>1, <2>2, <2>3, <2>4
<1>9. CASE r \notin S /\ Other(g[0], T, f, b, r)
  <2>1. NotOrigin(g[0], r) BY <1>0, <1>5, <1>9
  <2>2. CASE TrackedTo(T, r)
    <3>1. PICK t \in DOMAIN T : T[t].to = r BY <2>2 DEF TrackedTo
    <3>2. Shown(g[n], r) BY <1>1, <1>4, <1>9, <2>1, <3>1, ReplayShows
    <3> QED BY <1>5, <3>2, BatchNames
  <2>3. CASE Shown(g[0], r)
    <3>1. Shown(g[n], r) BY <1>1, <1>4, <1>5, <1>9, <2>1, <2>3, ReplayShows
    <3> QED BY <1>5, <3>1, BatchNames
  <2> QED BY <1>9, <2>2, <2>3 DEF Other
<1> QED BY <1>0, <1>5, <1>7, <1>8, <1>9 DEF CoveredAll, Covered

\* One edit that one event reports.
LEMMA EditKeepsBurst ==
    ASSUME NEW e, NEW g \in [Paths -> Nat], NEW Q, BurstInv, e \in WatchEvents,
           \A c : Described(c, edits, files, before, sources, targets, reused)
                    => Described(ingest(c, e), edits + 1, g, before, sources, targets, Q),
           events' = events \o <<e>>, edits' = edits + 1, files' = g, reused' = Q,
           UNCHANGED <<sources, targets, before, window>>
    PROVE  BurstInv'
<1>1. PICK c : /\ Leads(window, events, c)
               /\ Described(c, edits, files, before, sources, targets, reused)
  BY DEF BurstInv
<1>2. events \in Seq(WatchEvents) /\ edits \in Nat BY DEF BurstInv
<1>3. events' = Append(events, e) BY <1>2
<1>4. events' \in Seq(WatchEvents) /\ Leads(window, events', ingest(c, e))
  <2>1. /\ Append(events, e) \in Seq(WatchEvents)
        /\ Leads(window, Append(events, e), ingest(c, e))
    BY <1>1, <1>2, LeadsOn
  <2> QED BY <1>3, <2>1
<1>5. Described(ingest(c, e), edits + 1, g, before, sources, targets, Q) BY <1>1
<1>6. edits + 1 \in Nat BY <1>2
<1> QED BY <1>4, <1>5, <1>6 DEF BurstInv

\* A rename.
LEMMA MoveKeepsBurst ==
    ASSUME NEW p \in Edited, NEW q \in Edited, BurstInv, Moves(p, q),
           UNCHANGED <<before, window>>
    PROVE  BurstInv'
<1>1. PICK c : /\ Leads(window, events, c)
               /\ Described(c, edits, files, before, sources, targets, reused)
  BY DEF BurstInv
<1>2. events \in Seq(WatchEvents) /\ edits \in Nat /\ files \in [Paths -> Nat] BY DEF BurstInv
<1>3. p \in Paths /\ q \in Paths /\ p # q /\ files[p] # 0 BY RepositoryAssumption DEF Moves, Rename
<1>4. PICK backend \in Backends : Written(IF files[q] = 0 THEN "rename" ELSE "overwrite",
                                          RenameEvents(backend, p, q))
  BY DEF Moves, Rename
<1> DEFINE t == edits + 1
           g == [files EXCEPT ![p] = 0, ![q] = files[p]]
           Q == reused'
           reported == RenameEvents(backend, p, q)
<1>5. edits' = t /\ events' = events \o reported /\ files' = g
      /\ sources' = sources \cup {p} /\ targets' = targets \cup {q}
  BY <1>4 DEF Moves, Rename, Written
<1>6. /\ g \in [Paths -> Nat] /\ g[p] = 0 /\ \A r \in Paths \ {p, q} : g[r] = files[r]
  BY <1>2, <1>3
<1>7. LosesAtMost(p, q, files, sources, targets, reused, Q)
  <2>1. reused' = reused
          \cup ({p, q} \cap RenamedPaths) \cup ({p} \cap {ConfigPath})
          \cup (IF files[q] = 0 THEN {} ELSE {q})
          \cup (IF p \in Ignored /\ q \in targets THEN sources ELSE {})
    BY DEF Moves
  <2> QED BY <2>1 DEF LosesAtMost, RenamedPaths
<1>8. t \in Nat /\ t # NoTracker BY <1>2 DEF NoTracker
<1>9. Coalescer(c) /\ t \notin DOMAIN c.tracked
  <2>1. DOMAIN c.tracked \subseteq 1..edits BY <1>1 DEF Described, Trackers
  <2> QED BY <1>1, <1>2, <2>1 DEF Described
<1>10. /\ watchEvent("any", <<p>>, NoTracker) \in WatchEvents
       /\ watchEvent("any", <<q>>, NoTracker) \in WatchEvents
       /\ watchEvent("from", <<p>>, t) \in WatchEvents
       /\ watchEvent("to", <<q>>, t) \in WatchEvents
       /\ watchEvent("both", <<p, q>>, t) \in WatchEvents
       /\ watchEvent("from", <<p>>, NoTracker) \in WatchEvents
       /\ watchEvent("to", <<q>>, NoTracker) \in WatchEvents
  <2>1. NoTracker \in Nat BY DEF NoTracker
  <2> HIDE DEF t
  <2> QED BY <1>3, <1>8, <2>1, EventsAre
<1> HIDE DEF t, g, Q
<1>11. ASSUME NEW a \in WatchEvents, NEW e \in WatchEvents
       PROVE  /\ events \o <<a, e>> \in Seq(WatchEvents)
              /\ Leads(window, events \o <<a, e>>, ingest(ingest(c, a), e))
  <2>1. events \o <<a, e>> = Append(Append(events, a), e) BY <1>2
  <2>2. Append(events, a) \in Seq(WatchEvents)
        /\ Leads(window, Append(events, a), ingest(c, a))
    BY <1>1, <1>2, LeadsOn
  <2>3. Append(Append(events, a), e) \in Seq(WatchEvents)
        /\ Leads(window, Append(Append(events, a), e), ingest(ingest(c, a), e))
    BY <2>2, LeadsOn
  <2> QED BY <2>1, <2>3
<1>12. ASSUME NEW a \in WatchEvents, NEW e \in WatchEvents, NEW o \in WatchEvents
       PROVE  /\ events \o <<a, e, o>> \in Seq(WatchEvents)
              /\ Leads(window, events \o <<a, e, o>>, ingest(ingest(ingest(c, a), e), o))
  <2>1. events \o <<a, e, o>> = Append(events \o <<a, e>>, o) BY <1>2
  <2>2. /\ events \o <<a, e>> \in Seq(WatchEvents)
        /\ Leads(window, events \o <<a, e>>, ingest(ingest(c, a), e))
    BY <1>11
  <2>3. Append(events \o <<a, e>>, o) \in Seq(WatchEvents)
        /\ Leads(window, Append(events \o <<a, e>>, o), ingest(ingest(ingest(c, a), e), o))
    BY <2>2, LeadsOn
  <2> QED BY <2>1, <2>3
<1>13. SUFFICES \E d : /\ events \o reported \in Seq(WatchEvents)
                       /\ Leads(window, events \o reported, d)
                       /\ RenameIngested(c, d, t, p, q)
  <2>1. PICK d : /\ events \o reported \in Seq(WatchEvents)
                 /\ Leads(window, events \o reported, d)
                 /\ RenameIngested(c, d, t, p, q)
    BY <1>13
  <2>2. Described(d, t, g, before, sources \cup {p}, targets \cup {q}, Q)
    <3>1. RenameIngested(c, d, edits + 1, p, q) BY <2>1 DEF t
    <3>2. Described(d, edits + 1, g, before, sources \cup {p}, targets \cup {q}, Q)
      BY <1>1, <1>2, <1>3, <1>6, <1>7, <3>1, RenameDescribed
    <3> QED BY <3>2 DEF t
  <2>3. Described(d, edits', files', before', sources', targets', reused')
    BY <1>5, <2>2 DEF Q
  <2> HIDE DEF reported
  <2> QED BY <1>5, <1>6, <1>8, <2>1, <2>3 DEF BurstInv
<1>14. CASE backend = "split"
  <2> DEFINE a == watchEvent("from", <<p>>, NoTracker)
             e == watchEvent("to", <<q>>, NoTracker)
  <2>1. reported = <<a, e>> BY <1>14 DEF RenameEvents
  <2>2. FoldsOf(c, ingest(c, a), p, deleted(p)) BY <1>3, <1>9, IngestPath
  <2>3. Coalescer(ingest(c, a))
    <3>1. deleted(p) = modified(p) \/ deleted(p) = deleted(p) OBVIOUS
    <3> HIDE DEF a
    <3> QED BY <1>9, <2>2, <3>1, EventLeft
  <2>4. FoldsOf(ingest(c, a), ingest(ingest(c, a), e), q, added(q))
    <3> HIDE DEF a
    <3> QED BY <1>3, <2>3, IngestPath
  <2>5. a \in WatchEvents /\ e \in WatchEvents BY <1>10
  <2> HIDE DEF a, e
  <2>6. RenameIngested(c, ingest(ingest(c, a), e), t, p, q)
    BY <1>3, <1>9, <2>2, <2>4, IngestTwo
  <2> QED BY <1>11, <2>1, <2>5, <2>6
<1>15. CASE backend = "any"
  <2> DEFINE a == watchEvent("any", <<p>>, NoTracker)
             e == watchEvent("any", <<q>>, NoTracker)
  <2>1. reported = <<a, e>> BY <1>15 DEF RenameEvents
  <2>2. FoldsOf(c, ingest(c, a), p, modified(p)) BY <1>3, <1>9, IngestPath
  <2>3. Coalescer(ingest(c, a))
    <3>1. modified(p) = modified(p) \/ modified(p) = deleted(p) OBVIOUS
    <3> HIDE DEF a
    <3> QED BY <1>9, <2>2, <3>1, EventLeft
  <2>4. FoldsOf(ingest(c, a), ingest(ingest(c, a), e), q, modified(q))
    <3> HIDE DEF a
    <3> QED BY <1>3, <2>3, IngestPath
  <2>5. a \in WatchEvents /\ e \in WatchEvents BY <1>10
  <2> HIDE DEF a, e
  <2>6. RenameIngested(c, ingest(ingest(c, a), e), t, p, q)
    BY <1>3, <1>9, <2>2, <2>4, IngestTwo
  <2> QED BY <1>11, <2>1, <2>5, <2>6
<1>16. CASE backend \notin {"split", "any"}
  <2> DEFINE a == watchEvent("from", <<p>>, t)
             e == watchEvent("to", <<q>>, t)
             o == watchEvent("both", <<p, q>>, t)
  <2>1. CASE backend = "tracked"
    <3>1. reported = <<a, e>> BY <2>1 DEF RenameEvents, t
    <3>2. RenameIngested(c, ingest(ingest(c, a), e), t, p, q)
      BY <1>3, <1>8, <1>9, IngestTracked
    <3>3. a \in WatchEvents /\ e \in WatchEvents BY <1>10
    <3> HIDE DEF a, e
    <3> QED BY <1>11, <3>1, <3>2, <3>3
  <2>2. CASE backend # "tracked"
    <3>1. reported = <<a, e, o>> BY <1>16, <2>2 DEF RenameEvents, t
    <3>2. RenameIngested(c, ingest(ingest(ingest(c, a), e), o), t, p, q)
      BY <1>3, <1>8, <1>9, IngestTracked
    <3>3. a \in WatchEvents /\ e \in WatchEvents /\ o \in WatchEvents BY <1>10
    <3> HIDE DEF a, e, o
    <3> QED BY <1>12, <3>1, <3>2, <3>3
  <2> QED BY <2>1, <2>2
<1> QED BY <1>14, <1>15, <1>16

\* Every step of a burst keeps the invariant.
LEMMA BurstSteps ==
    ASSUME BurstInv, [BurstNext]_burstVars PROVE BurstInv'
<1>1. /\ files \in [Paths -> Nat] /\ edits \in Nat /\ events \in Seq(WatchEvents)
      /\ edits + 1 \in Nat
  BY DEF BurstInv
<1>2. Edited \subseteq Paths BY RepositoryAssumption
<1>3. ASSUME NEW c, Described(c, edits, files, before, sources, targets, reused)
      PROVE  Coalescer(c)
  BY <1>3 DEF Described
<1>4. CASE BurstIngest
  <2>1. PICK c : /\ Leads(window, events, c)
                 /\ Described(c, edits, files, before, sources, targets, reused)
    BY DEF BurstInv
  <2>2. Tail(events) \in Seq(WatchEvents)
        /\ Leads(ingest(window, Head(events)), Tail(events), c)
    BY <1>1, <1>4, <2>1, LeadsTail DEF BurstIngest
  <2>3. /\ events' = Tail(events) /\ window' = ingest(window, Head(events))
        /\ UNCHANGED <<files, edits, before, sources, targets, reused>>
    BY <1>4 DEF BurstIngest
  <2> QED BY <1>1, <2>1, <2>2, <2>3 DEF BurstInv
<1>5. ASSUME NEW p \in Edited, NEW q \in Edited, Moves(p, q), UNCHANGED <<before, window>>
      PROVE  BurstInv'
  BY <1>5, MoveKeepsBurst
<1>6. ASSUME NEW p \in Edited, Creates(p), UNCHANGED <<before, window>> PROVE BurstInv'
  <2> DEFINE e == watchEvent("create", <<p>>, NoTracker)
             g == [files EXCEPT ![p] = edits + 1]
             Q == reused \cup ({p} \cap sources)
  <2>1. /\ files[p] = 0 /\ edits' = edits + 1 /\ events' = events \o <<e>> /\ files' = g
        /\ reused' = Q /\ UNCHANGED <<sources, targets, before, window>>
    BY <1>6 DEF Creates, Create, Written
  <2>2. p \in Paths /\ g \in [Paths -> Nat] /\ \A r \in Paths \ {p} : g[r] = files[r]
    BY <1>1, <1>2
  <2>3. e \in WatchEvents BY <2>2, EventsAre DEF NoTracker
  <2>4. ASSUME NEW c, Described(c, edits, files, before, sources, targets, reused)
        PROVE  Described(ingest(c, e), edits + 1, g, before, sources, targets, Q)
    <3>1. FoldsOf(c, ingest(c, e), p, added(p)) BY <1>3, <2>2, <2>4, IngestPath
    <3>2. p \in Watched /\ p \in sources /\ files[p] = 0 => p \in Q OBVIOUS
    <3>3. added(p) = modified(p) \/ (added(p) = added(p) /\ files[p] = 0) BY <2>1
    <3>4. reused \subseteq Q OBVIOUS
    <3> HIDE DEF e, g, Q
    <3> QED BY <1>1, <2>2, <2>4, <3>1, <3>2, <3>3, <3>4, WrittenDescribed
  <2> HIDE DEF e, g, Q
  <2> QED BY <2>1, <2>2, <2>3, <2>4, EditKeepsBurst
<1>7. ASSUME NEW p \in Edited, Deletes(p), UNCHANGED <<before, window>> PROVE BurstInv'
  <2> DEFINE e == watchEvent("remove", <<p>>, NoTracker)
             g == [files EXCEPT ![p] = 0]
             Q == reused \cup ({p} \cap {ConfigPath})
  <2>1. /\ files[p] # 0 /\ edits' = edits + 1 /\ events' = events \o <<e>> /\ files' = g
        /\ reused' = Q /\ UNCHANGED <<sources, targets, before, window>>
    BY <1>7 DEF Deletes, Delete, Written
  <2>2. /\ p \in Paths /\ g \in [Paths -> Nat] /\ g[p] = 0
        /\ \A r \in Paths \ {p} : g[r] = files[r]
    BY <1>1, <1>2
  <2>3. e \in WatchEvents BY <2>2, EventsAre DEF NoTracker
  <2>4. ASSUME NEW c, Described(c, edits, files, before, sources, targets, reused)
        PROVE  Described(ingest(c, e), edits + 1, g, before, sources, targets, Q)
    <3>1. FoldsOf(c, ingest(c, e), p, deleted(p)) BY <1>3, <2>2, <2>4, IngestPath
    <3>2. p = ConfigPath => ConfigPath \in Q OBVIOUS
    <3>3. reused \subseteq Q OBVIOUS
    <3> HIDE DEF e, g, Q
    <3> QED BY <1>1, <2>1, <2>2, <2>4, <3>1, <3>2, <3>3, DeletedDescribed
  <2> HIDE DEF e, g, Q
  <2> QED BY <2>1, <2>2, <2>3, <2>4, EditKeepsBurst
<1>8. ASSUME NEW p \in Edited, Modify(p), UNCHANGED <<sources, targets, reused, before, window>>
      PROVE  BurstInv'
  <2> DEFINE e == watchEvent("modify", <<p>>, NoTracker)
             g == [files EXCEPT ![p] = edits + 1]
  <2>1. /\ files[p] # 0 /\ edits' = edits + 1 /\ events' = events \o <<e>> /\ files' = g
        /\ reused' = reused /\ UNCHANGED <<sources, targets, before, window>>
    BY <1>8 DEF Modify, Written
  <2>2. p \in Paths /\ g \in [Paths -> Nat] /\ \A r \in Paths \ {p} : g[r] = files[r]
    BY <1>1, <1>2
  <2>3. e \in WatchEvents BY <2>2, EventsAre DEF NoTracker
  <2>4. ASSUME NEW c, Described(c, edits, files, before, sources, targets, reused)
        PROVE  Described(ingest(c, e), edits + 1, g, before, sources, targets, reused)
    <3>1. FoldsOf(c, ingest(c, e), p, modified(p)) BY <1>3, <2>2, <2>4, IngestPath
    <3>2. p \in Watched /\ p \in sources /\ files[p] = 0 => p \in reused BY <2>1
    <3>3. modified(p) = modified(p) \/ (modified(p) = added(p) /\ files[p] = 0) OBVIOUS
    <3> HIDE DEF e, g
    <3> QED BY <1>1, <2>2, <2>4, <3>1, <3>2, <3>3, WrittenDescribed
  <2> HIDE DEF e, g
  <2> QED BY <2>1, <2>2, <2>3, <2>4, EditKeepsBurst
<1>9. ASSUME NEW p \in Edited, Overflow(p), UNCHANGED <<sources, targets, reused, before, window>>
      PROVE  BurstInv'
  <2> DEFINE e == watchEvent("rescan", <<>>, NoTracker)
             g == [files EXCEPT ![p] = IF @ = 0 THEN edits + 1 ELSE 0]
  <2>1. /\ edits' = edits + 1 /\ events' = events \o <<e>> /\ files' = g
        /\ reused' = reused /\ UNCHANGED <<sources, targets, before, window>>
    BY <1>9 DEF Overflow, Written
  <2>2. g \in [Paths -> Nat] BY <1>1, <1>2
  <2>3. e \in WatchEvents BY <1>2, EventsAre DEF NoTracker
  <2>4. ASSUME NEW c, Described(c, edits, files, before, sources, targets, reused)
        PROVE  Described(ingest(c, e), edits + 1, g, before, sources, targets, reused)
    <3>1. FoldsInto(c, ingest(c, e), modified(ConfigPath)) BY <1>3, <2>4, IngestRescan
    <3> HIDE DEF e, g
    <3> QED BY <1>1, <2>4, <3>1, OverflowDescribed
  <2> HIDE DEF e, g
  <2> QED BY <2>1, <2>2, <2>3, <2>4, EditKeepsBurst
<1>10. CASE UNCHANGED burstVars BY <1>10 DEF burstVars, BurstInv
<1> QED BY <1>4, <1>5, <1>6, <1>7, <1>8, <1>9, <1>10 DEF BurstNext, Burst

\* What is described, the drained batch names.
LEMMA BurstNamed ==
    ASSUME BurstInv PROVE CoveredUnlessReused
<1> SUFFICES ASSUME events = <<>>, NEW r \in Changed \ reused
             PROVE  r \in Batched \/ ConfigPath \in Batched \cup reused
  BY DEF CoveredUnlessReused
<1>1. PICK c : /\ Leads(window, events, c)
               /\ Described(c, edits, files, before, sources, targets, reused)
  BY DEF BurstInv
<1>2. c = window
  <2>1. Len(events) + 1 = 1 OBVIOUS
  <2> QED BY <1>1, <2>1 DEF Leads
<1>3. r \in Watched \ reused /\ files[r] # before[r] /\ edits \in Nat BY DEF Changed, BurstInv
<1>4. r \in Named(Drained(c)) \/ ConfigPath \in Named(Drained(c)) \cup reused
  BY <1>1, <1>3, DrainNames
<1> QED BY <1>2, <1>4 DEF Batched

\* The batch of a quiet window names every path that differs from what the last batch
\* left (daemon.rs:283-289, 380), whatever was edited in it and however the platform
\* reports renames, except for paths that the window used again.
THEOREM BurstsCovered == BurstSpec => []CoveredUnlessReused
<1>1. BurstInit => BurstInv BY BurstStarts
<1>2. BurstInv /\ [BurstNext]_burstVars => BurstInv' BY BurstSteps
<1>3. BurstInv => CoveredUnlessReused BY BurstNamed
<1> QED BY <1>1, <1>2, <1>3, PTL DEF BurstSpec
=============================================================================
