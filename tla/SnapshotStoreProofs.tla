------------------------ MODULE SnapshotStoreProofs ------------------------
EXTENDS SnapshotStore, TLAPS, FiniteSetTheorems, SequenceTheorems, WellFoundedInduction
(***************************************************************************)
(* Proofs about SnapshotStore, for any number of scans, contents, builds,  *)
(* sessions and operations.  StoreInv is inductive.  Its two halves say    *)
(* what keeps the pointers honest (GraphInv: every row is its scan's       *)
(* snapshot with layers on top) and what keeps the evidence (ImportInv:    *)
(* staged and completed rows, their owners and their sessions agree).  One *)
(* lemma per action shows the half the action can disturb; GraphKept and   *)
(* ImportKept carry the other half.                                        *)
(* OrderInv follows the numbers of the scans: what is promoted is newer.   *)
(***************************************************************************)

-----------------------------------------------------------------------------
(***************************************************************************)
(* The inductive invariant.                                                *)
(***************************************************************************)
RowsOf(q) == { q[n] : n \in DOMAIN q }

\* A snapshot belongs to a completed scan, and is that scan's with layers on it.
RowsOK ==
    \A r \in RowsOf(snapshots) :
        /\ r.id # NoSnapshot
        /\ scans[r.scan].status = "completed"
        /\ Base(r.id) = scans[r.scan].snapshot

\* A completed scan has a snapshot without layers, a staging one a content.
ScansOK ==
    \A s \in Scans :
        /\ scans[s].status = "staging" => scans[s].content \in Contents
        /\ scans[s].status = "completed" =>
               scans[s].snapshot \in Ids /\ Base(scans[s].snapshot) = scans[s].snapshot

\* The current snapshot is of the successful scan, and that scan is completed.
SuccessfulOK ==
    /\ CurrentOfScan
    /\ successful # NoOne => scans[successful].status = "completed"

\* A cached content names a snapshot without layers.
CacheOK ==
    \A c \in Contents :
        cache[c] # NoSnapshot => cache[c] \in Ids /\ Base(cache[c]) = cache[c]

\* The build that holds the lock stands on the successful scan.
HeldBuildOK ==
    \A b \in Builds :
        Holds(b) => /\ builds[b].scan = successful /\ successful # NoOne
                    /\ builds[b].base \in Ids
                    /\ Base(builds[b].base) = scans[successful].snapshot

GraphInv == RowsOK /\ ScansOK /\ SuccessfulOK /\ CacheOK /\ HeldBuildOK

\* A submitted import is on a snapshot that exists.
InputsOK ==
    \A o \in Ops :
        phase[o] # "new" => input[o].parent \in Ids /\ input[o].session \in Sessions

\* An owner has staged its import and not yet finished it.
OwnersOK ==
    \A w \in owners : phase[w.op] \in {"staged", "decided"} /\ w.import = input[w.op]

\* The import of the operation that holds the lock is staged and owned by it.
HeldImportOK ==
    \A o \in Ops :
        Holds(o) /\ phase[o] \in {"staged", "decided"} =>
            input[o] \in staged /\ Owner(input[o], o) \in owners

\* The session of a layer has been imported.
LayersImported ==
    \A id \in Ids : \A s \in SessionsOf(id) :
        \E import \in imported : import.session = s

\* The session of an import that is staged or completed is stored.
SessionsStored ==
    \A import \in staged \cup imported : sessions[import.session] # NoSnapshot

ImportInv ==
    /\ InputsOK /\ OwnersOK /\ OwnershipConsistent /\ HeldImportOK
    /\ DecidedStageKept /\ LayersImported /\ SessionsStored

StoreInv == StoreTypeOK /\ GraphInv /\ ImportInv

-----------------------------------------------------------------------------
\* A non-empty bounded set of positions has a last one.
LEMMA LastPosition ==
    ASSUME NEW n \in Nat, NEW T, T \subseteq 1..n, T # {}
    PROVE  \E x \in T : \A y \in T : y <= x
<1> DEFINE R == OpToRel(<, Nat)
           U == { n - y : y \in T }
<1>1. IsWellFoundedOn(R, Nat)
  BY NatLessThanWellFounded
<1> HIDE DEF R
<1>2. U \subseteq Nat /\ U # {}
  <2>1. \A y \in T : n - y \in Nat
    OBVIOUS
  <2>2. \E y \in T : n - y \in U
    OBVIOUS
  <2> QED BY <2>1, <2>2
<1> HIDE DEF U
<1>3. PICK u \in U : \A v \in U : ~(<<v, u>> \in R)
  BY <1>1, <1>2, WFMin
<1>4. \A v \in U : ~(v < u)
  <2> TAKE v \in U
  <2>1. <<v, u>> \in Nat \X Nat
    BY <1>2, <1>3
  <2>2. <<v, u>> \in R <=> v < u
    BY <2>1 DEF OpToRel, R
  <2> QED BY <1>3, <2>2
<1>5. PICK x \in T : u = n - x
  BY <1>3 DEF U
<1>6. \A y \in T : y <= x
  <2> TAKE y \in T
  <2>1. n - y \in U
    BY DEF U
  <2>2. ~(n - y < n - x)
    BY <1>4, <1>5, <2>1
  <2> QED BY <2>2
<1> QED BY <1>5, <1>6

\* The layers above the last scan of an identity are finitely many.
LEMMA AboveFinite ==
    ASSUME NEW id \in Seq(LayerSet)
    PROVE  /\ IsFiniteSet(Above(id))
           /\ Cardinality(Above(id)) \in 0..Len(id)
<1>1. Above(id) \subseteq 1..Len(id)
  BY DEF Above
<1>2. IsFiniteSet(1..Len(id)) /\ Cardinality(1..Len(id)) = Len(id)
  <2>1. Len(id) \in Nat
    BY LenProperties
  <2>2. 1 \in Int /\ Len(id) \in Int
    BY <2>1
  <2>3. /\ IsFiniteSet(1..Len(id))
        /\ Cardinality(1..Len(id)) = IF 1 > Len(id) THEN 0 ELSE Len(id) - 1 + 1
    BY <2>2, FS_Interval
  <2> QED BY <2>1, <2>3
<1>3. IsFiniteSet(Above(id)) /\ Cardinality(Above(id)) <= Cardinality(1..Len(id))
  BY <1>1, <1>2, FS_Subset
<1>4. Cardinality(Above(id)) \in Nat
  BY <1>3, FS_CardinalityType
<1> QED BY <1>2, <1>3, <1>4

\* A new scan has nothing above it; any other new layer is above the scan.
LEMMA AboveOfAppend ==
    ASSUME NEW id \in Seq(LayerSet), NEW l \in LayerSet
    PROVE  Above(Append(id, l)) = IF l.kind = "scan" THEN {} ELSE Above(id) \cup {Len(id) + 1}
<1> DEFINE new == Append(id, l)
<1>1. /\ new \in Seq(LayerSet) /\ Len(new) = Len(id) + 1
      /\ DOMAIN new = 1..(Len(id) + 1)
      /\ new[Len(id) + 1] = l
      /\ \A m \in 1..Len(id) : new[m] = id[m]
  BY AppendProperties
<1>2. Len(id) \in Nat /\ DOMAIN id = 1..Len(id)
  BY LenProperties
<1> HIDE DEF new
<1>3. Above(new) = { n \in 1..(Len(id) + 1) : \A m \in n..(Len(id) + 1) : new[m].kind # "scan" }
  BY <1>1 DEF Above
<1>4. Above(id) = { n \in 1..Len(id) : \A m \in n..Len(id) : id[m].kind # "scan" }
  BY <1>2 DEF Above
<1>5. CASE l.kind = "scan"
  BY <1>1, <1>2, <1>3, <1>5 DEF new
<1>6. CASE l.kind # "scan"
  <2>1. ASSUME NEW n \in 1..Len(id)
        PROVE  n \in Above(new) <=> n \in Above(id)
    <3>1. \A m \in n..Len(id) : new[m] = id[m]
      BY <1>1, <1>2
    <3>2. n..(Len(id) + 1) = (n..Len(id)) \cup {Len(id) + 1}
      BY <1>2
    <3>3. n \in Above(new) <=> \A m \in n..(Len(id) + 1) : new[m].kind # "scan"
      BY <1>2, <1>3
    <3>4. n \in Above(id) <=> \A m \in n..Len(id) : id[m].kind # "scan"
      BY <1>4
    <3> QED BY <1>1, <1>6, <3>1, <3>2, <3>3, <3>4
  <2>2. Len(id) + 1 \in Above(new)
    BY <1>1, <1>2, <1>3, <1>6
  <2>3. Above(new) \subseteq 1..(Len(id) + 1) /\ Above(id) \subseteq 1..Len(id)
    BY <1>3, <1>4
  <2>4. Above(new) = Above(id) \cup {Len(id) + 1}
    BY <1>2, <2>1, <2>2, <2>3
  <2> QED BY <2>4, <1>6 DEF new
<1> QED BY <1>5, <1>6

\* A layer that is not a scan leaves the base as it is; a scan is its own base.
LEMMA BaseOfAppend ==
    ASSUME NEW id \in Seq(LayerSet), NEW l \in LayerSet
    PROVE  /\ Base(id) \in Seq(LayerSet)
           /\ l.kind = "scan" => Base(Append(id, l)) = Append(id, l)
           /\ l.kind # "scan" => Base(Append(id, l)) = Base(id)
<1> DEFINE new == Append(id, l)
           k == Len(id) - Cardinality(Above(id))
<1>1. /\ new \in Seq(LayerSet) /\ Len(new) = Len(id) + 1
      /\ \A m \in 1..Len(id) : new[m] = id[m]
  BY AppendProperties
<1>2. Len(id) \in Nat /\ k \in 0..Len(id)
  BY LenProperties, AboveFinite
<1>3. Base(id) = SubSeq(id, 1, k) /\ Base(id) \in Seq(LayerSet)
  BY <1>2 DEF Base
<1>4. ASSUME l.kind = "scan" PROVE Base(new) = new
  <2>1. Cardinality(Above(new)) = 0
    BY <1>4, AboveOfAppend, FS_EmptySet
  <2>2. Base(new) = SubSeq(new, 1, Len(new))
    BY <2>1, <1>1, <1>2 DEF Base
  <2> QED BY <2>2, <1>1, SubSeqFull
<1>5. ASSUME l.kind # "scan" PROVE Base(new) = Base(id)
  <2>1. Above(id) \subseteq 1..Len(id)
    BY <1>2 DEF Above
  <2>2. Cardinality(Above(new)) = Cardinality(Above(id)) + 1
    <3>1. Above(new) = Above(id) \cup {Len(id) + 1}
      BY <1>5, AboveOfAppend
    <3>2. Len(id) + 1 \notin Above(id)
      BY <1>2, <2>1
    <3>3. IsFiniteSet(Above(id))
      BY AboveFinite
    <3> QED BY <3>1, <3>2, <3>3, FS_AddElement
  <2>3. Cardinality(Above(id)) \in Nat
    BY AboveFinite, <1>2
  <2>4. Len(new) - Cardinality(Above(new)) = k
    BY <1>1, <1>2, <2>2, <2>3
  <2>5. Base(new) = SubSeq(new, 1, k)
    BY <2>4 DEF Base
  <2>6. SubSeq(new, 1, k) = SubSeq(id, 1, k)
    BY <1>1, <1>2
  <2> QED BY <2>5, <2>6, <1>3
<1> QED BY <1>3, <1>4, <1>5

\* A new layer adds itself to the layers of an identity, a scan removes all.
LEMMA LayersOfAppend ==
    ASSUME NEW id \in Snapshot, NEW l \in LayerSet
    PROVE  /\ l.kind = "scan" => Layers(Append(id, l)) = {}
           /\ l.kind # "scan" => Layers(Append(id, l)) = Layers(id) \cup {l}
<1> DEFINE new == Append(id, l)
<1>1. /\ DOMAIN id = 1..Len(id) /\ Len(id) \in Nat
      /\ new[Len(id) + 1] = l
      /\ \A m \in 1..Len(id) : new[m] = id[m]
  BY AppendProperties, LenProperties DEF Snapshot
<1>2. Above(new) = IF l.kind = "scan" THEN {} ELSE Above(id) \cup {Len(id) + 1}
  BY AboveOfAppend DEF Snapshot
<1>3. Above(id) \subseteq 1..Len(id)
  BY <1>1 DEF Above
<1> HIDE DEF new
<1>4. ASSUME l.kind = "scan" PROVE Layers(new) = {}
  BY <1>2, <1>4 DEF Layers
<1>5. ASSUME l.kind # "scan" PROVE Layers(new) = Layers(id) \cup {l}
  <2>1. Layers(new) = { new[n] : n \in Above(id) \cup {Len(id) + 1} }
    BY <1>2, <1>5 DEF Layers
  <2>2. \A n \in Above(id) : new[n] = id[n]
    BY <1>1, <1>3
  <2> QED BY <1>1, <2>1, <2>2 DEF Layers
<1> QED BY <1>4, <1>5 DEF new

-----------------------------------------------------------------------------
(***************************************************************************)
(* The rows of completed_snapshots.                                        *)
(***************************************************************************)
SnapshotRow == [id : Snapshot, scan : Scans]

\* A row of the table is well typed.
LEMMA RowTyped ==
    ASSUME snapshots \in Seq(SnapshotRow), NEW r \in RowsOf(snapshots)
    PROVE  r \in SnapshotRow /\ r.scan \in Scans /\ r.id \in Snapshot
<1>1. PICK n \in DOMAIN snapshots : r = snapshots[n]
  BY DEF RowsOf
<1>2. snapshots[n] \in SnapshotRow
  BY <1>1, ElementOfSeq, LenProperties
<1> QED BY <1>1, <1>2 DEF SnapshotRow

\* An identity that is created is there, and nothing else is new.
LEMMA CreatedRows ==
    ASSUME snapshots \in Seq(SnapshotRow), NEW id \in Snapshot, NEW s \in Scans
    PROVE  /\ Created(id, s) \in Seq(SnapshotRow)
           /\ RowsOf(Created(id, s)) \subseteq RowsOf(snapshots) \cup {[id |-> id, scan |-> s]}
           /\ RowsOf(snapshots) \subseteq RowsOf(Created(id, s))
           /\ \E r \in RowsOf(Created(id, s)) : r.id = id
<1> DEFINE row == [id |-> id, scan |-> s]
<1>0. row \in SnapshotRow
  BY DEF SnapshotRow
<1>1. CASE id \in Ids
  BY <1>1 DEF Created, Ids, RowsOf
<1>2. CASE id \notin Ids
  <2> DEFINE new == Append(snapshots, row)
  <2>1. Created(id, s) = new
    BY <1>2 DEF Created
  <2>2. /\ new \in Seq(SnapshotRow)
        /\ DOMAIN new = 1..(Len(snapshots) + 1)
        /\ new[Len(snapshots) + 1] = row
        /\ \A m \in 1..Len(snapshots) : new[m] = snapshots[m]
    BY <1>0, AppendProperties
  <2>3. DOMAIN snapshots = 1..Len(snapshots) /\ Len(snapshots) \in Nat
    BY LenProperties
  <2> HIDE DEF new, row
  <2>4. RowsOf(new) = RowsOf(snapshots) \cup {row}
    BY <2>2, <2>3 DEF RowsOf
  <2>5. row.id = id
    BY DEF row
  <2> QED BY <2>1, <2>2, <2>4, <2>5 DEF row
<1> QED BY <1>1, <1>2

\* The identities in the store are those of its rows.
LEMMA IdsOfRows == Ids = { r.id : r \in RowsOf(snapshots) }
BY DEF Ids, RowsOf

\* The scan of an identity is the scan of a row with that identity.
LEMMA ScanOfRow ==
    ASSUME snapshots \in Seq(SnapshotRow), NEW id \in Ids
    PROVE  \E r \in RowsOf(snapshots) : r.id = id /\ r.scan = ScanOf(id) /\ r \in SnapshotRow
<1> DEFINE n == CHOOSE m \in DOMAIN snapshots : snapshots[m].id = id
<1>1. \E m \in DOMAIN snapshots : snapshots[m].id = id
  BY DEF Ids
<1>2. n \in DOMAIN snapshots /\ snapshots[n].id = id
  BY <1>1
<1>3. ScanOf(id) = snapshots[n].scan
  BY DEF ScanOf
<1> HIDE DEF n
<1>4. snapshots[n] \in SnapshotRow
  BY <1>2, ElementOfSeq, LenProperties
<1> QED BY <1>2, <1>3, <1>4 DEF RowsOf

\* The latest snapshot of a scan is an identity of one of its rows.
LEMMA LatestRow ==
    ASSUME snapshots \in Seq(SnapshotRow), NEW s, Latest(s) # NoSnapshot
    PROVE  \E r \in RowsOf(snapshots) : r.scan = s /\ r.id = Latest(s) /\ r \in SnapshotRow
<1> DEFINE of == { n \in DOMAIN snapshots : snapshots[n].scan = s }
           last == CHOOSE n \in of : \A m \in of : m <= n
<1>1. of # {} /\ Latest(s) = snapshots[last].id
  BY DEF Latest
<1>2. of \subseteq 1..Len(snapshots) /\ Len(snapshots) \in Nat
  BY LenProperties
<1>3. \E x \in of : \A y \in of : y <= x
  <2> HIDE DEF of
  <2> QED BY <1>1, <1>2, LastPosition
<1>4. last \in of
  <2> HIDE DEF of
  <2> QED BY <1>3
<1>5. last \in DOMAIN snapshots /\ snapshots[last].scan = s
  BY <1>4
<1> HIDE DEF of, last
<1>6. snapshots[last] \in SnapshotRow
  BY <1>5, ElementOfSeq, LenProperties
<1> QED BY <1>1, <1>5, <1>6 DEF RowsOf

\* What a new row needs for the rows to stay in order.
LEMMA RowCreated ==
    ASSUME snapshots \in Seq(SnapshotRow), RowsOK,
           NEW id \in Snapshot, id # NoSnapshot, NEW s \in Scans,
           snapshots' = Created(id, s),
           scans'[s].status = "completed",
           Base(id) = scans'[s].snapshot,
           \A t \in Scans : scans[t].status = "completed" => scans'[t] = scans[t]
    PROVE  RowsOK' /\ Ids' = Ids \cup {id} /\ snapshots' \in Seq(SnapshotRow)
<1> DEFINE row == [id |-> id, scan |-> s]
<1>1. /\ snapshots' \in Seq(SnapshotRow)
      /\ RowsOf(snapshots') \subseteq RowsOf(snapshots) \cup {row}
      /\ RowsOf(snapshots) \subseteq RowsOf(snapshots')
      /\ \E r \in RowsOf(snapshots') : r.id = id
  BY CreatedRows
<1>2. Ids = { r.id : r \in RowsOf(snapshots) } /\ Ids' = { r.id : r \in RowsOf(snapshots') }
  BY DEF Ids, RowsOf
<1>3. row.id = id /\ row.scan = s
  OBVIOUS
<1>4. \A r \in RowsOf(snapshots) : r.scan \in Scans
  BY RowTyped
<1> HIDE DEF row
<1>5. Ids' = Ids \cup {id}
  BY <1>1, <1>2, <1>3
<1>6. ASSUME NEW r \in RowsOf(snapshots')
      PROVE  /\ r.id # NoSnapshot
             /\ scans'[r.scan].status = "completed"
             /\ Base(r.id) = scans'[r.scan].snapshot
  <2>1. CASE r = row
    BY <1>3, <2>1
  <2>2. CASE r \in RowsOf(snapshots)
    <3>1. r.scan \in Scans /\ scans[r.scan].status = "completed"
      BY <1>4, <2>2 DEF RowsOK
    <3>2. scans'[r.scan] = scans[r.scan]
      BY <3>1
    <3> QED BY <2>2, <3>2 DEF RowsOK
  <2> QED BY <1>1, <2>1, <2>2
<1>7. RowsOK'
  BY <1>6 DEF RowsOK
<1> QED BY <1>1, <1>5, <1>7

\* Nothing but the lock changes, and no build takes it.
LEMMA GraphKept ==
    ASSUME GraphInv,
           UNCHANGED <<snapshots, current, successful, scans, builds, cache>>,
           writer' = writer \/ writer' \notin Builds
    PROVE  GraphInv'
BY DEF GraphInv, RowsOK, ScansOK, SuccessfulOK, CurrentOfScan, CacheOK,
       HeldBuildOK, Holds, Ids

\* Only the graph changes, and what is new in it has no unknown session.
LEMMA ImportKept ==
    ASSUME ImportInv,
           UNCHANGED <<importVars, opVars>>,
           writer' = writer \/ writer' \notin Ops,
           Ids \subseteq Ids',
           \A id \in Ids' \ Ids : \A s \in SessionsOf(id) :
               \E import \in imported : import.session = s
    PROVE  ImportInv'
<1> USE DEF importVars, opVars
<1>1. InputsOK'
  BY DEF ImportInv, InputsOK
<1>2. OwnersOK' /\ OwnershipConsistent' /\ DecidedStageKept' /\ SessionsStored'
  BY DEF ImportInv, OwnersOK, OwnershipConsistent, OwnersOf, DecidedStageKept,
         SessionsStored, Owner
<1>3. HeldImportOK'
  BY DEF ImportInv, HeldImportOK, Holds, Owner
<1>4. LayersImported'
  BY DEF ImportInv, LayersImported, SessionsOf
<1> QED BY <1>1, <1>2, <1>3, <1>4 DEF ImportInv

-----------------------------------------------------------------------------
(***************************************************************************)
(* Scans.                                                                  *)
(***************************************************************************)
ScanRow == [status : {"new", "staging", "completed", "cancelled"},
            parent : Snapshot, content : Contents \cup {NoOne},
            snapshot : Snapshot, order : Nat]

BuildRow == [status : {"new", "staging", "completed", "failed", "cancelled"},
             scan : Scans \cup {NoOne}, base : Snapshot]

\* A scan row whose outcome is set is a scan row.
LEMMA ScanRowUpdate ==
    ASSUME NEW r \in ScanRow, NEW st \in {"completed", "cancelled"}, NEW id \in Snapshot
    PROVE  [r EXCEPT !.status = st, !.snapshot = id] \in ScanRow
BY DEF ScanRow

\* Scans change, but no scan becomes or ceases to be completed.
LEMMA ScanUpdated ==
    ASSUME StoreTypeOK, GraphInv,
           UNCHANGED <<snapshots, current, successful, cache>>,
           \A t \in Scans : scans[t].status = "completed" => scans'[t] = scans[t],
           \A t \in Scans : scans'[t].status = "completed" => scans[t].status = "completed",
           \A t \in Scans : scans'[t].status = "staging" => scans'[t].content \in Contents,
           writer' \notin Builds
    PROVE  GraphInv'
<1>1. \A r \in RowsOf(snapshots) : r.scan \in Scans
  BY RowTyped DEF StoreTypeOK, SnapshotRow
<1>2. RowsOK'
  BY <1>1 DEF GraphInv, RowsOK
<1>3. ScansOK'
  BY DEF GraphInv, ScansOK, Ids
<1>4. SuccessfulOK' /\ CacheOK'
  BY DEF GraphInv, SuccessfulOK, CurrentOfScan, CacheOK, Ids, StoreTypeOK
<1>5. HeldBuildOK'
  BY DEF HeldBuildOK, Holds
<1> QED BY <1>2, <1>3, <1>4, <1>5 DEF GraphInv

\* start_scan: the new attempt is staging, nothing refers to it yet.
LEMMA StartScanKeeps ==
    ASSUME StoreInv, NEW s \in Scans, NEW content \in Contents, StartScan(s, content)
    PROVE  StoreInv'
<1> DEFINE k == Cardinality({ t \in Scans : scans[t].status # "new" }) + 1
<1>1. k \in Nat
  <2>1. IsFiniteSet({ t \in Scans : scans[t].status # "new" })
    BY StoreAssumption, FS_Subset
  <2> QED BY <2>1, FS_CardinalityType
<1> DEFINE new == [status |-> "staging", parent |-> current, content |-> content,
                   snapshot |-> NoSnapshot, order |-> k]
<1>2. /\ scans' = [scans EXCEPT ![s] = new]
      /\ scans[s].status = "new"
      /\ writer' = s
      /\ UNCHANGED <<snapshots, current, successful, builds, cache, importVars,
                     opVars, decided, crashes>>
  BY DEF StartScan
<1>3. new \in ScanRow /\ new.status = "staging" /\ new.content = content
  BY <1>1 DEF ScanRow, StoreInv, StoreTypeOK, NoSnapshot, Snapshot
<1> HIDE DEF new, k
<1>4. scans' \in [Scans -> ScanRow]
  BY <1>2, <1>3 DEF ScanRow, StoreInv, StoreTypeOK
<1>5. scans'[s] = new /\ \A t \in Scans : t # s => scans'[t] = scans[t]
  BY <1>2 DEF StoreInv, StoreTypeOK
<1>6. StoreTypeOK'
  BY <1>2, <1>4 DEF StoreInv, StoreTypeOK, ScanRow, importVars, opVars
<1>7. GraphInv'
  <2>1. \A t \in Scans : scans'[t].status = "staging" => scans'[t].content \in Contents
    BY <1>3, <1>5 DEF StoreInv, GraphInv, ScansOK
  <2> QED BY <1>2, <1>3, <1>5, <2>1, ScanUpdated, StoreAssumption DEF StoreInv
<1>8. ImportInv'
  BY <1>2, ImportKept, StoreAssumption DEF StoreInv, Ids
<1> QED BY <1>6, <1>7, <1>8 DEF StoreInv

\* The promotion gate of a scan changes its decision only.
LEMMA DecideScanKeeps ==
    ASSUME StoreInv, NEW s \in Scans, DecideScan(s)
    PROVE  StoreInv'
<1>1. /\ decided' = decided \cup {s}
      /\ UNCHANGED <<snapshots, current, successful, scans, builds, cache,
                     importVars, opVars, writer, crashes>>
  BY DEF DecideScan
<1>2. StoreTypeOK'
  BY <1>1 DEF StoreInv, StoreTypeOK, importVars, opVars
<1>3. GraphInv'
  BY <1>1, GraphKept DEF StoreInv
<1>4. ImportInv'
  BY <1>1, ImportKept DEF StoreInv, Ids
<1> QED BY <1>2, <1>3, <1>4 DEF StoreInv

\* A scan that fails was staging, so no row or pointer is about it.
LEMMA FailScanKeeps ==
    ASSUME StoreInv, NEW s \in Scans, FailScan(s)
    PROVE  StoreInv'
<1>1. /\ scans[s].status = "staging"
      /\ scans' = [scans EXCEPT ![s].status = "cancelled"]
      /\ writer' = NoOne
      /\ UNCHANGED <<snapshots, current, successful, builds, cache, importVars,
                     opVars, decided, crashes>>
  BY DEF FailScan, Release
<1>2. StoreTypeOK'
  <2>1. scans \in [Scans -> ScanRow]
    BY DEF StoreInv, StoreTypeOK, ScanRow
  <2>2. [scans[s] EXCEPT !.status = "cancelled"] \in ScanRow
    BY <2>1 DEF ScanRow
  <2>3. scans' \in [Scans -> ScanRow]
    BY <1>1, <2>1, <2>2
  <2> QED BY <1>1, <2>3 DEF StoreInv, StoreTypeOK, ScanRow, importVars, opVars
<1>3. /\ scans'[s].status = "cancelled"
      /\ \A t \in Scans : t # s => scans'[t] = scans[t]
  BY <1>1 DEF StoreInv, StoreTypeOK
<1>4. GraphInv'
  <2>1. \A t \in Scans : scans'[t].status = "staging" => scans'[t].content \in Contents
    BY <1>3 DEF StoreInv, GraphInv, ScansOK
  <2> QED BY <1>1, <1>3, <2>1, ScanUpdated, StoreAssumption DEF StoreInv
<1>5. ImportInv'
  BY <1>1, ImportKept, StoreAssumption DEF StoreInv, Ids
<1> QED BY <1>2, <1>4, <1>5 DEF StoreInv

\* finish_scan, by the scan's process or by recovery.
LEMMA CompletedScanKeeps ==
    ASSUME StoreInv, NEW s \in Scans, scans[s].status = "staging", CompletedScan(s),
           \/ UNCHANGED cache
           \/ cache' = [cache EXCEPT ![scans[s].content] = scans'[s].snapshot],
           decided' = decided \ {s},
           writer' = NoOne,
           UNCHANGED <<builds, importVars, opVars, crashes>>
    PROVE  StoreInv'
<1> DEFINE l == scanLayer(scans[s].content)
           id == Append(scans[s].parent, l)
<1>1. scans[s] \in ScanRow /\ scans[s].content \in Contents
  BY DEF StoreInv, StoreTypeOK, ScanRow, GraphInv, ScansOK
<1>2. /\ scans[s].parent \in Snapshot
      /\ l \in LayerSet /\ l.kind = "scan"
  BY <1>1 DEF ScanRow, LayerSet, scanLayer
<1>3. id \in Snapshot /\ id # NoSnapshot
  BY <1>2, AppendProperties DEF Snapshot, NoSnapshot
<1>4. Base(id) = id
  BY <1>2, BaseOfAppend DEF Snapshot
<1>5. SessionsOf(id) = {}
  BY <1>2, LayersOfAppend DEF SessionsOf
<1>6. /\ snapshots' = Created(id, s)
      /\ scans' = [scans EXCEPT ![s].status = "completed", ![s].snapshot = id]
      /\ \/ current = scans[s].parent /\ current' = id /\ successful' = s
         \/ UNCHANGED <<current, successful>>
  BY DEF CompletedScan
<1> HIDE DEF l, id
<1>7. scans' \in [Scans -> ScanRow]
  <2>1. scans \in [Scans -> ScanRow]
    BY DEF StoreInv, StoreTypeOK, ScanRow
  <2>2. [scans[s] EXCEPT !.status = "completed", !.snapshot = id] \in ScanRow
    BY <1>3, <2>1, ScanRowUpdate
  <2> QED BY <1>6, <2>1, <2>2
<1>8. /\ scans'[s].status = "completed" /\ scans'[s].snapshot = id
      /\ \A t \in Scans : t # s => scans'[t] = scans[t]
  BY <1>6 DEF StoreInv, StoreTypeOK
<1>9. RowsOK' /\ Ids' = Ids \cup {id} /\ snapshots' \in Seq(SnapshotRow)
  <2>1. snapshots \in Seq(SnapshotRow) /\ RowsOK
    BY DEF StoreInv, StoreTypeOK, GraphInv, SnapshotRow
  <2>2. \A t \in Scans : scans[t].status = "completed" => scans'[t] = scans[t]
    BY <1>8
  <2> QED BY <1>3, <1>4, <1>6, <1>8, <2>1, <2>2, RowCreated
<1>10. cache' \in [Contents -> Snapshot]
  BY <1>3, <1>8 DEF StoreInv, StoreTypeOK
<1>11. StoreTypeOK'
  BY <1>3, <1>6, <1>7, <1>9, <1>10
     DEF StoreInv, StoreTypeOK, ScanRow, SnapshotRow, importVars, opVars
<1>12. ScansOK'
  BY <1>4, <1>8, <1>9 DEF StoreInv, GraphInv, ScansOK
<1>13. SuccessfulOK'
  BY <1>4, <1>6, <1>8 DEF StoreInv, StoreTypeOK, GraphInv, SuccessfulOK, CurrentOfScan
<1>14. CacheOK'
  <2>1. ASSUME NEW c \in Contents, cache'[c] # NoSnapshot
        PROVE  cache'[c] = cache[c] \/ cache'[c] = id
    BY <1>8 DEF StoreInv, StoreTypeOK
  <2> QED BY <1>4, <1>9, <2>1 DEF StoreInv, GraphInv, CacheOK
<1>15. HeldBuildOK'
  BY StoreAssumption DEF HeldBuildOK, Holds
<1>16. ImportInv'
  BY <1>5, <1>9, ImportKept, StoreAssumption DEF StoreInv
<1> QED BY <1>9, <1>11, <1>12, <1>13, <1>14, <1>15, <1>16 DEF StoreInv, GraphInv

\* A cache hit publishes a snapshot without layers under one more scan.
LEMMA CachedScanKeeps ==
    ASSUME StoreInv, NEW s \in Scans, CachedScan(s)
    PROVE  StoreInv'
<1> DEFINE id == cache[scans[s].content]
<1>1. scans[s].content \in Contents /\ id \in Snapshot
  BY DEF CachedScan, StoreInv, StoreTypeOK, GraphInv, ScansOK
<1>2. /\ scans[s].status = "staging"
      /\ id # NoSnapshot
      /\ scans' = [scans EXCEPT ![s].status = "completed", ![s].snapshot = id]
      /\ current' = id /\ successful' = s /\ writer' = NoOne
      /\ UNCHANGED <<snapshots, builds, cache, importVars, opVars, decided, crashes>>
  BY DEF CachedScan, Release
<1>3. id \in Ids /\ Base(id) = id
  BY <1>1, <1>2 DEF StoreInv, GraphInv, CacheOK
<1> HIDE DEF id
<1>4. StoreTypeOK'
  <2>1. scans \in [Scans -> ScanRow]
    BY DEF StoreInv, StoreTypeOK, ScanRow
  <2>2. [scans[s] EXCEPT !.status = "completed", !.snapshot = id] \in ScanRow
    BY <1>1, <2>1, ScanRowUpdate
  <2>3. scans' \in [Scans -> ScanRow]
    BY <1>2, <2>1, <2>2
  <2> QED BY <1>1, <1>2, <2>3 DEF StoreInv, StoreTypeOK, ScanRow, importVars, opVars
<1>5. /\ scans'[s].status = "completed" /\ scans'[s].snapshot = id
      /\ \A t \in Scans : t # s => scans'[t] = scans[t]
  BY <1>2 DEF StoreInv, StoreTypeOK
<1>6. RowsOK'
  <2>1. \A r \in RowsOf(snapshots) : r.scan \in Scans
    BY RowTyped DEF StoreInv, StoreTypeOK, SnapshotRow
  <2> QED BY <1>2, <1>5, <2>1 DEF StoreInv, GraphInv, RowsOK
<1>7. ScansOK'
  BY <1>2, <1>3, <1>5 DEF StoreInv, GraphInv, ScansOK, Ids
<1>8. SuccessfulOK' /\ CacheOK'
  BY <1>2, <1>3, <1>5 DEF StoreInv, GraphInv, SuccessfulOK, CurrentOfScan, CacheOK, Ids
<1>9. HeldBuildOK'
  BY <1>2, StoreAssumption DEF HeldBuildOK, Holds
<1>10. ImportInv'
  BY <1>2, ImportKept, StoreAssumption DEF StoreInv, Ids
<1> QED BY <1>4, <1>6, <1>7, <1>8, <1>9, <1>10 DEF StoreInv, GraphInv

\* Every step of a scan keeps the invariant.
LEMMA ScanNextKeeps ==
    ASSUME StoreInv, ScanNext
    PROVE  StoreInv'
<1> SUFFICES ASSUME NEW s \in Scans,
                    \/ \E content \in Contents : StartScan(s, content)
                    \/ DecideScan(s) \/ FinishScan(s) \/ RecoverScan(s)
                    \/ CachedScan(s) \/ FailScan(s)
             PROVE  StoreInv'
  BY DEF ScanNext
<1>1. CASE FinishScan(s)
  BY <1>1, CompletedScanKeeps DEF FinishScan, Release
<1>2. CASE RecoverScan(s)
  BY <1>2, CompletedScanKeeps DEF RecoverScan, Free
<1> QED
  BY <1>1, <1>2, StartScanKeeps, DecideScanKeeps, CachedScanKeeps, FailScanKeeps

-----------------------------------------------------------------------------
(***************************************************************************)
(* Builds.                                                                 *)
(***************************************************************************)

\* A snapshot to build on is one of the scan's.
LEMMA SelectionOK ==
    ASSUME snapshots \in Seq(SnapshotRow), RowsOK, ScansOK, NEW s \in Scans,
           scans[s].status = "completed"
    PROVE  /\ Selection(s) \in Ids
           /\ Base(Selection(s)) = scans[s].snapshot
<1>1. CASE Latest(s) = NoSnapshot
  BY <1>1 DEF Selection, ScansOK
<1>2. CASE Latest(s) # NoSnapshot
  <2>1. PICK r \in RowsOf(snapshots) : r.scan = s /\ r.id = Latest(s)
    BY <1>2, LatestRow
  <2>2. Latest(s) \in Ids
    BY <2>1, IdsOfRows
  <2>3. Base(Latest(s)) = scans[s].snapshot
    BY <2>1 DEF RowsOK
  <2> QED BY <1>2, <2>2, <2>3 DEF Selection
<1> QED BY <1>1, <1>2

\* The identities in the store are sequences of layers.
LEMMA IdsTyped ==
    ASSUME snapshots \in Seq(SnapshotRow)
    PROVE  Ids \subseteq Snapshot
BY IdsOfRows, RowTyped

\* start_build_attempt: the selected base stands on the successful scan.
LEMMA StartBuildKeeps ==
    ASSUME StoreInv, NEW b \in Builds, NEW safe \in SafeBases, StartBuild(b, safe)
    PROVE  StoreInv'
<1> DEFINE base == IF safe THEN scans[successful].snapshot ELSE Selection(successful)
           new == [status |-> "staging", scan |-> successful, base |-> base]
<1>1. /\ successful # NoOne
      /\ builds' = [builds EXCEPT ![b] = new]
      /\ writer' = b
      /\ UNCHANGED <<snapshots, current, successful, scanVars, importVars, opVars,
                     crashes>>
  BY DEF StartBuild
<1>2. successful \in Scans /\ scans[successful].status = "completed"
  BY <1>1 DEF StoreInv, StoreTypeOK, GraphInv, SuccessfulOK
<1>3. snapshots \in Seq(SnapshotRow) /\ RowsOK /\ ScansOK
  BY DEF StoreInv, StoreTypeOK, SnapshotRow, GraphInv
<1>4. base \in Ids /\ Base(base) = scans[successful].snapshot
  <2>1. /\ scans[successful].snapshot \in Ids
        /\ Base(scans[successful].snapshot) = scans[successful].snapshot
    BY <1>2, <1>3 DEF ScansOK
  <2>2. /\ Selection(successful) \in Ids
        /\ Base(Selection(successful)) = scans[successful].snapshot
    BY <1>2, <1>3, SelectionOK
  <2> QED BY <2>1, <2>2
<1>5. base \in Snapshot
  BY <1>3, <1>4, IdsTyped
<1>6. new \in BuildRow
  BY <1>2, <1>5 DEF BuildRow
<1>7. new.scan = successful /\ new.base = base
  OBVIOUS
<1> HIDE DEF new, base
<1>8. builds' \in [Builds -> BuildRow] /\ builds'[b] = new
  BY <1>1, <1>6 DEF StoreInv, StoreTypeOK, BuildRow
<1>9. StoreTypeOK'
  BY <1>1, <1>8 DEF StoreInv, StoreTypeOK, BuildRow, scanVars, importVars, opVars
<1>10. RowsOK' /\ ScansOK'
  BY <1>1, <1>3 DEF RowsOK, ScansOK, Ids, scanVars
<1>11. SuccessfulOK' /\ CacheOK'
  BY <1>1 DEF StoreInv, GraphInv, SuccessfulOK, CurrentOfScan, CacheOK, Ids, scanVars
<1>12. HeldBuildOK'
  BY <1>1, <1>4, <1>7, <1>8 DEF HeldBuildOK, Holds, Ids, scanVars
<1>13. ImportInv'
  BY <1>1, ImportKept, StoreAssumption DEF StoreInv, Ids
<1> QED BY <1>9, <1>10, <1>11, <1>12, <1>13 DEF StoreInv, GraphInv

\* A build ends without a snapshot.
LEMMA EndBuildKeeps ==
    ASSUME StoreInv, NEW b \in Builds, FailBuild(b) \/ AbortBuild(b)
    PROVE  StoreInv'
<1>1. /\ writer' = NoOne
      /\ UNCHANGED <<snapshots, current, successful, scanVars, importVars, opVars,
                     crashes>>
      /\ \/ UNCHANGED builds
         \/ builds' = [builds EXCEPT ![b].status = "failed"]
  BY DEF FailBuild, AbortBuild, Release
<1>2. StoreTypeOK'
  <2>1. builds \in [Builds -> BuildRow]
    BY DEF StoreInv, StoreTypeOK, BuildRow
  <2>2. [builds[b] EXCEPT !.status = "failed"] \in BuildRow
    BY <2>1 DEF BuildRow
  <2>3. builds' \in [Builds -> BuildRow]
    BY <1>1, <2>1, <2>2
  <2> QED
    BY <1>1, <2>3 DEF StoreInv, StoreTypeOK, BuildRow, scanVars, importVars, opVars
<1>3. GraphInv'
  <2>1. UNCHANGED scans /\ UNCHANGED cache /\ writer' \notin Builds
    BY <1>1, StoreAssumption DEF scanVars
  <2>2. \A t \in Scans : scans'[t].status = "staging" => scans'[t].content \in Contents
    BY <2>1 DEF StoreInv, GraphInv, ScansOK
  <2> QED BY <1>1, <2>1, <2>2, ScanUpdated DEF StoreInv
<1>4. ImportInv'
  BY <1>1, ImportKept, StoreAssumption DEF StoreInv, Ids
<1> QED BY <1>2, <1>3, <1>4 DEF StoreInv

\* finish_build_attempt: the build layer goes on a snapshot of the same scan.
LEMMA FinishBuildKeeps ==
    ASSUME StoreInv, NEW b \in Builds, FinishBuild(b)
    PROVE  StoreInv'
<1> DEFINE s == builds[b].scan
           latest == Latest(s)
           parent == IF SessionsOf(latest) # {} THEN latest ELSE builds[b].base
           l == buildLayer(b)
           id == Append(parent, l)
<1>1. /\ Holds(b) /\ latest # NoSnapshot
      /\ snapshots' = Created(id, s)
      /\ builds' = [builds EXCEPT ![b].status = "completed"]
      /\ current' = id
      /\ writer' = NoOne
      /\ UNCHANGED <<successful, scanVars, importVars, opVars, crashes>>
  BY DEF FinishBuild, Release
<1>2. /\ s = successful /\ successful # NoOne /\ s \in Scans
      /\ scans[s].status = "completed"
      /\ builds[b].base \in Ids /\ Base(builds[b].base) = scans[s].snapshot
  BY <1>1 DEF StoreInv, StoreTypeOK, GraphInv, HeldBuildOK, SuccessfulOK
<1>3. snapshots \in Seq(SnapshotRow) /\ RowsOK
  BY DEF StoreInv, StoreTypeOK, SnapshotRow, GraphInv
<1>4. latest \in Ids /\ Base(latest) = scans[s].snapshot
  <2>1. PICK r \in RowsOf(snapshots) : r.scan = s /\ r.id = latest
    BY <1>1, <1>3, LatestRow
  <2> QED BY <1>3, <2>1, IdsOfRows DEF RowsOK
<1>5. parent \in Ids /\ Base(parent) = scans[s].snapshot
  BY <1>2, <1>4
<1>6. parent \in Snapshot
  BY <1>3, <1>5, IdsTyped
<1> HIDE DEF parent, latest
<1>7. l \in LayerSet /\ l.kind = "build"
  BY DEF LayerSet, buildLayer
<1>8. id \in Snapshot /\ id # NoSnapshot
  BY <1>6, <1>7, AppendProperties DEF Snapshot, NoSnapshot
<1>9. Base(id) = scans[s].snapshot
  BY <1>5, <1>6, <1>7, BaseOfAppend DEF Snapshot
<1>10. SessionsOf(id) = SessionsOf(parent)
  <2>1. Layers(id) = Layers(parent) \cup {l}
    BY <1>6, <1>7, LayersOfAppend
  <2>2. \A x \in Sessions : sessionLayer(x) # l
    BY <1>7 DEF sessionLayer
  <2> QED BY <2>1, <2>2 DEF SessionsOf
<1> HIDE DEF id, l, s
<1>11. UNCHANGED scans /\ UNCHANGED cache /\ UNCHANGED decided
  BY <1>1 DEF scanVars
<1>12. RowsOK' /\ Ids' = Ids \cup {id} /\ snapshots' \in Seq(SnapshotRow)
  BY <1>1, <1>2, <1>3, <1>8, <1>9, <1>11, RowCreated
<1>13. StoreTypeOK'
  <2>1. builds \in [Builds -> BuildRow]
    BY DEF StoreInv, StoreTypeOK, BuildRow
  <2>2. [builds[b] EXCEPT !.status = "completed"] \in BuildRow
    BY <2>1 DEF BuildRow
  <2>3. builds' \in [Builds -> BuildRow]
    BY <1>1, <2>1, <2>2
  <2> QED
    BY <1>1, <1>8, <1>11, <1>12, <2>3
       DEF StoreInv, StoreTypeOK, BuildRow, SnapshotRow, importVars, opVars
<1>14. ScansOK' /\ CacheOK'
  BY <1>11, <1>12 DEF StoreInv, GraphInv, ScansOK, CacheOK
<1>15. SuccessfulOK'
  BY <1>1, <1>2, <1>9, <1>11 DEF SuccessfulOK, CurrentOfScan
<1>16. HeldBuildOK'
  BY <1>1, StoreAssumption DEF HeldBuildOK, Holds
<1>17. ImportInv'
  <2>1. \A x \in SessionsOf(id) : \E import \in imported : import.session = x
    BY <1>5, <1>10 DEF StoreInv, ImportInv, LayersImported
  <2> QED BY <1>1, <1>12, <2>1, ImportKept, StoreAssumption DEF StoreInv
<1> QED BY <1>12, <1>13, <1>14, <1>15, <1>16, <1>17 DEF StoreInv, GraphInv

\* Every step of a build keeps the invariant.
LEMMA BuildNextKeeps ==
    ASSUME StoreInv, BuildNext
    PROVE  StoreInv'
BY StartBuildKeeps, EndBuildKeeps, FinishBuildKeeps DEF BuildNext

-----------------------------------------------------------------------------
(***************************************************************************)
(* Crashes.                                                                *)
(***************************************************************************)
\* A crash releases the lock and touches no row.
LEMMA CrashKeeps ==
    ASSUME StoreInv, Crash
    PROVE  StoreInv'
<1>1. /\ crashes < MaxCrashes /\ crashes' = crashes + 1 /\ writer' = NoOne
      /\ UNCHANGED <<snapshots, current, successful, scanVars, builds, importVars,
                     opVars>>
  BY DEF Crash, Release
<1>2. StoreTypeOK'
  <2>1. crashes' \in 0..MaxCrashes
    BY <1>1, StoreAssumption DEF StoreInv, StoreTypeOK
  <2> QED BY <1>1, <2>1 DEF StoreInv, StoreTypeOK, scanVars, importVars, opVars
<1>3. GraphInv'
  BY <1>1, GraphKept, StoreAssumption DEF StoreInv, scanVars
<1>4. ImportInv'
  BY <1>1, ImportKept, StoreAssumption DEF StoreInv, Ids
<1> QED BY <1>2, <1>3, <1>4 DEF StoreInv

\* recover_interrupted_attempts ends what was left staging.
LEMMA RecoverInterruptedKeeps ==
    ASSUME StoreInv, RecoverInterrupted
    PROVE  StoreInv'
<1>1. /\ writer = NoOne
      /\ scans' = [s \in Scans |-> IF scans[s].status = "staging"
                                   THEN [scans[s] EXCEPT !.status = "cancelled"]
                                   ELSE scans[s]]
      /\ builds' = [b \in Builds |-> IF builds[b].status = "staging"
                                     THEN [builds[b] EXCEPT !.status = "cancelled"]
                                     ELSE builds[b]]
      /\ UNCHANGED <<snapshots, current, successful, cache, importVars, opVars,
                     decided, writer, crashes>>
  BY DEF RecoverInterrupted, Free
<1>2. scans' \in [Scans -> ScanRow]
  <2>1. ASSUME NEW r \in ScanRow PROVE [r EXCEPT !.status = "cancelled"] \in ScanRow
    BY DEF ScanRow
  <2>2. scans \in [Scans -> ScanRow]
    BY DEF StoreInv, StoreTypeOK, ScanRow
  <2> QED BY <1>1, <2>1, <2>2
<1>3. builds' \in [Builds -> BuildRow]
  <2>1. ASSUME NEW r \in BuildRow PROVE [r EXCEPT !.status = "cancelled"] \in BuildRow
    BY DEF BuildRow
  <2>2. builds \in [Builds -> BuildRow]
    BY DEF StoreInv, StoreTypeOK, BuildRow
  <2> QED BY <1>1, <2>1, <2>2
<1>4. StoreTypeOK'
  BY <1>1, <1>2, <1>3
     DEF StoreInv, StoreTypeOK, ScanRow, BuildRow, importVars, opVars
<1>5. GraphInv'
  <2>1. \A t \in Scans : /\ scans[t].status = "staging" => scans'[t].status = "cancelled"
                         /\ scans[t].status # "staging" => scans'[t] = scans[t]
    <3>1. ASSUME NEW t \in Scans
          PROVE  [scans[t] EXCEPT !.status = "cancelled"].status = "cancelled"
      BY DEF StoreInv, StoreTypeOK
    <3> QED BY <1>1, <3>1
  <2> QED BY <1>1, <2>1, ScanUpdated, StoreAssumption DEF StoreInv
<1>6. ImportInv'
  BY <1>1, ImportKept DEF StoreInv, Ids
<1> QED BY <1>4, <1>5, <1>6 DEF StoreInv

-----------------------------------------------------------------------------
(***************************************************************************)
(* Imports.                                                                *)
(***************************************************************************)

\* Completing an import: its snapshot stands on the scan its parent stands on.
LEMMA CompleteGraph ==
    ASSUME StoreInv, NEW import \in Import, import.parent \in Ids, Complete(import),
           UNCHANGED <<successful, scans, builds, cache>>,
           writer' \notin Builds
    PROVE  /\ GraphInv'
           /\ Ids' = Ids \cup {Result(import)}
           /\ snapshots' \in Seq(SnapshotRow)
           /\ current' \in Snapshot
           /\ LayersImported'
<1> DEFINE parent == import.parent
           l == sessionLayer(import.session)
           id == Result(import)
           s == ScanOf(parent)
<1>1. /\ snapshots' = Created(id, s)
      /\ imported' = imported \cup {import}
      /\ current' = IF current = parent THEN id ELSE current
  BY DEF Complete
<1>2. snapshots \in Seq(SnapshotRow) /\ RowsOK
  BY DEF StoreInv, StoreTypeOK, SnapshotRow, GraphInv
<1>3. /\ s \in Scans /\ scans[s].status = "completed"
      /\ Base(parent) = scans[s].snapshot
  <2>1. PICK r \in RowsOf(snapshots) : r.id = parent /\ r.scan = s /\ r \in SnapshotRow
    BY <1>2, ScanOfRow
  <2> QED BY <1>2, <2>1, RowTyped DEF RowsOK
<1>4. parent \in Snapshot /\ import.session \in Sessions
  BY DEF Import
<1>5. l \in LayerSet /\ l.kind = "session" /\ l.of = import.session
  BY <1>4 DEF LayerSet, sessionLayer
<1>6. id = Append(parent, l)
  BY DEF Result
<1> HIDE DEF id, l, s
<1>7. id \in Snapshot /\ id # NoSnapshot
  BY <1>4, <1>5, <1>6, AppendProperties DEF Snapshot, NoSnapshot
<1>8. Base(id) = Base(parent)
  BY <1>4, <1>5, <1>6, BaseOfAppend DEF Snapshot
<1>9. RowsOK' /\ Ids' = Ids \cup {id} /\ snapshots' \in Seq(SnapshotRow)
  <2>1. scans'[s].status = "completed" /\ Base(id) = scans'[s].snapshot
    BY <1>3, <1>8
  <2> QED BY <1>1, <1>2, <1>3, <1>7, <2>1, RowCreated
<1>10. current' \in Snapshot
  BY <1>1, <1>7 DEF StoreInv, StoreTypeOK
<1>11. ScansOK' /\ CacheOK'
  BY <1>9 DEF StoreInv, GraphInv, ScansOK, CacheOK
<1>12. SuccessfulOK'
  BY <1>1, <1>8 DEF StoreInv, GraphInv, SuccessfulOK, CurrentOfScan
<1>13. HeldBuildOK'
  BY DEF HeldBuildOK, Holds
<1>14. LayersImported'
  <2>1. SessionsOf(id) \subseteq SessionsOf(parent) \cup {import.session}
    <3>1. Layers(id) = Layers(parent) \cup {l}
      BY <1>4, <1>5, <1>6, LayersOfAppend
    <3>2. \A x \in Sessions : sessionLayer(x) = l => x = import.session
      BY <1>5 DEF sessionLayer
    <3> QED BY <3>1, <3>2 DEF SessionsOf
  <2>2. \A i \in Ids : \A x \in SessionsOf(i) : \E old \in imported : old.session = x
    BY DEF StoreInv, ImportInv, LayersImported
  <2>3. ASSUME NEW i \in Ids', NEW x \in SessionsOf(i)
        PROVE  \E old \in imported' : old.session = x
    BY <1>1, <1>9, <2>1, <2>2, <2>3
  <2> QED BY <2>3 DEF LayersImported, SessionsOf
<1> QED BY <1>9, <1>10, <1>11, <1>12, <1>13, <1>14 DEF GraphInv, id

\* An import completes, at once or by one of its operations.
LEMMA CompleteKeeps ==
    ASSUME StoreInv, NEW import \in Import, import.parent \in Ids, Complete(import),
           UNCHANGED <<successful, scanVars, builds, input, writer, crashes>>,
           writer \notin Builds,
           sessions' \in [Sessions -> Snapshot],
           \A other \in staged \cup imported \cup {import} :
               sessions'[other.session] # NoSnapshot,
           \/ UNCHANGED phase
           \/ \E o \in Ops, p \in {"promoted", "ended"} :
                  /\ input[o] = import /\ phase[o] # "new"
                  /\ phase' = [phase EXCEPT ![o] = p],
           \A o \in Ops : Holds(o) => phase'[o] \notin {"staged", "decided"}
    PROVE  StoreInv'
<1>1. /\ imported' = imported \cup {import}
      /\ staged' = staged \ {import}
      /\ owners' = owners \ OwnersOf(import)
  BY DEF Complete
<1>2. UNCHANGED scans /\ UNCHANGED cache /\ UNCHANGED decided
  BY DEF scanVars
<1>3. /\ GraphInv'
      /\ Ids' = Ids \cup {Result(import)}
      /\ snapshots' \in Seq(SnapshotRow)
      /\ current' \in Snapshot
      /\ LayersImported'
  BY <1>2, CompleteGraph
<1>4. /\ phase' \in [Ops -> Phases]
      /\ \A o \in Ops : phase'[o] = phase[o] \/ (/\ phase'[o] \in {"promoted", "ended"}
                                                 /\ phase[o] # "new"
                                                 /\ input[o] = import)
  BY DEF StoreInv, StoreTypeOK, Phases
<1>5. StoreTypeOK'
  BY <1>1, <1>2, <1>3, <1>4 DEF StoreInv, StoreTypeOK, SnapshotRow
<1>6. InputsOK'
  BY <1>3, <1>4 DEF StoreInv, ImportInv, InputsOK
<1>7. OwnersOK'
  BY <1>1, <1>4 DEF StoreInv, StoreTypeOK, ImportInv, OwnersOK, OwnersOf
<1>8. OwnershipConsistent'
  BY <1>1 DEF StoreInv, ImportInv, OwnershipConsistent, OwnersOf
<1>9. HeldImportOK'
  BY DEF HeldImportOK, Holds
<1>10. DecidedStageKept'
  BY <1>1, <1>4 DEF StoreInv, ImportInv, DecidedStageKept, Owner, OwnersOf
<1>11. SessionsStored'
  BY <1>1 DEF SessionsStored
<1> QED
  BY <1>3, <1>5, <1>6, <1>7, <1>8, <1>9, <1>10, <1>11 DEF StoreInv, ImportInv

\* An owner leaves.
LEMMA ReleasedKeeps ==
    ASSUME StoreInv, NEW o \in Ops, phase[o] = "staged",
           Owner(input[o], o) \in owners,
           Released(input[o], o),
           phase' = [phase EXCEPT ![o] = "ended"],
           writer' = NoOne,
           UNCHANGED <<snapshots, current, successful, scanVars, builds, imported,
                       input, crashes>>
    PROVE  StoreInv'
<1> DEFINE import == input[o]
           last == OwnersOf(import) = {Owner(import, o)}
           needed == \E other \in (staged \cup imported) \ {import} :
                         other.session = import.session
<1>1. /\ owners' = owners \ {Owner(import, o)}
      /\ staged' = IF last THEN staged \ {import} ELSE staged
      /\ sessions' = IF last /\ ~needed
                     THEN [sessions EXCEPT ![import.session] = NoSnapshot]
                     ELSE sessions
  BY DEF Released
<1>2. /\ import \in staged /\ import \in Import /\ import \notin imported
      /\ Owner(import, o) \in OwnersOf(import)
  BY DEF StoreInv, StoreTypeOK, ImportInv, OwnershipConsistent, OwnersOf, Owner
<1>3. /\ Owner(import, o).op = o /\ Owner(import, o).import = import
      /\ \A w \in owners : w.op = o => w = Owner(import, o)
  BY DEF StoreInv, ImportInv, OwnershipConsistent, Owner
<1>4. ASSUME last, NEW w \in owners, w.import = import
      PROVE  w = Owner(import, o)
  BY <1>4 DEF OwnersOf
<1>5. ASSUME ~last
      PROVE  \E w \in owners \ {Owner(import, o)} : w.import = import
  <2>1. PICK w \in OwnersOf(import) : w # Owner(import, o)
    BY <1>2, <1>5
  <2> QED BY <2>1 DEF OwnersOf
<1>6. sessions' \in [Sessions -> Snapshot]
  <2>1. NoSnapshot \in Snapshot
    BY DEF NoSnapshot, Snapshot
  <2>2. sessions \in [Sessions -> Snapshot]
    BY DEF StoreInv, StoreTypeOK
  <2> HIDE DEF needed, last, import
  <2> QED BY <1>1, <2>1, <2>2
<1>7. UNCHANGED scans /\ UNCHANGED cache /\ UNCHANGED decided
  BY DEF scanVars
<1>8. \A other \in staged' \cup imported : sessions'[other.session] # NoSnapshot
  <2> SUFFICES ASSUME NEW other \in staged' \cup imported
               PROVE  sessions'[other.session] # NoSnapshot
    OBVIOUS
  <2>1. other \in staged \cup imported /\ sessions[other.session] # NoSnapshot
    BY <1>1 DEF StoreInv, ImportInv, SessionsStored
  <2>2. CASE last /\ ~needed
    <3>1. other # import
      BY <1>1, <1>2, <2>2
    <3>2. other.session # import.session
      BY <2>1, <2>2, <3>1
    <3> QED BY <1>1, <2>1, <2>2, <3>2 DEF StoreInv, StoreTypeOK
  <2>3. CASE ~(last /\ ~needed)
    BY <1>1, <2>1, <2>3
  <2> QED BY <2>2, <2>3
<1> HIDE DEF import, last, needed
<1>9. StoreTypeOK'
  BY <1>1, <1>6, <1>7 DEF StoreInv, StoreTypeOK, Phases
<1>10. GraphInv'
  BY <1>7, GraphKept, StoreAssumption DEF StoreInv
<1>11. /\ phase'[o] = "ended"
       /\ \A q \in Ops : q # o => phase'[q] = phase[q]
  BY DEF StoreInv, StoreTypeOK
<1>12. InputsOK'
  BY <1>11 DEF StoreInv, ImportInv, InputsOK, Ids
<1>13. OwnersOK'
  BY <1>1, <1>3, <1>11 DEF StoreInv, StoreTypeOK, ImportInv, OwnersOK
<1>14. OwnershipConsistent'
  <2>1. \A w \in owners' : w.import \in staged'
    BY <1>1, <1>4 DEF StoreInv, ImportInv, OwnershipConsistent
  <2>2. ASSUME NEW i \in staged' PROVE OwnersOf(i)' # {}
    <3>1. CASE i = import
      BY <1>1, <1>5, <3>1 DEF OwnersOf
    <3>2. CASE i # import
      <4>1. PICK w \in owners : w.import = i
        BY <1>1 DEF StoreInv, ImportInv, OwnershipConsistent, OwnersOf
      <4>2. w \in owners'
        BY <1>1, <1>3, <3>2, <4>1
      <4> QED BY <4>1, <4>2 DEF OwnersOf
    <3> QED BY <3>1, <3>2
  <2>3. /\ \A v, w \in owners' : v.op = w.op => v = w
        /\ staged' \cap imported' = {}
    BY <1>1 DEF StoreInv, ImportInv, OwnershipConsistent
  <2> QED BY <2>1, <2>2, <2>3 DEF OwnershipConsistent, OwnersOf
<1>15. HeldImportOK'
  BY StoreAssumption DEF HeldImportOK, Holds
<1>16. DecidedStageKept'
  <2> SUFFICES ASSUME NEW q \in Ops, phase'[q] = "decided"
               PROVE  \/ input[q] \in imported
                      \/ input[q] \in staged' /\ Owner(input[q], q) \in owners'
    BY DEF DecidedStageKept, Owner
  <2>1. q # o /\ phase[q] = "decided"
    BY <1>11
  <2>2. CASE input[q] \in imported
    BY <2>2
  <2>3. CASE input[q] \in staged /\ Owner(input[q], q) \in owners
    <3>1. Owner(input[q], q) # Owner(import, o)
      BY <2>1 DEF Owner
    <3>2. Owner(input[q], q) \in owners'
      BY <1>1, <2>3, <3>1
    <3>3. last => input[q] # import
      BY <1>4, <2>3, <3>1 DEF Owner
    <3> QED BY <1>1, <2>3, <3>2, <3>3
  <2> QED BY <2>1, <2>2, <2>3 DEF StoreInv, ImportInv, DecidedStageKept
<1>17. LayersImported' /\ SessionsStored'
  BY <1>8 DEF StoreInv, ImportInv, LayersImported, SessionsOf, Ids, SessionsStored
<1> QED
  BY <1>9, <1>10, <1>12, <1>13, <1>14, <1>15, <1>16, <1>17 DEF StoreInv, ImportInv

\* A submitted input is an import on a snapshot that exists.
LEMMA InputTyped ==
    ASSUME StoreInv, NEW o \in Ops, phase[o] # "new"
    PROVE  /\ input[o] \in Import
           /\ input[o].parent \in Ids /\ input[o].parent # NoSnapshot
<1>1. input[o].parent \in Ids /\ input[o].session \in Sessions
  BY DEF StoreInv, ImportInv, InputsOK
<1>2. input[o] \in Import
  BY <1>1 DEF StoreInv, StoreTypeOK, Import
<1>3. \A id \in Ids : id # NoSnapshot
  BY IdsOfRows DEF StoreInv, GraphInv, RowsOK
<1> QED BY <1>1, <1>2, <1>3

\* A stored session keeps a base; an existing one keeps the base it had.
LEMMA StoreSessionTyped ==
    ASSUME StoreInv, NEW import \in Import, import.parent # NoSnapshot,
           StoreSession(import)
    PROVE  /\ sessions' \in [Sessions -> Snapshot]
           /\ \A other \in staged \cup imported \cup {import} :
                  sessions'[other.session] # NoSnapshot
<1>1. /\ sessions \in [Sessions -> Snapshot]
      /\ \A other \in staged \cup imported :
             other.session \in Sessions /\ sessions[other.session] # NoSnapshot
  BY DEF StoreInv, StoreTypeOK, ImportInv, SessionsStored, Import
<1>2. import.session \in Sessions /\ import.parent \in Snapshot
  BY DEF Import
<1> QED BY <1>1, <1>2 DEF StoreSession

\* A direct import completes in one transaction.
LEMMA ImportNowKeeps ==
    ASSUME StoreInv, NEW base \in Ids, NEW session \in Sessions,
           ImportNow([parent |-> base, session |-> session])
    PROVE  StoreInv'
<1> DEFINE import == [parent |-> base, session |-> session]
<1>1. base \in Snapshot /\ base # NoSnapshot
  <2>1. snapshots \in Seq(SnapshotRow) /\ RowsOK
    BY DEF StoreInv, StoreTypeOK, SnapshotRow, GraphInv
  <2> QED BY <2>1, IdsTyped, IdsOfRows DEF RowsOK
<1>2. import \in Import /\ import.parent = base /\ import.session = session
  BY <1>1 DEF Import
<1>3. /\ writer = NoOne
      /\ UNCHANGED <<successful, scanVars, builds, input, phase, writer, crashes>>
      /\ \/ StoreSession(import) /\ Complete(import)
         \/ import \in staged /\ Complete(import) /\ UNCHANGED sessions
         \/ import \in imported /\ ClearOwners(import) /\ UNCHANGED sessions
  BY DEF ImportNow, Free, opVars
<1> HIDE DEF import
<1>4. writer \notin Builds /\ writer \notin Ops
  BY <1>3, StoreAssumption
<1>5. \A o \in Ops : ~Holds(o)
  BY <1>4 DEF Holds
<1>6. CASE StoreSession(import) /\ Complete(import)
  <2>1. /\ sessions' \in [Sessions -> Snapshot]
        /\ \A other \in staged \cup imported \cup {import} :
               sessions'[other.session] # NoSnapshot
    BY <1>1, <1>2, <1>6, StoreSessionTyped
  <2> QED BY <1>2, <1>3, <1>4, <1>5, <1>6, <2>1, CompleteKeeps
<1>7. CASE import \in staged /\ Complete(import) /\ UNCHANGED sessions
  <2>1. /\ sessions' \in [Sessions -> Snapshot]
        /\ \A other \in staged \cup imported \cup {import} :
               sessions'[other.session] # NoSnapshot
    BY <1>7 DEF StoreInv, StoreTypeOK, ImportInv, SessionsStored
  <2> QED BY <1>2, <1>3, <1>4, <1>5, <1>7, <2>1, CompleteKeeps
<1>8. CASE import \in imported /\ ClearOwners(import) /\ UNCHANGED sessions
  <2>1. OwnersOf(import) = {}
    BY <1>8 DEF StoreInv, ImportInv, OwnershipConsistent, OwnersOf
  <2>2. UNCHANGED <<owners, snapshots, current, staged, imported>>
    BY <1>8, <2>1 DEF ClearOwners
  <2>3. StoreTypeOK'
    BY <1>3, <1>8, <2>2 DEF StoreInv, StoreTypeOK, scanVars
  <2>4. GraphInv'
    BY <1>3, <2>2, GraphKept DEF StoreInv, scanVars
  <2>5. ImportInv'
    BY <1>3, <1>8, <2>2, ImportKept DEF StoreInv, Ids, importVars, opVars
  <2> QED BY <2>3, <2>4, <2>5 DEF StoreInv
<1> QED BY <1>3, <1>6, <1>7, <1>8

\* Only the phase of an operation changes, and it does not come to own anything.
LEMMA PhaseKeeps ==
    ASSUME StoreInv, NEW o \in Ops, NEW p \in Phases, phase[o] # "new",
           phase' = [phase EXCEPT ![o] = p],
           UNCHANGED <<snapshots, current, successful, scanVars, builds, importVars,
                       input, crashes>>,
           writer' = writer \/ writer' = NoOne,
           \/ p = "ended" /\ phase[o] \notin {"staged", "decided"}
           \/ p = "decided" /\ phase[o] = "staged" /\ Holds(o)
    PROVE  StoreInv'
<1>1. /\ phase'[o] = p /\ \A q \in Ops : q # o => phase'[q] = phase[q]
      /\ phase' \in [Ops -> Phases]
  BY DEF StoreInv, StoreTypeOK
<1>2. /\ UNCHANGED <<scans, cache, decided>>
      /\ UNCHANGED <<sessions, staged, imported, owners>>
  BY DEF scanVars, importVars
<1>3. StoreTypeOK'
  BY <1>1, <1>2 DEF StoreInv, StoreTypeOK
<1>4. GraphInv'
  BY <1>2, GraphKept, StoreAssumption DEF StoreInv
<1>5. InputsOK'
  BY <1>1 DEF StoreInv, ImportInv, InputsOK, Ids
<1>6. OwnersOK'
  BY <1>1, <1>2 DEF StoreInv, StoreTypeOK, ImportInv, OwnersOK
<1>7. OwnershipConsistent' /\ SessionsStored'
  BY <1>2 DEF StoreInv, ImportInv, OwnershipConsistent, OwnersOf, SessionsStored
<1>8. HeldImportOK'
  BY <1>1, <1>2, StoreAssumption
     DEF StoreInv, ImportInv, HeldImportOK, Holds, Owner
<1>9. DecidedStageKept'
  BY <1>1, <1>2 DEF StoreInv, ImportInv, DecidedStageKept, HeldImportOK, Owner
<1>10. LayersImported'
  BY <1>2 DEF StoreInv, ImportInv, LayersImported, SessionsOf, Ids
<1> QED
  BY <1>3, <1>4, <1>5, <1>6, <1>7, <1>8, <1>9, <1>10 DEF StoreInv, ImportInv

\* A submitted import names a snapshot that exists.
LEMMA SubmitImportKeeps ==
    ASSUME StoreInv, NEW o \in Ops, NEW base \in Ids, NEW session \in Sessions,
           SubmitImport(o, base, session)
    PROVE  StoreInv'
<1> DEFINE import == [parent |-> base, session |-> session]
<1>1. /\ phase[o] = "new"
      /\ input' = [input EXCEPT ![o] = import]
      /\ phase' = [phase EXCEPT ![o] = "queued"]
      /\ UNCHANGED <<snapshots, current, successful, scanVars, builds, importVars,
                     writer, crashes>>
  BY DEF SubmitImport
<1>2. base \in Snapshot
  BY IdsTyped DEF StoreInv, StoreTypeOK, SnapshotRow
<1>3. /\ import \in [parent : Snapshot, session : Sessions \cup {NoOne}]
      /\ import.parent = base /\ import.session = session
  BY <1>2
<1> HIDE DEF import
<1>4. /\ phase'[o] = "queued" /\ input'[o] = import
      /\ \A q \in Ops : q # o => phase'[q] = phase[q] /\ input'[q] = input[q]
  BY <1>1 DEF StoreInv, StoreTypeOK
<1>5. /\ UNCHANGED <<scans, cache, decided>>
      /\ UNCHANGED <<sessions, staged, imported, owners>>
  BY <1>1 DEF scanVars, importVars
<1>6. StoreTypeOK'
  BY <1>1, <1>3, <1>5 DEF StoreInv, StoreTypeOK, Phases
<1>7. GraphInv'
  BY <1>1, <1>5, GraphKept DEF StoreInv
<1>8. InputsOK'
  BY <1>1, <1>3, <1>4 DEF StoreInv, ImportInv, InputsOK, Ids
<1>9. OwnersOK'
  BY <1>1, <1>4, <1>5 DEF StoreInv, StoreTypeOK, ImportInv, OwnersOK
<1>10. OwnershipConsistent' /\ SessionsStored'
  BY <1>5 DEF StoreInv, ImportInv, OwnershipConsistent, OwnersOf, SessionsStored
<1>11. HeldImportOK'
  BY <1>1, <1>4, <1>5 DEF StoreInv, ImportInv, HeldImportOK, Holds, Owner
<1>12. DecidedStageKept'
  BY <1>4, <1>5 DEF StoreInv, ImportInv, DecidedStageKept, Owner
<1>13. LayersImported'
  BY <1>1, <1>5 DEF StoreInv, ImportInv, LayersImported, SessionsOf, Ids
<1> QED
  BY <1>6, <1>7, <1>8, <1>9, <1>10, <1>11, <1>12, <1>13 DEF StoreInv, ImportInv

\* An import that is already complete leaves nothing to stage.
LEMMA PrepareNothingKeeps ==
    ASSUME StoreInv, NEW o \in Ops, PrepareNothing(o)
    PROVE  StoreInv'
<1>1. /\ phase[o] = "queued"
      /\ phase' = [phase EXCEPT ![o] = "ended"]
      /\ UNCHANGED <<successful, scanVars, builds, sessions, input, writer, crashes>>
      /\ \/ UNCHANGED <<snapshots, current, staged, imported, owners>>
         \/ input[o] \in imported /\ ClearOwners(input[o])
  BY DEF PrepareNothing
<1>2. UNCHANGED <<snapshots, current, staged, imported, owners>>
  <2>1. ASSUME input[o] \in imported PROVE OwnersOf(input[o]) = {}
    BY <2>1 DEF StoreInv, ImportInv, OwnershipConsistent, OwnersOf
  <2> QED BY <1>1, <2>1 DEF ClearOwners
<1>3. UNCHANGED <<snapshots, current, successful, scanVars, builds, importVars,
                  input, crashes>>
  BY <1>1, <1>2 DEF importVars
<1> QED BY <1>1, <1>3, PhaseKeeps DEF Phases

\* A prepared import is staged, its session stored, its operation an owner.
LEMMA PrepareKeeps ==
    ASSUME StoreInv, NEW o \in Ops, Prepare(o)
    PROVE  StoreInv'
<1> DEFINE import == input[o]
<1>1. /\ phase[o] = "queued"
      /\ import \notin imported \/ import \in staged
      /\ StoreSession(import)
      /\ staged' = staged \cup {import}
      /\ owners' = owners \cup {Owner(import, o)}
      /\ phase' = [phase EXCEPT ![o] = "staged"]
      /\ writer' = o
      /\ UNCHANGED <<snapshots, current, successful, scanVars, builds, imported,
                     input, crashes>>
  BY DEF Prepare, Known
<1>2. import \in Import /\ import.parent \in Ids /\ import.parent # NoSnapshot
  BY <1>1, InputTyped
<1> HIDE DEF import
<1>3. /\ sessions' \in [Sessions -> Snapshot]
      /\ \A other \in staged \cup imported \cup {import} :
             sessions'[other.session] # NoSnapshot
  BY <1>1, <1>2, StoreSessionTyped
<1>4. /\ phase'[o] = "staged" /\ \A q \in Ops : q # o => phase'[q] = phase[q]
      /\ phase' \in [Ops -> Phases]
  BY <1>1 DEF StoreInv, StoreTypeOK, Phases
<1>5. UNCHANGED <<scans, cache, decided>>
  BY <1>1 DEF scanVars
<1>6. Owner(import, o) \in [import : Import, op : Ops]
  BY <1>2 DEF Owner
<1>7. StoreTypeOK'
  BY <1>1, <1>2, <1>3, <1>4, <1>5, <1>6 DEF StoreInv, StoreTypeOK
<1>8. GraphInv'
  BY <1>1, <1>5, GraphKept, StoreAssumption DEF StoreInv
<1>9. InputsOK'
  BY <1>1, <1>4 DEF StoreInv, ImportInv, InputsOK, Ids
<1>10. \A w \in owners : w.op # o /\ w.op \in Ops
  BY <1>1 DEF StoreInv, StoreTypeOK, ImportInv, OwnersOK
<1>11. Owner(import, o).op = o /\ Owner(import, o).import = import
  BY DEF Owner
<1>12. OwnersOK'
  BY <1>1, <1>4, <1>10, <1>11 DEF StoreInv, ImportInv, OwnersOK, import
<1>13. OwnershipConsistent'
  <2>1. \A w \in owners' : w.import \in staged'
    BY <1>1, <1>11 DEF StoreInv, ImportInv, OwnershipConsistent
  <2>2. \A i \in staged' : \E w \in owners' : w.import = i
    BY <1>1, <1>11 DEF StoreInv, ImportInv, OwnershipConsistent, OwnersOf
  <2>3. \A v, w \in owners' : v.op = w.op => v = w
    BY <1>1, <1>10, <1>11 DEF StoreInv, ImportInv, OwnershipConsistent
  <2>4. staged' \cap imported' = {}
    BY <1>1 DEF StoreInv, ImportInv, OwnershipConsistent
  <2> QED BY <2>1, <2>2, <2>3, <2>4 DEF OwnershipConsistent, OwnersOf
<1>14. HeldImportOK'
  BY <1>1 DEF HeldImportOK, Holds, import, Owner
<1>15. DecidedStageKept'
  BY <1>1, <1>4 DEF StoreInv, ImportInv, DecidedStageKept, Owner
<1>16. LayersImported' /\ SessionsStored'
  BY <1>1, <1>3 DEF StoreInv, ImportInv, LayersImported, SessionsOf, Ids,
                    SessionsStored
<1> QED
  BY <1>7, <1>8, <1>9, <1>12, <1>13, <1>14, <1>15, <1>16 DEF StoreInv, ImportInv

\* A cancelled operation releases what it staged.
LEMMA CancelImportKeeps ==
    ASSUME StoreInv, NEW o \in Ops, CancelImport(o)
    PROVE  StoreInv'
<1>1. Owner(input[o], o) \in owners
  BY DEF CancelImport, StoreInv, ImportInv, HeldImportOK
<1> QED BY <1>1, ReleasedKeeps DEF CancelImport, Release

\* The cleanup of an abandoned operation releases what it staged.
LEMMA CleanupImportKeeps ==
    ASSUME StoreInv, NEW o \in Ops, CleanupImport(o)
    PROVE  StoreInv'
<1>1. CASE Owner(input[o], o) \in owners
  BY <1>1, ReleasedKeeps DEF CleanupImport, Free
<1>2. CASE Owner(input[o], o) \notin owners
  <2>1. /\ phase[o] = "staged" /\ writer' = writer /\ writer = NoOne
        /\ phase' = [phase EXCEPT ![o] = "ended"]
        /\ UNCHANGED <<snapshots, current, successful, scanVars, builds, input, crashes>>
        /\ UNCHANGED <<owners, staged, sessions, imported>>
    BY <1>2 DEF CleanupImport, Free
  <2>2. /\ phase'[o] = "ended" /\ \A q \in Ops : q # o => phase'[q] = phase[q]
        /\ phase' \in [Ops -> Phases]
    BY <2>1 DEF StoreInv, StoreTypeOK, Phases
  <2>3. UNCHANGED <<scans, cache, decided>>
    BY <2>1 DEF scanVars
  <2>4. StoreTypeOK'
    BY <2>1, <2>2, <2>3 DEF StoreInv, StoreTypeOK
  <2>5. GraphInv'
    BY <2>1, <2>3, GraphKept DEF StoreInv
  <2>6. InputsOK'
    BY <2>1, <2>2 DEF StoreInv, ImportInv, InputsOK, Ids
  <2>7. \A w \in owners : w.op # o
    <3>1. ASSUME NEW w \in owners, w.op = o PROVE FALSE
      <4>1. w.import = input[o] /\ w \in [import : Import, op : Ops]
        BY <3>1 DEF StoreInv, StoreTypeOK, ImportInv, OwnersOK
      <4>2. w = Owner(input[o], o)
        BY <3>1, <4>1 DEF Owner
      <4> QED BY <1>2, <4>2
    <3> QED BY <3>1
  <2>8. OwnersOK'
    BY <2>1, <2>2, <2>7 DEF StoreInv, StoreTypeOK, ImportInv, OwnersOK
  <2>9. OwnershipConsistent' /\ SessionsStored'
    BY <2>1 DEF StoreInv, ImportInv, OwnershipConsistent, OwnersOf, SessionsStored
  <2>10. HeldImportOK'
    BY <2>1, StoreAssumption DEF HeldImportOK, Holds
  <2>11. DecidedStageKept'
    BY <2>1, <2>2 DEF StoreInv, ImportInv, DecidedStageKept, Owner
  <2>12. LayersImported'
    BY <2>1 DEF StoreInv, ImportInv, LayersImported, SessionsOf, Ids
  <2> QED
    BY <2>4, <2>5, <2>6, <2>8, <2>9, <2>10, <2>11, <2>12 DEF StoreInv, ImportInv
<1> QED BY <1>1, <1>2

\* The owner that holds the lock completes its import.
LEMMA PromoteImportKeeps ==
    ASSUME StoreInv, NEW o \in Ops, PromoteImport(o)
    PROVE  StoreInv'
<1>1. /\ writer = o /\ phase[o] = "decided" /\ input[o] \in staged
      /\ Complete(input[o])
      /\ phase' = [phase EXCEPT ![o] = "promoted"]
      /\ UNCHANGED <<successful, scanVars, builds, sessions, input, writer, crashes>>
  BY DEF PromoteImport, Holds
<1>2. input[o] \in Import /\ input[o].parent \in Ids
  BY <1>1, InputTyped
<1>3. /\ sessions' \in [Sessions -> Snapshot]
      /\ \A other \in staged \cup imported \cup {input[o]} :
             sessions'[other.session] # NoSnapshot
  BY <1>1 DEF StoreInv, StoreTypeOK, ImportInv, SessionsStored
<1>4. writer \notin Builds
  BY <1>1, StoreAssumption
<1>5. \A q \in Ops : Holds(q) => phase'[q] \notin {"staged", "decided"}
  BY <1>1 DEF Holds, StoreInv, StoreTypeOK
<1> QED BY <1>1, <1>2, <1>3, <1>4, <1>5, CompleteKeeps

\* Recovery completes a staged import, or accepts one already complete.
LEMMA RecoverImportKeeps ==
    ASSUME StoreInv, NEW o \in Ops, RecoverImport(o)
    PROVE  StoreInv'
<1>1. /\ writer = NoOne /\ phase[o] \in {"decided", "promoted"}
      /\ input[o] \in staged \cup imported
      /\ phase' = [phase EXCEPT ![o] = "ended"]
      /\ UNCHANGED <<successful, scanVars, builds, sessions, input, writer, crashes>>
  BY DEF RecoverImport, Free, Recoverable, Known
<1>2. input[o] \in Import /\ input[o].parent \in Ids
  BY <1>1, InputTyped
<1>3. /\ sessions' \in [Sessions -> Snapshot]
      /\ \A other \in staged \cup imported \cup {input[o]} :
             sessions'[other.session] # NoSnapshot
  BY <1>1 DEF StoreInv, StoreTypeOK, ImportInv, SessionsStored
<1>4. writer \notin Builds /\ writer \notin Ops
  BY <1>1, StoreAssumption
<1>5. CASE input[o] \in staged
  <2>1. Complete(input[o])
    BY <1>5 DEF RecoverImport
  <2>2. \A q \in Ops : ~Holds(q)
    BY <1>4 DEF Holds
  <2> QED BY <1>1, <1>2, <1>3, <1>4, <2>1, <2>2, CompleteKeeps
<1>6. CASE input[o] \notin staged
  <2>1. input[o] \in imported /\ ClearOwners(input[o])
    BY <1>1, <1>6 DEF RecoverImport
  <2>2. \A w \in owners : w.import # input[o] /\ w.op # o
    BY <1>6 DEF StoreInv, ImportInv, OwnershipConsistent, OwnersOK
  <2>3. UNCHANGED <<owners, snapshots, current, staged, imported>>
    BY <2>1, <2>2 DEF ClearOwners, OwnersOf
  <2>4. /\ phase'[o] = "ended" /\ \A q \in Ops : q # o => phase'[q] = phase[q]
        /\ phase' \in [Ops -> Phases]
    BY <1>1 DEF StoreInv, StoreTypeOK, Phases
  <2>5. UNCHANGED <<scans, cache, decided>>
    BY <1>1 DEF scanVars
  <2>6. StoreTypeOK'
    BY <1>1, <2>3, <2>4, <2>5 DEF StoreInv, StoreTypeOK
  <2>7. GraphInv'
    BY <1>1, <2>3, <2>5, GraphKept DEF StoreInv
  <2>8. InputsOK'
    BY <1>1, <2>3, <2>4 DEF StoreInv, ImportInv, InputsOK, Ids
  <2>9. OwnersOK'
    BY <1>1, <2>2, <2>3, <2>4 DEF StoreInv, StoreTypeOK, ImportInv, OwnersOK
  <2>10. OwnershipConsistent' /\ SessionsStored'
    BY <1>1, <2>3 DEF StoreInv, ImportInv, OwnershipConsistent, OwnersOf,
                      SessionsStored
  <2>11. HeldImportOK'
    BY <1>1, <1>4 DEF HeldImportOK, Holds
  <2>12. DecidedStageKept'
    BY <1>1, <2>3, <2>4 DEF StoreInv, ImportInv, DecidedStageKept, Owner
  <2>13. LayersImported'
    BY <2>3 DEF StoreInv, ImportInv, LayersImported, SessionsOf, Ids
  <2> QED
    BY <2>6, <2>7, <2>8, <2>9, <2>10, <2>11, <2>12, <2>13 DEF StoreInv, ImportInv
<1> QED BY <1>5, <1>6

\* Every step of an import keeps the invariant.
LEMMA ImportNextKeeps ==
    ASSUME StoreInv, ImportNext
    PROVE  StoreInv'
<1>1. ASSUME NEW o \in Ops, DecideImport(o) PROVE StoreInv'
  BY <1>1, PhaseKeeps DEF DecideImport, Phases
<1>2. ASSUME NEW o \in Ops, FinishImport(o) PROVE StoreInv'
  BY <1>2, PhaseKeeps DEF FinishImport, Phases, Release
<1> QED
  BY <1>1, <1>2, ImportNowKeeps, SubmitImportKeeps, PrepareNothingKeeps,
     PrepareKeeps, CancelImportKeeps, CleanupImportKeeps, PromoteImportKeeps,
     RecoverImportKeeps DEF ImportNext

-----------------------------------------------------------------------------
\* The empty store satisfies the invariant.
LEMMA InitHolds ==
    ASSUME Init
    PROVE  StoreInv
<1> USE DEF Init
<1>1. NoSnapshot \in Snapshot /\ snapshots \in Seq([id : Snapshot, scan : Scans])
  BY DEF NoSnapshot, Snapshot
<1>2. NewScan \in ScanRow /\ NewScan.status = "new"
  BY <1>1 DEF NewScan, ScanRow
<1>3. NewBuild \in BuildRow
  BY <1>1 DEF NewBuild, BuildRow
<1> HIDE DEF NoSnapshot, Snapshot
<1>4. scans \in [Scans -> ScanRow] /\ builds \in [Builds -> BuildRow]
  BY <1>2, <1>3
<1>5. input \in [Ops -> [parent : Snapshot, session : Sessions \cup {NoOne}]]
  BY <1>1
<1>6. StoreTypeOK
  BY <1>1, <1>4, <1>5, StoreAssumption DEF StoreTypeOK, ScanRow, BuildRow, Phases
<1>7. RowsOf(snapshots) = {} /\ Ids = {}
  BY DEF RowsOf, Ids
<1>8. GraphInv
  BY <1>2, <1>7, StoreAssumption
     DEF GraphInv, RowsOK, ScansOK, SuccessfulOK, CurrentOfScan, CacheOK,
         HeldBuildOK, Holds
<1>9. ImportInv
  BY <1>7, StoreAssumption
     DEF ImportInv, InputsOK, OwnersOK, OwnershipConsistent, HeldImportOK,
         DecidedStageKept, LayersImported, SessionsStored, Holds
<1> QED BY <1>6, <1>8, <1>9 DEF StoreInv

\* A stuttering step keeps the invariant.
LEMMA StutterKeeps ==
    ASSUME StoreInv, UNCHANGED vars
    PROVE  StoreInv'
<1> USE DEF vars
<1>1. StoreTypeOK'
  BY DEF StoreInv, StoreTypeOK
<1>2. GraphInv'
  BY GraphKept DEF StoreInv
<1>3. ImportInv'
  BY ImportKept DEF StoreInv, Ids, importVars, opVars
<1> QED BY <1>1, <1>2, <1>3 DEF StoreInv

\* The invariant is inductive: every step of every writer keeps it.
THEOREM StoreInvariant == Spec => []StoreInv
<1>1. Init => StoreInv
  BY InitHolds
<1>2. StoreInv /\ [Next]_vars => StoreInv'
  BY ScanNextKeeps, BuildNextKeeps, ImportNextKeeps, CrashKeeps,
     RecoverInterruptedKeeps, StutterKeeps DEF Next
<1> QED BY <1>1, <1>2, PTL DEF Spec

\* Type correctness of the store, for any number of scans, builds and imports.
THEOREM StoreTypeCorrect == Spec => []StoreTypeOK
<1>1. StoreInv => StoreTypeOK
  BY DEF StoreInv
<1> QED BY <1>1, StoreInvariant, PTL

\* The check every opening of the store makes of its import rows never fails.
THEOREM OwnershipHolds == Spec => []OwnershipConsistent
<1>1. StoreInv => OwnershipConsistent
  BY DEF StoreInv, ImportInv
<1> QED BY <1>1, StoreInvariant, PTL

\* No other owner's release, completion or cleanup takes the stage of a
\* committed intent away.
THEOREM DecidedStageHolds == Spec => []DecidedStageKept
<1>1. StoreInv => DecidedStageKept
  BY DEF StoreInv, ImportInv
<1> QED BY <1>1, StoreInvariant, PTL

\* No session row that an import or a snapshot refers to is ever deleted.
THEOREM EvidenceHolds == Spec => []EvidenceRetained
<1>1. StoreInv => EvidenceRetained
  <2> SUFFICES ASSUME StoreInv PROVE EvidenceRetained
    OBVIOUS
  <2>1. \A import \in staged \cup imported : sessions[import.session] # NoSnapshot
    BY DEF StoreInv, ImportInv, SessionsStored
  <2>2. \A id \in Ids : \A s \in SessionsOf(id) : \E import \in imported : import.session = s
    BY DEF StoreInv, ImportInv, LayersImported
  <2> QED BY <2>1, <2>2 DEF EvidenceRetained
<1> QED BY <1>1, StoreInvariant, PTL

\* The current snapshot is always one of the scan that counts as successful.
THEOREM CurrentOfScanHolds == Spec => []CurrentOfScan
<1>1. StoreInv => CurrentOfScan
  BY DEF StoreInv, GraphInv, SuccessfulOK
<1> QED BY <1>1, StoreInvariant, PTL
-----------------------------------------------------------------------------
(***************************************************************************)
(* The order of scans.                                                     *)
(***************************************************************************)
Begun == { t \in Scans : scans[t].status # "new" }

\* The numbers of the scans that have begun are within their count.
NumbersOK == \A t \in Begun : scans[t].order \in 1..Cardinality(Begun)

\* The scan that holds the lock is the newest.
NewestHolds ==
    \A s \in Begun : Holds(s) => \A t \in Begun \ {s} : scans[t].order < scans[s].order

\* An identity has one row.
RowsUnique ==
    \A m, n \in DOMAIN snapshots : snapshots[m].id = snapshots[n].id => m = n

\* The snapshot that a scan began on was made by an older scan.
ParentsOlder ==
    \A s \in Begun :
        /\ Base(scans[s].parent) \in Ids \cup {NoSnapshot}
        /\ \A x \in Ids :
               x = Base(scans[s].parent) =>
                   ScanOf(x) \in Begun /\ scans[ScanOf(x)].order < scans[s].order

\* Without a successful scan nothing is current.
NothingCurrent == successful = NoOne => current = NoSnapshot

OrderInv == NumbersOK /\ NewestHolds /\ RowsUnique /\ ParentsOlder /\ NothingCurrent

\* The row of an identity is the one that ScanOf names.
LEMMA ScanOfUnique ==
    ASSUME RowsUnique, NEW x, NEW n \in DOMAIN snapshots, snapshots[n].id = x
    PROVE  ScanOf(x) = snapshots[n].scan
BY DEF RowsUnique, ScanOf

\* No scan has begun at first.
LEMMA OrderInit == Init => OrderInv
<1> SUFFICES ASSUME Init PROVE OrderInv
    OBVIOUS
<1>1. Begun = {} /\ DOMAIN snapshots = {}
    BY DEF Begun, Init, NewScan
<1> QED BY <1>1 DEF OrderInv, NumbersOK, NewestHolds, RowsUnique, ParentsOlder,
       NothingCurrent, Init

\* A step that begins no scan keeps the order: rows are only added, for new
\* identities, and no scan is given the lock.
LEMMA OrderKept ==
    ASSUME StoreInv, OrderInv, NEW id, NEW u,
           \A t \in Scans :
               /\ scans'[t].status # "new" <=> scans[t].status # "new"
               /\ scans'[t].order = scans[t].order /\ scans'[t].parent = scans[t].parent,
           snapshots' = snapshots \/ snapshots' = Created(id, u),
           id # NoSnapshot,
           writer' = writer \/ writer' \notin Scans,
           NothingCurrent'
    PROVE  OrderInv'
<1>1. Begun' = Begun /\ \A t \in Begun : scans'[t].order = scans[t].order
    BY DEF Begun
<1>2. NumbersOK'
    BY <1>1 DEF NumbersOK, OrderInv
<1>3. NewestHolds'
    BY <1>1 DEF NewestHolds, OrderInv, Holds, Begun
<1>4. snapshots \in Seq([id : Snapshot, scan : Scans])
    BY DEF StoreInv, StoreTypeOK
<1>5. /\ RowsUnique'
      /\ DOMAIN snapshots \subseteq DOMAIN snapshots'
      /\ \A n \in DOMAIN snapshots : snapshots'[n] = snapshots[n]
  <2>1. CASE snapshots' = snapshots
      BY <2>1 DEF RowsUnique, OrderInv
  <2>2. CASE id \notin Ids /\ snapshots' = Append(snapshots, [id |-> id, scan |-> u])
    <3> DEFINE k == Len(snapshots)
               row == [id |-> id, scan |-> u]
    <3>1. /\ k \in Nat /\ DOMAIN snapshots = 1..k /\ DOMAIN snapshots' = 1..(k + 1)
          /\ \A n \in 1..k : snapshots'[n] = snapshots[n]
          /\ snapshots'[k + 1] = row
        BY <1>4, <2>2
    <3>2. row.id = id
        OBVIOUS
    <3>3. \A n \in 1..k : snapshots'[n].id # snapshots'[k + 1].id
        BY <2>2, <3>1, <3>2 DEF Ids
    <3>4. \A n \in 1..(k + 1) : n \in 1..k \/ n = k + 1
        BY <3>1
    <3> HIDE DEF k, row
    <3>5. RowsUnique'
        BY <3>1, <3>3, <3>4 DEF RowsUnique, OrderInv
    <3> QED BY <3>1, <3>5
  <2> QED BY <2>1, <2>2 DEF Created
<1>6. \A x \in Ids : x \in Ids' /\ ScanOf(x)' = ScanOf(x)
  <2> TAKE x \in Ids
  <2>1. PICK n \in DOMAIN snapshots : snapshots[n].id = x
      BY DEF Ids
  <2>2. n \in DOMAIN snapshots' /\ snapshots'[n].id = x
      BY <1>5, <2>1
  <2>3. ScanOf(x) = snapshots[n].scan
      BY <2>1, ScanOfUnique DEF OrderInv
  <2>4. ScanOf(x)' = snapshots'[n].scan
      BY <1>5, <2>2 DEF RowsUnique, ScanOf
  <2> QED BY <1>5, <2>1, <2>2, <2>3, <2>4 DEF Ids
<1>7. NoSnapshot \notin Ids'
  <2>1. NoSnapshot \notin Ids
      BY IdsOfRows DEF StoreInv, GraphInv, RowsOK
  <2>2. CASE snapshots' = snapshots
      BY <2>1, <2>2 DEF Ids
  <2>3. CASE snapshots' = Append(snapshots, [id |-> id, scan |-> u])
    <3> DEFINE k == Len(snapshots)
    <3>1. /\ DOMAIN snapshots = 1..k /\ k \in Nat
          /\ DOMAIN snapshots' = 1..(k + 1)
          /\ \A n \in 1..k : snapshots'[n] = snapshots[n]
          /\ snapshots'[k + 1].id = id
        BY <1>4, <2>3
    <3>2. \A n \in 1..(k + 1) : n \in 1..k \/ n = k + 1
        BY <3>1
    <3> HIDE DEF k
    <3> QED BY <2>1, <3>1, <3>2 DEF Ids
  <2> QED BY <2>2, <2>3 DEF Created
<1>8. ParentsOlder'
  <2> SUFFICES ASSUME NEW s \in Begun'
               PROVE  /\ Base(scans'[s].parent) \in Ids' \cup {NoSnapshot}
                      /\ \A x \in Ids' :
                             x = Base(scans'[s].parent) =>
                                 /\ ScanOf(x)' \in Begun'
                                 /\ scans'[ScanOf(x)'].order < scans'[s].order
      BY DEF ParentsOlder, Base, Above
  <2>1. s \in Begun /\ scans'[s].parent = scans[s].parent
      BY <1>1 DEF Begun
  <2>2. Base(scans[s].parent) \in Ids \cup {NoSnapshot}
      BY <2>1 DEF OrderInv, ParentsOlder
  <2>3. ASSUME NEW x \in Ids', x = Base(scans[s].parent)
        PROVE  ScanOf(x)' \in Begun' /\ scans'[ScanOf(x)'].order < scans'[s].order
    <3>1. CASE x \in Ids
      <4>1. ScanOf(x) \in Begun /\ scans[ScanOf(x)].order < scans[s].order
          BY <2>1, <2>3, <3>1 DEF OrderInv, ParentsOlder
      <4> QED BY <1>1, <1>6, <2>1, <3>1, <4>1
    <3>2. CASE x = NoSnapshot
        BY <1>7, <2>3, <3>2
    <3> QED BY <2>2, <2>3, <3>1, <3>2
  <2> QED BY <1>6, <2>1, <2>2, <2>3
<1> QED BY <1>2, <1>3, <1>5, <1>8 DEF OrderInv

\* The scan of a snapshot that exists has begun.
LEMMA ScanOfBegun ==
    ASSUME StoreInv, NEW x \in Ids
    PROVE  ScanOf(x) \in Begun /\ x # NoSnapshot
<1>1. snapshots \in Seq(SnapshotRow) /\ RowsOK
    BY DEF StoreInv, StoreTypeOK, SnapshotRow, GraphInv
<1>2. PICK r \in RowsOf(snapshots) : r.id = x /\ r.scan = ScanOf(x) /\ r \in SnapshotRow
    BY <1>1, ScanOfRow
<1> QED BY <1>1, <1>2 DEF RowsOK, SnapshotRow, Begun

\* What is current stands on nothing, or on a snapshot that exists.
LEMMA CurrentBase ==
    ASSUME StoreInv, NothingCurrent
    PROVE  Base(current) \in Ids \cup {NoSnapshot}
<1>1. CASE successful = NoOne
  <2>1. current = <<>>
      BY <1>1 DEF NothingCurrent, NoSnapshot
  <2>2. <<>> \in Seq(LayerSet)
      OBVIOUS
  <2>3. Above(<<>>) = {}
      BY DEF Above
  <2>4. Base(<<>>) = <<>>
      BY <2>2, <2>3, FS_EmptySet DEF Base
  <2> QED BY <2>1, <2>4 DEF NoSnapshot
<1>2. CASE successful # NoOne
    BY <1>2 DEF StoreInv, StoreTypeOK, GraphInv, ScansOK, SuccessfulOK, CurrentOfScan
<1> QED BY <1>1, <1>2

\* start_scan: the new attempt has the highest number, and its parent is the
\* snapshot of a scan that is over.
LEMMA OrderStarts ==
    ASSUME StoreInv, OrderInv, NEW s \in Scans, NEW content \in Contents,
           StartScan(s, content)
    PROVE  OrderInv'
<1> DEFINE k == Cardinality(Begun)
           new == [status |-> "staging", parent |-> current, content |-> content,
                   snapshot |-> NoSnapshot, order |-> k + 1]
<1>1. /\ scans' = [scans EXCEPT ![s] = new] /\ scans[s].status = "new"
      /\ writer' = s
      /\ UNCHANGED <<snapshots, current, successful>>
    BY DEF StartScan, Begun
<1>2. IsFiniteSet(Begun) /\ s \notin Begun
    BY <1>1, StoreAssumption, FS_Subset DEF Begun
<1>3. k \in Nat
    BY <1>2, FS_CardinalityType
<1>4. /\ new.status = "staging" /\ new.order = k + 1 /\ new.parent = current
    OBVIOUS
<1>5. scans'[s] = new /\ \A t \in Scans \ {s} : scans'[t] = scans[t]
    BY <1>1 DEF StoreInv, StoreTypeOK
<1> HIDE DEF new
<1>6. Begun' = Begun \cup {s}
    BY <1>4, <1>5 DEF Begun
<1>7. Cardinality(Begun') = k + 1
    BY <1>2, <1>6, FS_AddElement
<1>8. \A t \in Begun : t \in Scans \ {s} /\ scans'[t] = scans[t] /\ scans[t].order \in 1..k
    BY <1>2, <1>5 DEF Begun, OrderInv, NumbersOK
<1> HIDE DEF k
<1>9. NumbersOK'
  <2>1. \A t \in Begun' : scans'[t].order \in 1..(k + 1)
      BY <1>3, <1>4, <1>5, <1>6, <1>8
  <2> QED BY <1>7, <2>1 DEF NumbersOK
<1>10. NewestHolds'
  <2>1. \A t \in Begun' \ {s} : scans'[t].order < scans'[s].order
      BY <1>3, <1>4, <1>5, <1>6, <1>8
  <2> QED BY <1>1, <2>1 DEF NewestHolds, Holds
<1>11. RowsUnique' /\ NothingCurrent'
    BY <1>1 DEF OrderInv, RowsUnique, NothingCurrent
<1>12. Ids' = Ids /\ \A x : ScanOf(x)' = ScanOf(x)
    BY <1>1 DEF Ids, ScanOf
<1>13. ParentsOlder'
  <2> SUFFICES ASSUME NEW t \in Begun'
               PROVE  /\ Base(scans'[t].parent) \in Ids \cup {NoSnapshot}
                      /\ \A x \in Ids :
                             x = Base(scans'[t].parent) =>
                                 /\ ScanOf(x) \in Begun'
                                 /\ scans'[ScanOf(x)].order < scans'[t].order
      BY <1>12 DEF ParentsOlder, Base, Above
  <2>1. \A x \in Ids : ScanOf(x) \in Begun
      BY ScanOfBegun
  <2>2. CASE t = s
    <3>1. Base(current) \in Ids \cup {NoSnapshot}
        BY CurrentBase DEF OrderInv
    <3>2. \A u \in Begun : scans'[u].order < scans'[s].order
        BY <1>3, <1>4, <1>5, <1>8
    <3> QED BY <1>4, <1>5, <1>6, <2>1, <2>2, <3>1, <3>2
  <2>3. CASE t \in Begun
    <3>1. scans'[t] = scans[t]
        BY <1>8, <2>3
    <3>2. /\ Base(scans[t].parent) \in Ids \cup {NoSnapshot}
          /\ \A x \in Ids : x = Base(scans[t].parent) =>
                 ScanOf(x) \in Begun /\ scans[ScanOf(x)].order < scans[t].order
        BY <2>3 DEF OrderInv, ParentsOlder
    <3> QED BY <1>6, <1>8, <3>1, <3>2
  <2> QED BY <1>6, <2>2, <2>3
<1> QED BY <1>9, <1>10, <1>11, <1>13 DEF OrderInv

\* The end of a scan leaves its number and its parent, and those of the others.
LEMMA ScanEnded ==
    ASSUME StoreInv, NEW s \in Scans, scans[s].status = "staging", NEW st, st # "new",
           NEW x,
           \/ scans' = [scans EXCEPT ![s].status = st]
           \/ scans' = [scans EXCEPT ![s].status = st, ![s].snapshot = x]
    PROVE  \A t \in Scans :
               /\ scans'[t].status # "new" <=> scans[t].status # "new"
               /\ scans'[t].order = scans[t].order /\ scans'[t].parent = scans[t].parent
<1> TAKE t \in Scans
<1>1. scans \in [Scans -> ScanRow]
    BY DEF StoreInv, StoreTypeOK, ScanRow
<1>2. CASE t = s
    BY <1>1, <1>2 DEF ScanRow
<1>3. CASE t # s
    BY <1>1, <1>3
<1> QED BY <1>2, <1>3

\* Every step of a scan keeps the order.
LEMMA OrderOfScans ==
    ASSUME StoreInv, OrderInv, ScanNext
    PROVE  OrderInv'
<1>1. PICK s \in Scans :
          \/ \E content \in Contents : StartScan(s, content)
          \/ DecideScan(s) \/ FinishScan(s) \/ RecoverScan(s) \/ CachedScan(s)
          \/ FailScan(s)
    BY DEF ScanNext
<1>2. NothingCurrent /\ s # NoOne /\ NoOne \notin Scans
    BY StoreAssumption DEF OrderInv
<1>3. PICK id : id = Append(scans[s].parent, scanLayer(scans[s].content))
    OBVIOUS
<1>4. id # NoSnapshot
  <2>1. scans[s].parent \in Seq(LayerSet)
      BY DEF StoreInv, StoreTypeOK, Snapshot
  <2> QED BY <1>3, <2>1 DEF NoSnapshot
<1>5. CASE \E content \in Contents : StartScan(s, content)
    BY <1>5, OrderStarts
<1>6. CASE DecideScan(s)
  <2>1. UNCHANGED <<snapshots, current, successful, scans, writer>>
      BY <1>6 DEF DecideScan
  <2>2. NothingCurrent'
      BY <1>2, <2>1 DEF NothingCurrent
  <2> QED BY <1>4, <2>1, <2>2, OrderKept
<1>7. CASE FinishScan(s) \/ RecoverScan(s)
  <2>1. /\ scans[s].status = "staging" /\ writer' = NoOne
        /\ snapshots' = Created(id, s)
        /\ scans' = [scans EXCEPT ![s].status = "completed", ![s].snapshot = id]
        /\ successful' = s \/ UNCHANGED <<current, successful>>
      BY <1>3, <1>7 DEF FinishScan, RecoverScan, CompletedScan, Release, Free
  <2>2. NothingCurrent'
      BY <1>2, <2>1 DEF NothingCurrent
  <2> QED BY <1>2, <1>4, <2>1, <2>2, ScanEnded, OrderKept
<1>8. CASE CachedScan(s)
  <2>1. PICK x : x = cache[scans[s].content]
      OBVIOUS
  <2>2. /\ scans[s].status = "staging" /\ writer' = NoOne
        /\ UNCHANGED snapshots
        /\ scans' = [scans EXCEPT ![s].status = "completed", ![s].snapshot = x]
        /\ successful' = s
      BY <1>8, <2>1 DEF CachedScan, Release
  <2>3. NothingCurrent'
      BY <1>2, <2>2 DEF NothingCurrent
  <2> QED BY <1>2, <1>4, <2>2, <2>3, ScanEnded, OrderKept
<1>9. CASE FailScan(s)
  <2>1. /\ scans[s].status = "staging" /\ writer' = NoOne
        /\ UNCHANGED <<snapshots, current, successful>>
        /\ scans' = [scans EXCEPT ![s].status = "cancelled"]
      BY <1>9 DEF FailScan, Release
  <2>2. NothingCurrent'
      BY <1>2, <2>1 DEF NothingCurrent
  <2> QED BY <1>2, <1>4, <2>1, <2>2, ScanEnded, OrderKept
<1> QED BY <1>1, <1>5, <1>6, <1>7, <1>8, <1>9

\* A step that leaves the scans alone and creates at most one snapshot keeps the
\* order, when something that was current is all that it replaces.
LEMMA OrderBystands ==
    ASSUME StoreInv, OrderInv, NEW id, id # NoSnapshot, NEW u,
           UNCHANGED <<scans, successful>>,
           snapshots' = snapshots \/ snapshots' = Created(id, u),
           writer' = writer \/ writer' \notin Scans,
           current' = current \/ successful # NoOne \/ current # NoSnapshot
    PROVE  OrderInv'
<1>1. NothingCurrent'
    BY DEF OrderInv, NothingCurrent
<1> QED BY <1>1, OrderKept

\* Every step of a build keeps the order.
LEMMA OrderOfBuilds ==
    ASSUME StoreInv, OrderInv, BuildNext
    PROVE  OrderInv'
<1>1. PICK b \in Builds :
          \/ \E safe \in SafeBases : StartBuild(b, safe)
          \/ FinishBuild(b) \/ AbortBuild(b) \/ FailBuild(b)
    BY DEF BuildNext
<1>2. b \notin Scans /\ NoOne \notin Scans
    BY StoreAssumption
<1>3. \E x : x # NoSnapshot
  <2>1. <<b>> # <<>>
      OBVIOUS
  <2> QED BY <2>1 DEF NoSnapshot
<1>4. CASE (\E safe \in SafeBases : StartBuild(b, safe)) \/ AbortBuild(b) \/ FailBuild(b)
  <2>1. /\ UNCHANGED <<snapshots, current, successful, scans>>
        /\ writer' = b \/ writer' = NoOne
      BY <1>4 DEF StartBuild, AbortBuild, FailBuild, Release, scanVars
  <2> QED BY <1>2, <1>3, <2>1, OrderBystands
<1>5. CASE FinishBuild(b)
  <2> DEFINE latest == Latest(builds[b].scan)
             parent == IF SessionsOf(latest) # {} THEN latest ELSE builds[b].base
  <2>1. /\ Holds(b) /\ snapshots' = Created(Append(parent, buildLayer(b)), builds[b].scan)
        /\ writer' = NoOne /\ UNCHANGED <<successful, scans>>
      BY <1>5 DEF FinishBuild, Release, scanVars
  <2>2. latest \in Snapshot
    <3>1. snapshots \in Seq(SnapshotRow)
        BY DEF StoreInv, StoreTypeOK, SnapshotRow
    <3>2. latest = NoSnapshot \/ \E r \in RowsOf(snapshots) : r.id = latest /\ r \in SnapshotRow
        BY <3>1, LatestRow
    <3>3. NoSnapshot \in Snapshot
        BY DEF NoSnapshot, Snapshot
    <3> HIDE DEF latest
    <3> QED BY <3>2, <3>3 DEF SnapshotRow
  <2>3. parent \in Seq(LayerSet)
      BY <2>2 DEF StoreInv, StoreTypeOK, Snapshot
  <2> HIDE DEF parent
  <2>4. Append(parent, buildLayer(b)) # NoSnapshot
    <3>1. buildLayer(b) \in LayerSet
        BY DEF LayerSet, buildLayer
    <3> QED BY <2>3, <3>1, AppendProperties DEF NoSnapshot
  <2>5. successful # NoOne
      BY <2>1 DEF StoreInv, GraphInv, HeldBuildOK
  <2>6. PICK id, u : id = Append(parent, buildLayer(b)) /\ u = builds[b].scan
      OBVIOUS
  <2> QED BY <1>2, <2>1, <2>4, <2>5, <2>6, OrderBystands
<1> QED BY <1>1, <1>4, <1>5

\* An import replaces what is current only when its parent, a snapshot, is.
LEMMA OrderCompletes ==
    ASSUME StoreInv, OrderInv, NEW import, import \in Import, import.parent \in Ids,
           Complete(import), UNCHANGED <<scans, successful, writer>>
    PROVE  OrderInv'
<1>1. PICK id, u : id = Result(import) /\ u = ScanOf(import.parent)
    OBVIOUS
<1>2. id # NoSnapshot
    BY <1>1 DEF Result, Import, Snapshot, NoSnapshot
<1>3. import.parent # NoSnapshot
    BY ScanOfBegun
<1>4. snapshots' = Created(id, u) /\ (current' = current \/ current # NoSnapshot)
    BY <1>1, <1>3 DEF Complete
<1> QED BY <1>2, <1>4, OrderBystands

\* Every step of an import keeps the order.
LEMMA OrderOfImports ==
    ASSUME StoreInv, OrderInv, ImportNext
    PROVE  OrderInv'
<1>1. NoOne \notin Scans /\ \A o \in Ops : o \notin Scans
    BY StoreAssumption
<1>2. \E x : x # NoSnapshot
  <2>1. <<NoOne>> # <<>>
      OBVIOUS
  <2> QED BY <2>1 DEF NoSnapshot
<1>3. ASSUME UNCHANGED <<scans, successful, snapshots, current>>,
             writer' = writer \/ writer' \notin Scans
      PROVE  OrderInv'
    BY <1>2, <1>3, OrderBystands
<1>4. ASSUME NEW base \in Ids, NEW session \in Sessions,
             ImportNow([parent |-> base, session |-> session])
      PROVE  OrderInv'
  <2> DEFINE import == [parent |-> base, session |-> session]
  <2>1. snapshots \in Seq(SnapshotRow)
      BY DEF StoreInv, StoreTypeOK, SnapshotRow
  <2>2. import \in Import /\ import.parent \in Ids
      BY <2>1, IdsTyped DEF Import
  <2>3. /\ UNCHANGED <<scans, successful, writer>>
        /\ Complete(import) \/ UNCHANGED <<snapshots, current>>
      BY <1>4 DEF ImportNow, ClearOwners, scanVars
  <2> HIDE DEF import
  <2> QED BY <1>3, <2>2, <2>3, OrderCompletes
<1>5. ASSUME NEW o \in Ops, PromoteImport(o) \/ RecoverImport(o) PROVE OrderInv'
  <2>1. /\ UNCHANGED <<scans, successful, writer>>
        /\ \/ input[o] \in staged \cup imported /\ phase[o] # "new" /\ Complete(input[o])
           \/ UNCHANGED <<snapshots, current>>
      BY <1>5 DEF PromoteImport, RecoverImport, Recoverable, Known, ClearOwners, scanVars
  <2>2. CASE UNCHANGED <<snapshots, current>>
      BY <1>3, <2>1, <2>2
  <2>3. CASE input[o] \in staged \cup imported /\ phase[o] # "new" /\ Complete(input[o])
    <3>1. input[o] \in Import /\ input[o].parent \in Ids
        BY <2>3, InputTyped
    <3> QED BY <2>1, <2>3, <3>1, OrderCompletes
  <2> QED BY <2>1, <2>2, <2>3
<1>6. ASSUME NEW base \in Ids, NEW session \in Sessions, NEW o \in Ops,
             SubmitImport(o, base, session)
      PROVE  OrderInv'
    BY <1>3, <1>6 DEF SubmitImport, scanVars
<1>7. ASSUME NEW o \in Ops,
             \/ PrepareNothing(o) \/ Prepare(o) \/ CancelImport(o)
             \/ CleanupImport(o) \/ DecideImport(o) \/ FinishImport(o)
      PROVE  OrderInv'
  <2>1. /\ UNCHANGED <<scans, successful, snapshots, current>>
        /\ writer' = writer \/ writer' = o \/ writer' = NoOne
      BY <1>7 DEF PrepareNothing, Prepare, CancelImport, CleanupImport, DecideImport,
         FinishImport, ClearOwners, Release, scanVars
  <2> QED BY <1>1, <1>3, <2>1
<1> QED BY <1>4, <1>5, <1>6, <1>7 DEF ImportNext

\* A crash and the recovery of interrupted attempts keep the order.
LEMMA OrderOfRecovery ==
    ASSUME StoreInv, OrderInv, Crash \/ RecoverInterrupted
    PROVE  OrderInv'
<1>1. PICK x : x # NoSnapshot
  <2>1. <<NoOne>> # <<>>
      OBVIOUS
  <2> QED BY <2>1 DEF NoSnapshot
<1>2. NoOne \notin Scans
    BY StoreAssumption
<1>3. CASE Crash
  <2>1. UNCHANGED <<scans, successful, snapshots, current>> /\ writer' = NoOne
      BY <1>3 DEF Crash, Release, scanVars
  <2> QED BY <1>1, <1>2, <2>1, OrderBystands
<1>4. CASE RecoverInterrupted
  <2>1. /\ UNCHANGED <<successful, snapshots, current, writer>>
        /\ scans' = [s \in Scans |-> IF scans[s].status = "staging"
                                     THEN [scans[s] EXCEPT !.status = "cancelled"]
                                     ELSE scans[s]]
      BY <1>4 DEF RecoverInterrupted
  <2>2. \A t \in Scans : scans[t] \in ScanRow
      BY DEF StoreInv, StoreTypeOK, ScanRow
  <2>3. \A t \in Scans :
            /\ scans'[t].status # "new" <=> scans[t].status # "new"
            /\ scans'[t].order = scans[t].order /\ scans'[t].parent = scans[t].parent
      BY <2>1, <2>2 DEF ScanRow
  <2>4. NothingCurrent'
      BY <2>1 DEF OrderInv, NothingCurrent
  <2> QED BY <1>1, <2>1, <2>3, <2>4, OrderKept
<1> QED BY <1>3, <1>4

\* The scans are numbered in the order of their starts, the one with the lock
\* is the newest, and the parent of a scan is older than the scan.
THEOREM OrderInvariant == Spec => []OrderInv
<1>1. StoreInv /\ OrderInv /\ [Next]_vars => OrderInv'
  <2>1. ASSUME StoreInv, OrderInv, UNCHANGED vars PROVE OrderInv'
    <3>1. UNCHANGED <<snapshots, current, successful, scans, writer>>
        BY <2>1 DEF vars
    <3>2. PICK x : x # NoSnapshot
      <4>1. <<NoOne>> # <<>>
          OBVIOUS
      <4> QED BY <4>1 DEF NoSnapshot
    <3> QED BY <2>1, <3>1, <3>2, OrderBystands
  <2> QED BY <2>1, OrderOfScans, OrderOfBuilds, OrderOfImports, OrderOfRecovery DEF Next
<1> QED BY <1>1, OrderInit, StoreInvariant, PTL DEF Spec

\* What NewerKept says of a step.
NewerStep ==
    successful # NoOne /\ successful' # successful
        => \/ scans[successful'].order > scans[successful].order
           \/ ScanOf(scans[successful].snapshot) # successful

\* A scan that becomes the successful one held the lock, so it is the newest,
\* or it found its parent current, and the scan of its parent is older.
LEMMA NewerIsKept ==
    ASSUME StoreInv, OrderInv, Next, successful # NoOne, successful' # successful
    PROVE  \/ scans[successful'].order > scans[successful].order
           \/ ScanOf(scans[successful].snapshot) # successful
<1>1. PICK s \in Scans : /\ FinishScan(s) \/ CachedScan(s) \/ RecoverScan(s)
                         /\ successful' = s
  <2>1. ASSUME BuildNext PROVE FALSE
      BY <2>1 DEF BuildNext, StartBuild, FinishBuild, AbortBuild, FailBuild
  <2>2. ASSUME ImportNext PROVE FALSE
      BY <2>2 DEF ImportNext, ImportNow, SubmitImport, PrepareNothing, Prepare,
         CancelImport, CleanupImport, DecideImport, PromoteImport, FinishImport,
         RecoverImport
  <2>3. ~Crash /\ ~RecoverInterrupted
      BY DEF Crash, RecoverInterrupted
  <2>4. ScanNext
      BY <2>1, <2>2, <2>3 DEF Next
  <2> QED BY <2>4 DEF ScanNext, StartScan, DecideScan, FinishScan, RecoverScan,
         CachedScan, FailScan, CompletedScan
<1>2. /\ scans[s].status = "staging" /\ s \in Begun
      /\ scans[successful].status = "completed" /\ successful \in Begun /\ s # successful
    BY <1>1 DEF FinishScan, CachedScan, RecoverScan, Begun, StoreInv, StoreTypeOK,
       GraphInv, SuccessfulOK
<1>3. \A t \in Begun : scans[t].order \in Nat
    BY DEF Begun, StoreInv, StoreTypeOK
<1>4. CASE Holds(s)
  <2>1. scans[successful].order < scans[s].order
      BY <1>2, <1>4 DEF OrderInv, NewestHolds
  <2> QED BY <1>1, <1>2, <1>3, <2>1
<1>5. CASE RecoverScan(s)
  <2>1. current = scans[s].parent
      BY <1>1, <1>5 DEF RecoverScan, CompletedScan
  <2>2. Base(current) = scans[successful].snapshot /\ scans[successful].snapshot \in Ids
      BY <1>2 DEF Begun, StoreInv, GraphInv, ScansOK, SuccessfulOK, CurrentOfScan
  <2>3. scans[ScanOf(scans[successful].snapshot)].order < scans[s].order
      BY <1>2, <2>1, <2>2 DEF OrderInv, ParentsOlder
  <2> QED BY <1>1, <1>2, <1>3, <2>3
<1> QED BY <1>1, <1>4, <1>5 DEF FinishScan, CachedScan

\* A scan is never replaced by an older one, unless the snapshot that it made
\* current was another scan's: recovery after a crash included.
THEOREM NewerStays == Spec => NewerKept
<1>1. StoreInv /\ OrderInv /\ [Next]_vars => [NewerStep]_vars
    BY NewerIsKept DEF NewerStep
<1>2. NewerKept <=> [][NewerStep]_vars
    BY DEF NewerKept, NewerStep
<1> QED BY <1>1, <1>2, StoreInvariant, OrderInvariant, PTL DEF Spec

=============================================================================
