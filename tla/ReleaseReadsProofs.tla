------------------------- MODULE ReleaseReadsProofs -------------------------
(***************************************************************************)
(* Theorems about the readers that see a release through more than one     *)
(* request or more than one row set: a paged walk lists one release, and a *)
(* comparison turns one selection into the other, while rings move on and  *)
(* the retention job works or dies anywhere.                               *)
(***************************************************************************)
EXTENDS ReleaseHistoryProofs, ReleaseReads

-----------------------------------------------------------------------------
(* What a request leaves behind.                                           *)

\* A retained release is read as it was made.
LEMMA MembersAreHeld ==
  ASSUME RetentionInv, NEW i \in Retained
  PROVE  i \in Made /\ Readable(i) /\ MembersOf(i) = held[i]
  <1>1. PICK r \in Ring : i \in Protected(r)
    BY DEF Retained
  <1>2. CanRebuild[i] /\ Rebuilt[i] = held[i] /\ held[i] \subseteq packages
    BY <1>1, ProtectedAreExact DEF RetainedIntact
  <1>3. i \in Made /\ i # 0
    <2>1. made \in Nat /\ i \in Made
      BY <1>1, StoreAssumption DEF Protected, OfRing, RetentionInv, HistoryInv, Order, Types, TypeOK, TablesOK, Id0
    <2> QED
      BY <2>1 DEF Made
  <1>4. ASSUME IsHead(i) PROVE ringPackages[HeadRing(i)] = held[i]
    <2>1. HeadRing(i) \in Ring /\ ringHeads[HeadRing(i)] = i
      BY <1>4 DEF IsHead, HeadRing
    <2> QED
      BY <1>3, <2>1 DEF RetentionInv, HistoryInv, Order, LiveIsHead
  <1> QED
    BY <1>2, <1>3, <1>4 DEF Readable, MembersOf

\* What changes in the tables: rows and flags of releases that had neither.
LEMMA MaterialiseWrites ==
  ASSUME Types, NEW S \in SUBSET Made, \A i \in S : Readable(i), Materialise(S)
  PROVE  /\ UNCHANGED <<made, deltas, artifacts, ringHeads, ringPackages, held, pool, databases, pc, my, gc>>
         /\ \A i \in Id : /\ releases'[i].ring = releases[i].ring /\ releases'[i].seq = releases[i].seq
                          /\ releases'[i].parent = releases[i].parent
                          /\ releases[i].checkpoint => releases'[i].checkpoint
                          /\ \/ releasePackages'[i] = releasePackages[i] /\ releases'[i].checkpoint = releases[i].checkpoint
                             \/ /\ i \in S /\ ~releases[i].checkpoint /\ releases'[i].checkpoint
                                /\ CanRebuild[i] /\ releasePackages'[i] = Rebuilt[i] /\ Rebuilt[i] \subseteq Pkg
         /\ Types'
  <1> DEFINE fresh == {i \in S : ~IsHead(i) /\ ~releases[i].checkpoint}
  <1>1. /\ releasePackages' = [i \in Id |-> IF i \in fresh THEN Rebuilt[i] ELSE releasePackages[i]]
        /\ releases' = [i \in Id |-> IF i \in fresh THEN [releases[i] EXCEPT !.checkpoint = TRUE] ELSE releases[i]]
        /\ UNCHANGED <<made, deltas, artifacts, ringHeads, ringPackages, held, pool, databases, pc, my, gc>>
    BY DEF Materialise
  <1>2. /\ releases \in [Id -> Release] /\ releasePackages \in [Id -> SUBSET Pkg] /\ packages \subseteq Pkg
    BY DEF Types, TypeOK, TablesOK
  <1>3. \A i \in fresh : i \in S /\ ~releases[i].checkpoint /\ CanRebuild[i] /\ Rebuilt[i] \subseteq packages
    BY DEF Readable
  <1> HIDE DEF fresh
  <1>4. ASSUME NEW i \in Id
        PROVE  /\ releases'[i] \in Release
               /\ releases'[i].ring = releases[i].ring /\ releases'[i].seq = releases[i].seq
               /\ releases'[i].parent = releases[i].parent
               /\ releases[i].checkpoint => releases'[i].checkpoint
               /\ \/ releasePackages'[i] = releasePackages[i] /\ releases'[i].checkpoint = releases[i].checkpoint
                  \/ /\ i \in S /\ ~releases[i].checkpoint /\ releases'[i].checkpoint
                     /\ CanRebuild[i] /\ releasePackages'[i] = Rebuilt[i] /\ Rebuilt[i] \subseteq Pkg
    <2>1. CASE i \in fresh
      <3>1. releases'[i] = [releases[i] EXCEPT !.checkpoint = TRUE] /\ releasePackages'[i] = Rebuilt[i]
        BY <1>1, <2>1
      <3>2. releases[i] \in Release
        BY <1>2
      <3>3. /\ releases'[i] \in Release /\ releases'[i].checkpoint
            /\ releases'[i].ring = releases[i].ring /\ releases'[i].seq = releases[i].seq
            /\ releases'[i].parent = releases[i].parent
        BY <3>1, <3>2 DEF Release
      <3> QED
        BY <1>2, <1>3, <2>1, <3>1, <3>3
    <2>2. CASE i \notin fresh
      BY <1>1, <1>2, <2>2
    <2> QED
      BY <2>1, <2>2
  <1>5. releases' \in [Id -> Release]
    BY <1>1, <1>4
  <1>6. releasePackages' \in [Id -> SUBSET Pkg]
    BY <1>1, <1>2, <1>4
  <1>7. TypeOK'
    BY <1>1, <1>5, <1>6 DEF Types, TypeOK, TablesOK, pool
  <1>8. Control'
    BY <1>1 DEF Types, Control, Ready
  <1> QED
    BY <1>1, <1>4, <1>7, <1>8 DEF Types

\* It is what the invariant of retention allows a reader to write.
LEMMA MaterialiseKeeps ==
  ASSUME RetentionInv, gc.pc = "idle", NEW S \in SUBSET Made, \A i \in S : Readable(i), Materialise(S)
  PROVE  /\ RetentionInv' /\ UNCHANGED <<made, held, packages>>
         /\ \A r \in Ring : Protected(r)' = Protected(r)
  <1>0. HistoryInv /\ Order /\ Types /\ TypeOK /\ Made \subseteq Id
    BY StoreAssumption DEF RetentionInv, HistoryInv, Order, Types, TypeOK, TablesOK, Made, Id, Id0
  <1>1. /\ UNCHANGED <<made, deltas, artifacts, ringHeads, ringPackages, held, pool, databases, pc, my, gc>>
        /\ Types'
    BY <1>0, MaterialiseWrites
  <1>2. \A i \in Id : /\ releases'[i].ring = releases[i].ring /\ releases'[i].seq = releases[i].seq
                      /\ releases'[i].parent = releases[i].parent
                      /\ releases[i].checkpoint => releases'[i].checkpoint
    BY <1>0, MaterialiseWrites
  <1>3. \A i \in Id : \/ releasePackages'[i] = releasePackages[i] /\ releases'[i].checkpoint = releases[i].checkpoint
                      \/ ~releases[i].checkpoint /\ releases'[i].checkpoint /\ releasePackages'[i] = Rebuilt[i]
    BY <1>0, MaterialiseWrites
  <1>4. LiveIsHead' /\ \A r \in Ring : LastSeq(r)' = LastSeq(r)
    BY <1>0, <1>1, <1>2, OrderUnchanged DEF Order
  <1>5. Order'
    <2>1. \A p \in Proc : my[p].work = "create" => my[p].req.ring \in Ring
      BY <1>0, StoreAssumption DEF Types, Control, Request
    <2>2. \A p \in Proc : Numbered(p)'
      BY <1>0, <1>1, <1>4, <2>1 DEF Order, Numbered
    <2> QED
      BY <1>1, <1>4, <2>2 DEF Order
  <1>6. Scheduled'
    BY <1>0, <1>1 DEF HistoryInv, Scheduled, OneWriter, Suits, Made
  <1>7. Linked'
    BY <1>0, <1>1, <1>2 DEF HistoryInv, Linked, Made
  <1>8. \A r \in Ring : OfRing(r)' = OfRing(r) /\ Protected(r)' = Protected(r) /\ OfRing(r) \subseteq Made
    BY <1>0, <1>1, <1>2, ProtectedUnchanged, OfRingOrdered
  <1>9. ASSUME NEW r \in Ring, NEW b \in Id, Sound(r, b) PROVE Sound(r, b)'
    <2>1. ASSUME NEW i \in OfRing(r), i >= b
          PROVE  releasePackages'[i] = (IF releases'[i].checkpoint THEN held[i] ELSE {})
      <3>1. i \in Id /\ b <= i
        <4>1. i \in Id /\ i \in Nat /\ b \in Nat
          <5>1. Id \subseteq Nat
            BY StoreAssumption DEF Id
          <5> QED
            BY <1>0, <1>8, <5>1
        <4> QED
          BY <2>1, <4>1
      <3>2. Rebuilt[i] = held[i]
        BY <1>0, <1>9, <3>1, SoundRebuilds
      <3>3. releasePackages[i] = (IF releases[i].checkpoint THEN held[i] ELSE {})
        BY <1>9, <2>1 DEF Sound
      <3> QED
        BY <1>3, <3>1, <3>2, <3>3
    <2>2. \A i \in OfRing(r) : i > b => deltas'[i] = Delta(held'[i], held'[releases'[i].parent])
      BY <1>0, <1>1, <1>2, <1>8, <1>9 DEF Sound
    <2>3. b \in OfRing(r)' /\ releases'[b].checkpoint
      BY <1>2, <1>8, <1>9 DEF Sound
    <2> QED
      BY <1>1, <1>8, <1>9, <2>1, <2>2, <2>3 DEF Sound
  <1>10. ASSUME NEW r \in Ring, NEW b \in Id, Sound(r, b), Rebuilders(r, b) PROVE Rebuilders(r, b)'
    <2> SUFFICES ASSUME NEW p \in Proc, Concerns(pc[p], my[p], r, b)' PROVE Rebuilding(pc[p], my[p], r, b)'
      BY DEF Rebuilders
    <2>1. PICK l, label : l = my[p] /\ label = pc[p] /\ l = my'[p] /\ label = pc'[p]
      BY <1>1
    <2>2. Concerns(label, l, r, b)
      BY <1>8, <2>1 DEF Concerns
    <2>3. Rebuilding(label, l, r, b) /\ b \in OfRing(r) /\ l \in Local
      BY <1>0, <1>10, <2>1, <2>2 DEF Rebuilders, Sound, TypeOK
    <2>4. \A i \in Made : /\ releases'[i].ring = releases[i].ring /\ releases'[i].parent = releases[i].parent
                          /\ releases[i].checkpoint => releases'[i].checkpoint
                          /\ held'[i] = held[i]
      BY <1>0, <1>1, <1>2
    <2>5. Made \subseteq Made'
      BY <1>1 DEF Made
    <2>6. HistoryInv
      BY <1>0
    <2>7. Rebuilding(label, l, r, b)'
      BY <2>2, <2>3, <2>4, <2>5, <2>6, RebuildingStable
    <2> QED
      BY <2>1, <2>7 DEF Rebuilding
  <1>11. \A r \in Ring, b \in Id : Spared(r, b)'
    BY <1>1 DEF Spared, Looked
  <1>12. Based'
    BY <1>8, <1>9, <1>10, <1>11 DEF RetentionInv, Based
  <1>13. Indexed' /\ VictimsFree' /\ UNCHANGED packages
    BY <1>1, <1>8 DEF RetentionInv, Indexed, VictimsFree, pool
  <1> QED
    BY <1>0, <1>1, <1>5, <1>6, <1>7, <1>8, <1>12, <1>13 DEF RetentionInv, HistoryInv

-----------------------------------------------------------------------------
(* Pages.                                                                  *)

\* Each package has a place in SQL's order.
LEMMA PlaceIs ==
  Len(SlotOrder) \in Nat /\ \A p \in Pkg : Place(p) \in 1 .. Len(SlotOrder)
  <1>1. Len(SlotOrder) \in Nat /\ DOMAIN SlotOrder = 1 .. Len(SlotOrder)
    BY ReadsAssumption
  <1>2. ASSUME NEW p \in Pkg PROVE Place(p) \in DOMAIN SlotOrder
    BY ReadsAssumption DEF Place
  <1> QED
    BY <1>1, <1>2

LEMMA MaxIs ==
  ASSUME NEW n \in Nat, NEW S \in SUBSET (1 .. n), S # {}
  PROVE  Max(S) \in S /\ \A y \in S : Max(S) >= y
  <1> DEFINE T == {n - y : y \in S}
  <1>1. T \in SUBSET Nat /\ T # {}
    <2>1. \A y \in S : n - y \in Nat
      OBVIOUS
    <2> QED
      BY <2>1
  <1> HIDE DEF T
  <1>2. PICK t \in T : \A u \in T : t <= u
    BY <1>1, LeastExists
  <1>3. PICK x \in S : t = n - x
    BY <1>2 DEF T
  <1>4. \A y \in S : x >= y
    <2> TAKE y \in S
    <2>1. n - x <= n - y /\ x \in Nat /\ y \in Nat
      BY <1>2, <1>3 DEF T
    <2> QED
      BY <2>1
  <1> QED
    BY <1>3, <1>4 DEF Max

\* A page taken of M after place k, and the place m the next one starts after.
Turn(M, k, limit, page, m) ==
    /\ page = Page({p \in M : Follows(p, k)}, limit)
    /\ m = IF page = {} THEN k ELSE Max({Place(p) : p \in page})
Turned(M, k, limit, page, m) ==
    /\ m \in Nat
    /\ {p \in M : Place(p) <= k} \cup page = {p \in M : Place(p) <= m}
    /\ limit = 0 \/ Cardinality(page) < limit => {p \in M : Place(p) <= k} \cup page = M

\* A page goes on where the last one ended, to the place it names as its last,
\* and a page that is not full is the last.
LEMMA PageIs ==
  ASSUME NEW M \in SUBSET Pkg, NEW k \in Nat, NEW limit \in Nat, NEW page, NEW m, Turn(M, k, limit, page, m)
  PROVE  Turned(M, k, limit, page, m)
  <1> PICK rest : rest = {p \in M : Follows(p, k)}
    OBVIOUS
  <1> page = Page(rest, limit)
    BY DEF Turn
  <1> m = IF page = {} THEN k ELSE Max({Place(p) : p \in page})
    BY DEF Turn
  <1> DEFINE Before(p) == {q \in rest : Place(q) < Place(p)}
  <1>0. /\ \A p \in Pkg : Place(p) \in Nat
        /\ Len(SlotOrder) \in Nat /\ \A p \in Pkg : Place(p) \in 1 .. Len(SlotOrder)
    BY PlaceIs
  <1>1. page = {p \in rest : limit = 0 \/ Cardinality(Before(p)) < limit}
    BY DEF Page
  <1>2. rest \subseteq Pkg /\ page \subseteq rest /\ rest = {p \in M : Place(p) > k}
    BY <1>1 DEF Follows
  <1>3. IsFiniteSet(rest) /\ IsFiniteSet(page) /\ \A p \in rest : IsFiniteSet(Before(p))
    <2>1. IsFiniteSet(Pkg)
      BY ReadsAssumption
    <2>2. \A p \in rest : Before(p) \subseteq rest
      OBVIOUS
    <2> HIDE DEF Before
    <2> QED
      BY <1>2, <2>1, <2>2, FS_Subset
  <1>4. \A p, q \in rest : Place(p) <= Place(q) /\ q \in page => p \in page
    <2> TAKE p, q \in rest
    <2> HAVE Place(p) <= Place(q) /\ q \in page
    <2>1. Before(p) \subseteq Before(q)
      BY <1>0, <1>2
    <2> HIDE DEF Before
    <2>2. Cardinality(Before(p)) <= Cardinality(Before(q)) /\ Cardinality(Before(p)) \in Nat /\ Cardinality(Before(q)) \in Nat
      BY <1>3, <2>1, FS_Subset, FS_CardinalityType
    <2> QED
      BY <1>1, <2>2
  <1>5. /\ m \in Nat /\ m >= k
        /\ \A p \in page : Place(p) <= m
        /\ page # {} => \E q \in page : Place(q) = m
    <2>1. CASE page = {}
      BY <2>1
    <2>2. CASE page # {}
      <3> DEFINE P == {Place(p) : p \in page}
      <3>1. P \in SUBSET (1 .. Len(SlotOrder)) /\ P # {}
        BY <1>0, <1>2, <2>2
      <3>2. m = Max(P)
        BY <2>2
      <3> HIDE DEF P
      <3>3. m \in P /\ \A y \in P : m >= y
        BY <1>0, <3>1, <3>2, MaxIs
      <3>4. PICK q \in page : Place(q) = m
        BY <3>3 DEF P
      <3>5. m \in Nat /\ m >= k
        BY <1>0, <1>2, <3>4
      <3>6. \A p \in page : Place(p) <= m
        <4> TAKE p \in page
        <4>1. Place(p) \in P /\ Place(p) \in Nat
          BY <1>0, <1>2 DEF P
        <4> QED
          BY <3>3, <3>5, <4>1
      <3> QED
        BY <3>4, <3>5, <3>6
    <2> QED
      BY <2>1, <2>2
  <1>6. \A p \in M : Place(p) <= k \/ p \in page <=> Place(p) <= m
    <2> TAKE p \in M
    <2>1. Place(p) \in Nat
      BY <1>0
    <2>2. CASE Place(p) <= k
      BY <1>5, <2>1, <2>2
    <2>3. CASE Place(p) > k
      <3>1. p \in rest
        BY <1>2, <2>3
      <3>2. p \in page => Place(p) <= m
        BY <1>5
      <3>3. ASSUME Place(p) <= m PROVE p \in page
        <4>1. page # {}
          BY <2>1, <2>3, <3>3
        <4>2. PICK q \in page : Place(q) = m
          BY <1>5, <4>1
        <4> QED
          BY <1>2, <1>4, <3>1, <3>3, <4>2
      <3> QED
        BY <2>1, <2>3, <3>2, <3>3
    <2> QED
      BY <2>1, <2>2, <2>3
  <1>7. ASSUME limit = 0 \/ Cardinality(page) < limit PROVE rest \subseteq page
    <2>1. CASE limit = 0
      BY <1>1, <2>1
    <2>2. CASE limit # 0
      <3> DEFINE Out == {Place(p) : p \in rest \ page}
      <3>1. SUFFICES ASSUME Out # {} PROVE FALSE
        OBVIOUS
      <3>2. Out \in SUBSET Nat
        BY <1>0, <1>2
      <3>3. PICK n \in Out : \A j \in Out : n <= j
        <4> HIDE DEF Out
        <4> QED
          BY <3>1, <3>2, LeastExists
      <3>4. PICK p \in rest \ page : Place(p) = n
        BY <3>3
      <3>5. Before(p) \subseteq page
        <4> SUFFICES ASSUME NEW q \in rest, Place(q) < Place(p), q \notin page PROVE FALSE
          OBVIOUS
        <4>1. Place(q) \in Out /\ Place(q) \in Nat /\ Place(p) \in Nat
          BY <1>0, <1>2
        <4> QED
          BY <3>3, <3>4, <4>1
      <3> HIDE DEF Before, Out
      <3>6. Cardinality(Before(p)) <= Cardinality(page) /\ Cardinality(Before(p)) \in Nat /\ Cardinality(page) \in Nat
        BY <1>3, <3>5, FS_Subset, FS_CardinalityType
      <3>7. Cardinality(Before(p)) < limit
        BY <1>7, <2>2, <3>6
      <3> QED
        BY <1>1, <3>4, <3>7
    <2> QED
      BY <2>1, <2>2
  <1>8. limit = 0 \/ Cardinality(page) < limit => {p \in M : Place(p) <= k} \cup page = M
    <2> HAVE limit = 0 \/ Cardinality(page) < limit
    <2>1. \A p \in M : Place(p) <= k \/ p \in rest
      BY <1>0, <1>2
    <2> QED
      BY <1>2, <1>7, <2>1
  <1>9. {p \in M : Place(p) <= k} \cup page = {p \in M : Place(p) <= m}
    BY <1>2, <1>6
  <1> QED
    BY <1>5, <1>8, <1>9 DEF Turned

-----------------------------------------------------------------------------
(* What retention protects, it has protected since it was made.            *)

LEMMA RetainedShrinks ==
  ASSUME RetentionInv, Serial, [Next]_vars
  PROVE  \A i \in Made : i \in Made' /\ held'[i] = held[i] /\ (i \in Retained' => i \in Retained)
  <1>0. HistoryInv /\ Order /\ HistoryInv' /\ Order' /\ Made \subseteq Id /\ made \in Nat
    BY StepKeepsRetention, StoreAssumption
       DEF RetentionInv, HistoryInv, Order, Types, TypeOK, TablesOK, Made, Id, Id0
  <1>1. CASE made' = made
    <2>1. UNCHANGED held /\ \A i \in Id : releases'[i].ring = releases[i].ring /\ releases'[i].seq = releases[i].seq
      BY <1>0, <1>1, QuietSteps
    <2>2. \A r \in Ring : Protected(r)' = Protected(r)
      BY <1>0, <1>1, <2>1, ProtectedUnchanged
    <2> QED
      BY <1>1, <2>1, <2>2 DEF Retained, Made
  <1>2. CASE made' # made
    <2>1. PICK p \in Proc : Batch(p)
      BY <1>0, <1>2, OnlyBatchesMake
    <2>2. /\ made' = made + 1 /\ releases'[made + 1].ring = my[p].req.ring
          /\ \A i \in Made : releases'[i] = releases[i] /\ held'[i] = held[i]
      BY <1>0, <1>2, <2>1, BatchAppends
    <2>3. Made' = Made \cup {made + 1} /\ made + 1 \notin Made
      BY <1>0, <2>2 DEF Made
    <2>4. ASSUME NEW r \in Ring PROVE Protected(r)' \subseteq Protected(r) \cup {made + 1}
      <3>1. OfRing(r)' = OfRing(r) \/ OfRing(r)' = OfRing(r) \cup {made + 1}
        BY <2>2, <2>3 DEF OfRing
      <3>2. \A i \in OfRing(r) : releases'[i].seq = releases[i].seq
        BY <2>2 DEF OfRing
      <3> QED
        BY <1>0, <3>1, <3>2, ProtectedShrinks
    <2> QED
      BY <2>2, <2>3, <2>4 DEF Retained
  <1> QED
    BY <1>1, <1>2

-----------------------------------------------------------------------------
(* The walk.                                                               *)

Walks == [release : Id0, arch : Arch \cup {None}, limit : Nat, after : Nat, rows : SUBSET Pkg, over : BOOLEAN]

\* What a walk has listed so far of a release that retention still protects.
Sofar(w) == {p \in OfArch(held[w.release], w.arch) : Place(p) <= w.after}

Walked(w) ==
    /\ w \in Walks
    /\ w.release = 0 => w.rows = {} /\ w.after = 0 /\ ~w.over
    /\ w.release # 0 => w.release \in Made
    /\ w.release \in Retained => /\ w.rows = Sofar(w)
                                 /\ w.over => w.rows = OfArch(held[w.release], w.arch)

\* The invariant of the readers.
WalkInv == RetentionInv /\ Walked(walk)

LEMMA NoWalkIs ==
  ASSUME NEW a \in Arch \cup {None}, NEW n \in Nat, NEW w,
         w = [release |-> 0, arch |-> a, limit |-> n, after |-> 0, rows |-> {}, over |-> FALSE]
  PROVE  Walked(w)
  <1>2. 0 \in Id0 /\ {} \in SUBSET Pkg
    BY StoreAssumption DEF Id0
  <1>3. w \in Walks
    <2>1. 0 \in Nat /\ FALSE \in BOOLEAN
      OBVIOUS
    <2> QED
      BY <1>2, <2>1, Zenon DEF Walks
  <1>4. 0 \notin Retained
    BY DEF Retained, Protected, OfRing, Made
  <1>5. w.release = 0 /\ w.rows = {} /\ w.after = 0
    BY SMT
  <1>6. ~w.over
    BY Zenon
  <1> QED
    BY <1>3, <1>4, <1>5, <1>6 DEF Walked

\* A walk at rest stays right while releases stay as they are.
LEMMA WalkedStays ==
  ASSUME NEW w, Walked(w), \A i \in Made : i \in Made' /\ held'[i] = held[i] /\ (i \in Retained' => i \in Retained)
  PROVE  Walked(w)'
  <1>1. 0 \notin Retained'
    BY DEF Retained, Protected, OfRing, Made
  <1>2. w.release # 0 => w.release \in Made
    BY DEF Walked
  <1>3. w.release # 0 => (w.release \in Made)' /\ held'[w.release] = held[w.release]
    BY <1>2
  <1>4. w.release \in Retained' => w.release \in Retained /\ w.release # 0
    BY <1>1, <1>2
  <1> QED
    BY <1>3, <1>4 DEF Walked, Sofar

\* A page of the release it is pinned to takes a walk on.
LEMMA PageTakesOn ==
  ASSUME WalkInv, Serial, NEW r \in Ring, handleGetRelease(r)
  PROVE  WalkInv'
  <1>0. PICK w : w = walk
    OBVIOUS
  <1> DEFINE i == IF w.release = 0 THEN ringHeads[r] ELSE w.release
             M == OfArch(MembersOf(i), w.arch)
             rest == {p \in M : Follows(p, w.after)}
             page == Page(rest, w.limit)
             next == [w EXCEPT !.release = i, !.rows = @ \cup page,
                               !.over = w.limit = 0 \/ Cardinality(page) < w.limit,
                               !.after = IF page = {} THEN @ ELSE Max({Place(p) : p \in page})]
  <1>1. /\ gc.pc = "idle" /\ ~w.over /\ i # 0
        /\ (walk' = NoWalk /\ UNCHANGED vars) \/ (Readable(i) /\ Materialise({i}) /\ walk' = next)
    BY <1>0 DEF handleGetRelease, MayStart
  <1>2. CASE walk' = NoWalk /\ UNCHANGED vars
    <2>1. PICK n : n = NoWalk
      OBVIOUS
    <2>2. Walked(n)
      <3>1. n = [release |-> 0, arch |-> None, limit |-> 0, after |-> 0, rows |-> {}, over |-> FALSE]
        BY <2>1 DEF NoWalk
      <3>2. None \in Arch \cup {None} /\ 0 \in Nat
        OBVIOUS
      <3> QED
        BY <3>1, <3>2, NoWalkIs
    <2>3. RetentionInv /\ [Next]_vars
      BY <1>2 DEF WalkInv
    <2>4. Walked(n)'
      BY <2>2, <2>3, RetainedShrinks, WalkedStays
    <2>5. RetentionInv'
      BY <2>3, StepKeepsRetention
    <2> QED
      BY <1>2, <2>1, <2>4, <2>5 DEF WalkInv
  <1>3. ASSUME Readable(i), Materialise({i}), walk' = next
        PROVE  WalkInv'
    <2>1. RetentionInv /\ Walked(w) /\ w \in Walks
      BY <1>0 DEF WalkInv, Walked
    <2>2. i \in Made
      <3>1. ringHeads[r] # 0 => ringHeads[r] \in Made
        BY <2>1 DEF RetentionInv, HistoryInv, Order, LiveIsHead, OfRing
      <3> QED
        BY <1>1, <2>1, <3>1 DEF Walked
    <2>3. PICK j, m, v, T, P : /\ j = i /\ v = next /\ T = OfArch(MembersOf(j), w.arch) /\ P = page
                               /\ m = IF P = {} THEN w.after ELSE Max({Place(p) : p \in P})
      OBVIOUS
    <2> HIDE DEF i, M, rest, page, next
    <2>4. j \in Made /\ Readable(j) /\ Materialise({j}) /\ walk' = v
      BY <1>3, <2>2, <2>3
    <2>5. /\ RetentionInv' /\ UNCHANGED <<made, held>>
          /\ \A s \in Ring : Protected(s)' = Protected(s)
      <3>1. {j} \in SUBSET Made /\ \A k \in {j} : Readable(k)
        BY <2>4
      <3> QED
        BY <1>1, <2>1, <2>4, <3>1, MaterialiseKeeps
    <2>6. Made' = Made /\ Retained' = Retained
      BY <2>5 DEF Made, Retained
    <2>7. T \subseteq Pkg
      <3>1. packages \subseteq Pkg
        BY <2>1 DEF RetentionInv, HistoryInv, Order, Types, TypeOK, TablesOK
      <3> QED
        BY <2>3, <3>1 DEF MembersOf, OfArch, InArch
    <2>8. /\ w.after \in Nat /\ w.limit \in Nat /\ w.rows \subseteq Pkg
          /\ P = Page({p \in T : Follows(p, w.after)}, w.limit)
      BY <2>1, <2>3 DEF Walks, page, rest, M
    <2>9. /\ m \in Nat
          /\ {p \in T : Place(p) <= w.after} \cup P = {p \in T : Place(p) <= m}
          /\ w.limit = 0 \/ Cardinality(P) < w.limit => {p \in T : Place(p) <= w.after} \cup P = T
      <3>1. T \in SUBSET Pkg /\ w.after \in Nat /\ w.limit \in Nat
        BY <2>7, <2>8
      <3>2. Turn(T, w.after, w.limit, P, m)
        BY <2>3, <2>8 DEF Turn
      <3>3. Turned(T, w.after, w.limit, P, m)
        BY <3>1, <3>2, PageIs, Zenon
      <3> QED
        BY <3>3 DEF Turned
    <2>10. P \subseteq T
      BY <2>8 DEF Page
    <2>11. v = [w EXCEPT !.release = j, !.rows = w.rows \cup P, !.over = w.limit = 0 \/ Cardinality(P) < w.limit, !.after = m]
      BY <2>3 DEF next
    <2>12. /\ v.release = j /\ v.rows = w.rows \cup P /\ v.after = m /\ v.arch = w.arch
           /\ v.over = (w.limit = 0 \/ Cardinality(P) < w.limit)
      BY <2>1, <2>11 DEF Walks
    <2>13. v \in Walks
      <3>1. j \in Id0
        BY <2>1, <2>4, StoreAssumption DEF RetentionInv, HistoryInv, Order, Types, TypeOK, TablesOK, Made, Id0
      <3>2. w.rows \cup P \in SUBSET Pkg
        BY <2>7, <2>8, <2>10
      <3> QED
        BY <2>1, <2>9, <2>11, <3>1, <3>2 DEF Walks
    <2>14. ASSUME j \in Retained
           PROVE  v.rows = {p \in T : Place(p) <= m} /\ T = OfArch(held[j], w.arch) /\ (v.over => v.rows = T)
      <3>1. T = OfArch(held[j], w.arch)
        BY <2>1, <2>3, <2>14, MembersAreHeld
      <3>2. w.rows = {p \in T : Place(p) <= w.after}
        <4>1. CASE w.release = 0
          <5>1. w.rows = {} /\ w.after = 0
            BY <2>1, <4>1 DEF Walked
          <5>2. \A p \in T : ~(Place(p) <= 0)
            BY <2>7, PlaceIs
          <5> QED
            BY <5>1, <5>2
        <4>2. CASE w.release # 0
          <5>1. w.release = j
            BY <2>3, <4>2 DEF i
          <5> QED
            BY <2>1, <2>14, <3>1, <5>1 DEF Walked, Sofar
        <4> QED
          BY <4>1, <4>2
      <3> QED
        BY <2>9, <2>12, <3>1, <3>2
    <2>15. j # 0
      BY <2>4 DEF Made
    <2>16. Walked(v)'
      BY <2>4, <2>5, <2>6, <2>12, <2>13, <2>14, <2>15 DEF Walked, Sofar
    <2> QED
      BY <2>4, <2>5, <2>16 DEF WalkInv
  <1> HIDE DEF i, M, rest, page, next
  <1> QED
    BY <1>1, <1>2, <1>3

\* The release a diff compares with is one that was made, whatever retention
\* has done to its parent since.
LEMMA DiffReads ==
  ASSUME RetentionInv, Serial, NEW to \in Id0, NEW from \in Id0, handleReleaseDiff(to, from)
  PROVE  /\ gc.pc = "idle" /\ UNCHANGED walk
         /\ \E S \in SUBSET Made : (\A i \in S : Readable(i)) /\ Materialise(S)
  <1> DEFINE other == IF from = 0 THEN releases[to].parent ELSE from
             S == {i \in {to, other} \ {0} : Readable(i) /\ (i = other => Readable(to))}
  <1>1. gc.pc = "idle" /\ to \in Made /\ from \in Made \cup {0} /\ Materialise(S) /\ UNCHANGED walk
    <2>1. MayStart /\ to \in Made /\ from \in Made \cup {0} /\ UNCHANGED walk
      BY Zenon DEF handleReleaseDiff
    <2>3. gc.pc = "idle"
      BY <2>1 DEF MayStart
    <2>2. Materialise(S)
      BY Zenon DEF handleReleaseDiff
    <2> QED
      BY <2>1, <2>2, <2>3
  <1>2. releases[to].parent # 0 => releases[to].parent \in Made
    BY <1>1 DEF RetentionInv, HistoryInv, Linked
  <1>3. S \subseteq Made
    BY <1>1, <1>2
  <1>4. \A i \in S : Readable(i)
    OBVIOUS
  <1> HIDE DEF S
  <1> QED
    BY <1>1, <1>3, <1>4

\* Every request of a reader, and every step of the store beside it, keeps the
\* invariant of the readers.
LEMMA StepKeepsWalk ==
  ASSUME WalkInv, Serial, [ReadsNext]_readVars
  PROVE  WalkInv'
  <1>0. PICK w : w = walk
    OBVIOUS
  <1>1. RetentionInv /\ Walked(w)
    BY <1>0 DEF WalkInv
  <1>2. ASSUME [Next]_vars, UNCHANGED walk
        PROVE  WalkInv'
    <2>1. Walked(w)'
      BY <1>1, <1>2, RetainedShrinks, WalkedStays
    <2>2. RetentionInv'
      BY <1>1, <1>2, StepKeepsRetention
    <2> QED
      BY <1>0, <1>2, <2>1, <2>2 DEF WalkInv
  <1>3. ASSUME NEW a \in Arch, NEW n \in Limits, StartWalk(a, n)
        PROVE  WalkInv'
    <2>1. PICK x : x = [release |-> 0, arch |-> a, limit |-> n, after |-> 0, rows |-> {}, over |-> FALSE]
      OBVIOUS
    <2>2. walk' = x /\ UNCHANGED vars
      <3>1. PICK n0 : n0 = NoWalk
        OBVIOUS
      <3>2. n0 = [release |-> 0, arch |-> None, limit |-> 0, after |-> 0, rows |-> {}, over |-> FALSE]
        BY <3>1 DEF NoWalk
      <3>3. walk' = [n0 EXCEPT !.arch = a, !.limit = n] /\ UNCHANGED vars
        BY <1>3, <3>1 DEF StartWalk
      <3>4. [n0 EXCEPT !.arch = a, !.limit = n] = x
        <4>1. PICK over : over = FALSE
          OBVIOUS
        <4>2. n0 = [release |-> 0, arch |-> None, limit |-> 0, after |-> 0, rows |-> {}, over |-> over]
          BY <3>2, <4>1, Zenon
        <4>3. x = [release |-> 0, arch |-> a, limit |-> n, after |-> 0, rows |-> {}, over |-> over]
          BY <2>1, <4>1, Zenon
        <4>4. [n0 EXCEPT !.arch = a] = [release |-> 0, arch |-> a, limit |-> 0, after |-> 0, rows |-> {}, over |-> over]
          BY <4>2
        <4>5. PICK y : y = [n0 EXCEPT !.arch = a]
          OBVIOUS
        <4>8. y = [release |-> 0, arch |-> a, limit |-> 0, after |-> 0, rows |-> {}, over |-> over]
          BY <4>4, <4>5
        <4>9. [y EXCEPT !.limit = n] = [release |-> 0, arch |-> a, limit |-> n, after |-> 0, rows |-> {}, over |-> over]
          BY <4>8
        <4>6. [y EXCEPT !.limit = n] = x
          BY <4>3, <4>9
        <4>7. [n0 EXCEPT !.arch = a, !.limit = n] = [y EXCEPT !.limit = n]
          BY <4>2, <4>4, <4>5
        <4> QED
          BY <4>6, <4>7
      <3> QED
        BY <3>3, <3>4
    <2>3. a \in Arch \cup {None} /\ n \in Nat
      BY ReadsAssumption
    <2>4. Walked(x)
      BY <2>1, <2>3, NoWalkIs
    <2>5. [Next]_vars
      BY <2>2
    <2>6. Walked(x)'
      BY <1>1, <2>4, <2>5, RetainedShrinks, WalkedStays
    <2>7. RetentionInv'
      BY <1>1, <2>5, StepKeepsRetention
    <2> QED
      BY <2>2, <2>6, <2>7 DEF WalkInv
  <1>4. ASSUME NEW r \in Ring, handleGetRelease(r)
        PROVE  WalkInv'
    BY <1>4, PageTakesOn
  <1>5. ASSUME NEW to \in Id0, NEW from \in Id0, handleReleaseDiff(to, from)
        PROVE  WalkInv'
    <2>1. /\ gc.pc = "idle" /\ UNCHANGED walk
          /\ \E S \in SUBSET Made : (\A i \in S : Readable(i)) /\ Materialise(S)
      BY <1>1, <1>5, DiffReads
    <2>2. PICK S \in SUBSET Made : (\A i \in S : Readable(i)) /\ Materialise(S)
      BY <2>1
    <2>3. RetentionInv' /\ UNCHANGED <<made, held>> /\ \A s \in Ring : Protected(s)' = Protected(s)
      BY <1>1, <2>1, <2>2, MaterialiseKeeps
    <2>4. Made' = Made /\ Retained' = Retained
      BY <2>3 DEF Made, Retained
    <2>5. Walked(w)'
      BY <1>1, <2>3, <2>4, WalkedStays
    <2> QED
      BY <1>0, <2>1, <2>3, <2>5 DEF WalkInv
  <1>6. CASE UNCHANGED readVars
    BY <1>2, <1>6 DEF readVars
  <1> QED
    BY <1>2, <1>3, <1>4, <1>5, <1>6 DEF ReadsNext

LEMMA InitWalk == ReadsInit => WalkInv
  <1> SUFFICES ASSUME ReadsInit PROVE WalkInv
    OBVIOUS
  <1>1. RetentionInv
    BY InitRetention DEF ReadsInit
  <1>2. PICK x : x = [release |-> 0, arch |-> None, limit |-> 0, after |-> 0, rows |-> {}, over |-> FALSE]
    OBVIOUS
  <1>3. Walked(x)
    <2>1. None \in Arch \cup {None} /\ 0 \in Nat
      OBVIOUS
    <2> QED
      BY <1>2, <2>1, NoWalkIs
  <1>4. walk = x
    BY <1>2 DEF ReadsInit, NoWalk
  <1> QED
    BY <1>1, <1>3, <1>4 DEF WalkInv

\* A paged walk that ends while its release is inside retention has listed that
\* release and nothing else, however the ring moved, whatever other readers
\* materialised and whatever retention dropped between its pages.
THEOREM WalksListOneRelease ==
  ASSUME Serial
  PROVE  ReadsSpec => []WalkExact
  <1>1. WalkInv /\ [ReadsNext]_readVars => WalkInv'
    BY StepKeepsWalk
  <1>2. WalkInv => WalkExact
    <2> SUFFICES ASSUME WalkInv PROVE WalkExact
      OBVIOUS
    <2>1. PICK w : w = walk
      OBVIOUS
    <2>2. Walked(w)
      BY <2>1 DEF WalkInv
    <2>3. w.over /\ w.release \in Retained => w.rows = OfArch(held[w.release], w.arch)
      BY <2>2 DEF Walked
    <2> QED
      BY <2>1, <2>3 DEF WalkExact
  <1> QED
    BY <1>1, <1>2, InitWalk, PTL DEF ReadsSpec

-----------------------------------------------------------------------------
(* What every release keeps, retained or not: what is written of it is of  *)
(* what it was made to hold, and a release that a checkpoint lies behind   *)
(* has its delta. The retention job takes the rows first, the flags next   *)
(* and the deltas last, which keeps it so wherever the job ends.           *)

\* The ring of release i has a checkpoint that is older.
Backed(i) == \E c \in Made : releases[c].checkpoint /\ releases[c].ring = releases[i].ring /\ c < i

Tidy ==
    /\ \A i \in Made : releasePackages[i] \subseteq held[i]
    /\ \A i \in Id \ Made : releasePackages[i] = {}
    /\ \A i \in Made : OneEach(held[i])
    /\ \A i \in Made : Backed(i) => deltas[i] = Delta(held[i], held[releases[i].parent])

\* An invocation that rebuilds a release follows its parents to a checkpoint,
\* and has read of it no more than it was made to hold.
Tracking(label, l) ==
    /\ label \in {"walk", "unwind", "replay"} =>
         /\ Len(l.chain) > 0 /\ l.chain[Len(l.chain)] = l.goal
         /\ \A k \in 1 .. Len(l.chain) : l.chain[k] \in Made
         /\ \A k \in 1 .. Len(l.chain) : k > 1 => releases[l.chain[k]].parent = l.chain[k - 1]
    /\ label = "unwind" => releases[l.chain[1]].checkpoint
    /\ label = "replay" => Backed(l.chain[1]) /\ l.rows \subseteq held[releases[l.chain[1]].parent]
    /\ label = "save" => Backed(l.goal) /\ l.rows \subseteq held[l.goal]

\* What the job has read of a ring, it has read whole: no checkpoint it spares
\* is older than the base of its ring, and it has dropped the other flags
\* before it drops deltas.
Sweeping ==
    /\ gc.pc = "retain" => \A c \in gc.kept \cup gc.bases : releases[c].ring \notin gc.todo
    /\ gc.pc # "idle" => /\ gc.kept \cup gc.bases \subseteq Made
                         /\ \A b \in gc.bases, c \in gc.kept :
                              releases[b].ring = releases[c].ring => releases[b].seq <= releases[c].seq
    /\ gc.pc = "deltas" => \A c \in Made : releases[c].checkpoint => c \in gc.kept

TidyInv == Tidy /\ Sweeping /\ \A p \in Proc : Tracking(pc[p], my[p])

\* A delta takes a part of the selection it was taken from to a part of its target.
LEMMA ApplyShrinks ==
  ASSUME NEW target, NEW own, NEW rows, rows \subseteq own
  PROVE  Apply(rows, Delta(target, own)) \subseteq target
  BY DEF Apply, Delta

LEMMA BackedHasParent ==
  ASSUME HistoryInv, NEW i \in Made, Backed(i)
  PROVE  releases[i].parent # 0 /\ releases[i].parent \in Made
  <1>1. PICK c \in Made : releases[c].ring = releases[i].ring /\ c < i
    BY DEF Backed
  <1>2. releases[i].parent # 0
    BY <1>1 DEF HistoryInv, Linked
  <1> QED
    BY <1>2 DEF HistoryInv, Linked

\* What backs a release, or is a checkpoint itself, backs the release after it.
LEMMA BackedBy ==
  ASSUME HistoryInv, NEW i \in Made, NEW j \in Made, releases[j].parent = i, releases[i].checkpoint \/ Backed(i)
  PROVE  Backed(j)
  <1>1. i # 0 /\ made \in Nat
    BY StoreAssumption DEF Made, HistoryInv, Order, Types, TypeOK, TablesOK, Id0
  <1>2. i < j /\ releases[i].ring = releases[j].ring
    BY <1>1 DEF HistoryInv, Linked
  <1>3. CASE releases[i].checkpoint
    BY <1>2, <1>3 DEF Backed
  <1>4. CASE Backed(i)
    <2>1. PICK c \in Made : releases[c].checkpoint /\ releases[c].ring = releases[i].ring /\ c < i
      BY <1>4 DEF Backed
    <2>2. c < j
      BY <1>1, <1>2, <2>1 DEF Made
    <2> QED
      BY <1>2, <2>1, <2>2 DEF Backed
  <1> QED
    BY <1>3, <1>4

\* What the steps that rebuild a release do.
LEMMA TrackingStep ==
  ASSUME HistoryInv, Tidy, NEW p \in Proc, Tracking(pc[p], my[p]),
         Create(p) \/ Membership(p) \/ Read(p) \/ Render(p) \/ End(p)
  PROVE  \E l, label : Go(p, l, label) /\ Tracking(label, l)
  <1> DEFINE Goal == \E l, label : Go(p, l, label) /\ Tracking(label, l)
             Plain == \E l, label : Go(p, l, label) /\ label \notin {"walk", "unwind", "replay", "save"}
  <1> SUFFICES Goal
    OBVIOUS
  <1>a. /\ my[p] \in Local /\ Ready(pc[p], my[p])
        /\ Made \subseteq Id /\ Made \subseteq Nat
        /\ releases \in [Id -> Release]
        /\ pc[p] \in OnMembers => my[p].goal \in Made
    <2>1. HistoryInv /\ Types /\ TypeOK /\ Control /\ Scheduled
      BY DEF HistoryInv, Order, Types
    <2>2. my[p] \in Local /\ releases \in [Id -> Release]
      BY <2>1 DEF TypeOK, TablesOK
    <2>3. Ready(pc[p], my[p]) /\ (pc[p] \in OnMembers => my[p].goal \in Made)
      BY <2>1 DEF Control, Scheduled, Suits
    <2>4. Made \subseteq Id /\ Made \subseteq Nat
      BY <2>1, StoreAssumption DEF TypeOK, TablesOK, Made, Id, Id0
    <2> QED
      BY <2>2, <2>3, <2>4
  <1>b. ASSUME NEW l, NEW label, Go(p, l, label), label \notin {"walk", "unwind", "replay", "save"}
        PROVE  Goal
    BY <1>b DEF Tracking
  <1>c. Plain => Goal
    BY <1>b
  <1> HIDE DEF Goal
  <1>1. CASE Create(p) \/ Read(p) \/ Render(p) \/ End(p)
    <2>1. ASSUME NEW q \in Requests, StartCreate(p, q) PROVE Plain
      BY <2>1 DEF StartCreate
    <2>2. ASSUME ReadParent(p) PROVE Plain
      BY <2>2 DEF ReadParent
    <2>3. ASSUME ReadSeq(p) PROVE Plain
      <3>1. ASSUME NEW s, Go(p, [my[p] EXCEPT !.seq = s], "base") PROVE Plain
        BY <3>1
      <3>2. ASSUME Finish(p) PROVE Plain
        BY <3>2 DEF Finish
      <3> HIDE DEF Plain
      <3> QED
        BY <2>3, <3>1, <3>2 DEF ReadSeq
    <2>4. ASSUME ChooseBase(p) \/ ReadLastCheckpoint(p) PROVE Plain
      BY <2>4 DEF ChooseBase, ReadLastCheckpoint
    <2>5. ASSUME Batch(p) PROVE Plain
      BY <2>5 DEF Batch, Finish
    <2>6. ASSUME NEW i \in Made, StartRead(p, i) PROVE Plain
      BY <2>6 DEF StartRead
    <2>7. ASSUME NEW c \in Ring, NEW a \in Arch, StartRender(p, c, a) PROVE Plain
      BY <2>7 DEF StartRender
    <2>8. ASSUME NEW s \in Source, PutDatabase(p, s) PROVE Plain
      BY <2>8 DEF PutDatabase
    <2>9. ASSUME Answer(p) PROVE Plain
      BY <2>9 DEF Answer
    <2>10. ASSUME End(p) PROVE Plain
      BY <2>10 DEF End, Finish
    <2> HIDE DEF Plain
    <2> QED
      BY <1>1, <1>c, <2>1, <2>2, <2>3, <2>4, <2>5, <2>6, <2>7, <2>8, <2>9, <2>10 DEF Create, Read, Render
  <1>2. CASE Members(p) \/ SaveCheckpoint(p) \/ ReadRows(p)
    <2>1. Plain
      BY <1>2 DEF Members, SaveCheckpoint, ReadRows, AfterEnsure, Finish
    <2> QED
      BY <1>c, <2>1
  <1>3. CASE ReadStart(p)
    <2>1. CASE releases[my[p].goal].checkpoint
      <3>1. Plain
        BY <1>3, <2>1 DEF ReadStart, AfterEnsure
      <3> QED
        BY <1>c, <3>1
    <2>2. CASE ~releases[my[p].goal].checkpoint
      <3>1. PICK l : l = [my[p] EXCEPT !.chain = <<my[p].goal>>]
        OBVIOUS
      <3>2. l.goal = my[p].goal /\ l.chain = <<my[p].goal>>
        BY <1>a, <3>1 DEF Local
      <3>3. Go(p, l, "walk")
        BY <1>3, <2>2, <3>1 DEF ReadStart
      <3>4. Len(l.chain) = 1 /\ l.chain[1] = l.goal
        BY <3>2
      <3>5. l.goal \in Made
        BY <1>3, <1>a, <3>2 DEF ReadStart, OnMembers
      <3>6. Tracking("walk", l)
        BY <3>4, <3>5 DEF Tracking
      <3> QED
        BY <3>3, <3>6 DEF Goal
    <2> QED
      BY <2>1, <2>2
  <1>d. ASSUME pc[p] \in {"walk", "unwind", "replay"}
        PROVE  /\ my[p].chain \in Seq(Id) /\ my[p].chain # <<>> /\ Head(my[p].chain) = my[p].chain[1]
               /\ Len(my[p].chain) \in Nat /\ Len(my[p].chain) > 0
               /\ my[p].chain[Len(my[p].chain)] = my[p].goal
               /\ \A k \in 1 .. Len(my[p].chain) : my[p].chain[k] \in Made
               /\ \A k \in 1 .. Len(my[p].chain) : k > 1 => releases[my[p].chain[k]].parent = my[p].chain[k - 1]
               /\ my[p].chain[1] \in Made
    <2>1. my[p].chain \in Seq(Id) /\ my[p].chain # <<>>
      BY <1>a, <1>d DEF Local, Ready
    <2>2. Len(my[p].chain) \in Nat /\ Len(my[p].chain) > 0 /\ Head(my[p].chain) = my[p].chain[1]
      BY <2>1
    <2>3. 1 \in 1 .. Len(my[p].chain)
      BY <2>2
    <2> QED
      BY <1>d, <2>1, <2>2, <2>3 DEF Tracking
  <1>4. CASE Walk(p)
    <2> DEFINE par == releases[Head(my[p].chain)].parent
    <2>1. CASE Finish(p)
      <3>1. Plain
        BY <2>1 DEF Finish
      <3> QED
        BY <1>c, <3>1
    <2>2. CASE ~Finish(p)
      <3>0. PICK par0 : par0 = par
        OBVIOUS
      <3>1. PICK l : l = [my[p] EXCEPT !.chain = <<par0>> \o @]
        OBVIOUS
      <3>2. l.goal = my[p].goal /\ l.chain = <<par0>> \o my[p].chain
        BY <1>a, <3>1 DEF Local
      <3>3. PICK label \in {"walk", "unwind"} :
              /\ Go(p, l, label)
              /\ label = "unwind" <=> releases[par0].checkpoint
        BY <1>4, <2>2, <3>0, <3>1 DEF Walk
      <3>9. par0 # 0
        BY <1>4, <2>2, <3>0 DEF Walk
      <3>4. Tracking(label, l)
        <4> DEFINE s == my[p].chain
                   t == l.chain
        <4>1. s \in Seq(Id) /\ s # <<>> /\ Head(s) = s[1] /\ Len(s) \in Nat /\ s[1] \in Made
          BY <1>4, <1>d DEF Walk
        <4>2. /\ Len(s) > 0 /\ s[Len(s)] = my[p].goal
              /\ \A k \in 1 .. Len(s) : s[k] \in Made
              /\ \A k \in 1 .. Len(s) : k > 1 => releases[s[k]].parent = s[k - 1]
          BY <1>4, <1>d DEF Walk
        <4>3. par0 \in Made /\ par0 = releases[s[1]].parent
          BY <3>0, <3>9, <4>1 DEF HistoryInv, Linked
        <4>4. par0 \in Id
          BY <1>a, <4>3
        <4>5. Len(t) = Len(s) + 1 /\ t[1] = par0 /\ \A k \in 1 .. Len(s) : t[k + 1] = s[k]
          BY <3>2, <4>1, <4>4, ConsIs
        <4> HIDE DEF s, t
        <4>6. t[Len(t)] = s[Len(s)] /\ Len(t) > 0
          BY <4>1, <4>2, <4>5
        <4>7. ASSUME NEW k \in 1 .. Len(t)
              PROVE  t[k] \in Made /\ (k > 1 => releases[t[k]].parent = t[k - 1])
          <5>1. CASE k = 1
            BY <4>3, <4>5, <5>1
          <5>2. CASE k = 2
            <6>1. t[2] = s[1]
              BY <4>1, <4>2, <4>5
            <6> QED
              BY <4>1, <4>3, <4>5, <5>2, <6>1
          <5>3. CASE k > 2
            <6>0. k - 1 \in 1 .. Len(s) /\ k - 1 > 1 /\ (k - 1) - 1 \in 1 .. Len(s)
                  /\ k - 1 = ((k - 1) - 1) + 1 /\ k = (k - 1) + 1
              BY <4>1, <4>5, <4>7, <5>3
            <6>1. PICK j \in 1 .. Len(s) : j = k - 1 /\ j > 1 /\ j - 1 \in 1 .. Len(s) /\ k - 1 = (j - 1) + 1 /\ k = j + 1
              BY <6>0
            <6>2. t[k] = s[j] /\ t[k - 1] = s[j - 1]
              BY <4>5, <6>1
            <6> QED
              BY <4>2, <6>1, <6>2
          <5> QED
            BY <5>1, <5>2, <5>3
        <4>8. label = "unwind" => releases[t[1]].checkpoint
          BY <3>3, <4>5
        <4>9. label \in {"walk", "unwind"}
          BY <3>3
        <4> QED
          BY <3>2, <4>2, <4>6, <4>7, <4>8, <4>9 DEF Tracking, s, t
      <3> QED
        BY <3>3, <3>4 DEF Goal
    <2> QED
      BY <2>1, <2>2
  <1>5. CASE ReadCheckpointRows(p)
    <2>1. PICK rows : rows = releasePackages[Head(my[p].chain)]
      OBVIOUS
    <2>2. PICK l : l = [my[p] EXCEPT !.rows = rows, !.chain = Tail(@)]
      OBVIOUS
    <2>3. l.goal = my[p].goal /\ l.chain = Tail(my[p].chain) /\ l.rows = rows
      BY <1>a, <2>2 DEF Local
    <2>4. Go(p, l, "replay")
      BY <1>5, <2>1, <2>2 DEF ReadCheckpointRows
    <2>5. Tracking("replay", l)
      <3> DEFINE s == my[p].chain
                 t == l.chain
      <3>0. pc[p] = "unwind"
        BY <1>5 DEF ReadCheckpointRows
      <3>1. s \in Seq(Id) /\ s # <<>> /\ Head(s) = s[1] /\ Len(s) \in Nat /\ s[1] \in Made
        BY <1>d, <3>0
      <3>2. /\ Len(s) > 0 /\ s[Len(s)] = my[p].goal
            /\ \A k \in 1 .. Len(s) : s[k] \in Made
            /\ \A k \in 1 .. Len(s) : k > 1 => releases[s[k]].parent = s[k - 1]
        BY <1>d, <3>0
      <3>3. releases[s[1]].checkpoint /\ t # <<>>
        BY <1>a, <2>3, <3>0 DEF Tracking, Ready
      <3>4. /\ Len(t) = Len(s) - 1 /\ Len(t) # 0
            /\ \A k \in 1 .. Len(t) : t[k] = s[k + 1]
        BY <2>3, <3>1, <3>3, TailIs
      <3>5. rows \subseteq held[s[1]]
        BY <2>1, <3>1 DEF Tidy
      <3> HIDE DEF s, t
      <3>6. t[Len(t)] = s[Len(s)] /\ Len(t) > 0 /\ Len(t) \in Nat
        <4>1. Len(t) \in Nat /\ Len(t) > 0 /\ Len(s) = Len(t) + 1
          BY <3>1, <3>2, <3>4
        <4>2. Len(t) \in 1 .. Len(t)
          BY <4>1
        <4> QED
          BY <3>4, <4>1, <4>2
      <3>7. ASSUME NEW k \in 1 .. Len(t)
            PROVE  t[k] \in Made /\ (k > 1 => releases[t[k]].parent = t[k - 1])
        <4>1. PICK j \in 1 .. Len(s) : j = k + 1 /\ j > 1 /\ (k > 1 => k - 1 \in 1 .. Len(t) /\ (k - 1) + 1 = j - 1)
          BY <3>1, <3>4, <3>7
        <4>2. t[k] = s[j] /\ (k > 1 => t[k - 1] = s[j - 1])
          BY <3>4, <4>1
        <4> QED
          BY <3>2, <4>1, <4>2
      <3>8. t[1] = s[2] /\ t[1] \in Made /\ releases[t[1]].parent = s[1]
        <4>1. 1 \in 1 .. Len(t) /\ 2 \in 1 .. Len(s)
          BY <3>1, <3>4, <3>6
        <4>2. t[1] = s[2]
          BY <3>4, <4>1
        <4> QED
          BY <3>2, <4>1, <4>2
      <3>9. Backed(t[1])
        BY <3>1, <3>3, <3>8, BackedBy
      <3> QED
        BY <2>3, <3>2, <3>5, <3>6, <3>7, <3>8, <3>9 DEF Tracking, s, t
    <2> QED
      BY <2>4, <2>5 DEF Goal
  <1>6. CASE Replay(p)
    <2>1. PICK rows : rows = Apply(my[p].rows, deltas[Head(my[p].chain)])
      OBVIOUS
    <2>2. PICK l : l = [my[p] EXCEPT !.rows = rows, !.chain = Tail(@)]
      OBVIOUS
    <2>3. l.goal = my[p].goal /\ l.chain = Tail(my[p].chain) /\ l.rows = rows
      BY <1>a, <2>2 DEF Local
    <2>4. PICK label \in {"save", "replay"} : Go(p, l, label) /\ (label = "save" <=> l.chain = <<>>)
      <3>1. [my[p] EXCEPT !.rows = Apply(@, deltas[Head(my[p].chain)]), !.chain = Tail(@)] = l
        BY <1>a, <2>1, <2>2 DEF Local
      <3> QED
        BY <1>6, <2>3, <3>1 DEF Replay
    <2>5. Tracking(label, l)
      <3> DEFINE s == my[p].chain
                 t == l.chain
      <3>0. pc[p] = "replay"
        BY <1>6 DEF Replay
      <3>1. s \in Seq(Id) /\ s # <<>> /\ Head(s) = s[1] /\ Len(s) \in Nat /\ s[1] \in Made
        BY <1>d, <3>0
      <3>2. /\ Len(s) > 0 /\ s[Len(s)] = my[p].goal
            /\ \A k \in 1 .. Len(s) : s[k] \in Made
            /\ \A k \in 1 .. Len(s) : k > 1 => releases[s[k]].parent = s[k - 1]
        BY <1>d, <3>0
      <3>a. Backed(s[1]) /\ my[p].rows \subseteq held[releases[s[1]].parent]
        BY <3>0 DEF Tracking
      <3>3. /\ Len(t) = Len(s) - 1 /\ (t = <<>> <=> Len(t) = 0)
            /\ \A k \in 1 .. Len(t) : t[k] = s[k + 1]
        BY <2>3, <3>1, TailIs
      <3>5. rows \subseteq held[s[1]]
        <4>1. deltas[s[1]] = Delta(held[s[1]], held[releases[s[1]].parent])
          BY <3>1, <3>a DEF Tidy
        <4> QED
          BY <2>1, <3>1, <3>a, <4>1, ApplyShrinks
      <3>6. CASE label = "save"
        <4>1. Len(s) = 1
          BY <2>4, <3>1, <3>3, <3>6
        <4> QED
          BY <2>3, <3>2, <3>5, <3>6, <3>a, <4>1 DEF Tracking
      <3>7. CASE label = "replay"
        <4>0. Len(t) # 0
          BY <2>4, <3>3, <3>7
        <4> HIDE DEF s, t
        <4>1. t[Len(t)] = s[Len(s)] /\ Len(t) > 0 /\ Len(t) \in Nat
          BY <3>1, <3>2, <3>3, <4>0
        <4>2. ASSUME NEW k \in 1 .. Len(t)
              PROVE  t[k] \in Made /\ (k > 1 => releases[t[k]].parent = t[k - 1])
          <5>1. PICK j \in 1 .. Len(s) : j = k + 1 /\ j > 1 /\ (k > 1 => k - 1 \in 1 .. Len(t) /\ (k - 1) + 1 = j - 1)
            BY <3>1, <3>3, <4>2
          <5>2. t[k] = s[j] /\ (k > 1 => t[k - 1] = s[j - 1])
            BY <3>3, <5>1
          <5> QED
            BY <3>2, <5>1, <5>2
        <4>3. t[1] = s[2] /\ t[1] \in Made /\ releases[t[1]].parent = s[1]
          <5>1. 1 \in 1 .. Len(t) /\ 2 \in 1 .. Len(s)
            BY <3>1, <3>3, <4>1
          <5>2. t[1] = s[2]
            BY <3>3, <5>1
          <5> QED
            BY <3>2, <5>1, <5>2
        <4>4. Backed(t[1])
          BY <3>1, <3>a, <4>3, BackedBy
        <4> QED
          BY <2>3, <3>2, <3>5, <3>7, <4>1, <4>2, <4>3, <4>4 DEF Tracking, s, t
      <3> QED
        BY <2>4, <3>6, <3>7
    <2> QED
      BY <2>4, <2>5 DEF Goal
  <1> QED
    BY <1>1, <1>2, <1>3, <1>4, <1>5, <1>6 DEF Membership

\* Releases that exist keep what backs them, and what an invocation tracks.
LEMMA BackedStays ==
  ASSUME NEW i \in Made, Made \subseteq Made',
         \A j \in Made : releases'[j].ring = releases[j].ring /\ (releases[j].checkpoint => releases'[j].checkpoint),
         Backed(i)
  PROVE  Backed(i)'
  BY DEF Backed

\* A flag on a release that is backed backs no other.
LEMMA BackedBefore ==
  ASSUME HistoryInv, NEW i \in Made, Made' = Made,
         \A j \in Made : releases'[j].ring = releases[j].ring,
         \A j \in Made : releases'[j].checkpoint => releases[j].checkpoint \/ Backed(j),
         Backed(i)'
  PROVE  Backed(i)
  <1>1. PICK c \in Made : releases'[c].checkpoint /\ releases[c].ring = releases[i].ring /\ c < i
    BY DEF Backed
  <1>2. CASE releases[c].checkpoint
    BY <1>1, <1>2 DEF Backed
  <1>3. CASE Backed(c)
    <2>1. PICK d \in Made : releases[d].checkpoint /\ releases[d].ring = releases[c].ring /\ d < c
      BY <1>3 DEF Backed
    <2>2. d \in Nat /\ c \in Nat /\ i \in Nat
      BY StoreAssumption DEF Made, HistoryInv, Order, Types, TypeOK, TablesOK, Id0
    <2>3. d < i
      BY <1>1, <2>1, <2>2
    <2> QED
      BY <1>1, <2>1, <2>3 DEF Backed
  <1> QED
    BY <1>1, <1>2, <1>3

LEMMA TrackingStable ==
  ASSUME HistoryInv, NEW l \in Local, NEW label, label \in OnMembers => l.goal \in Made,
         Made \subseteq Made',
         \A i \in Made : /\ releases'[i].ring = releases[i].ring /\ releases'[i].parent = releases[i].parent
                         /\ releases[i].checkpoint => releases'[i].checkpoint
                         /\ held'[i] = held[i],
         Tracking(label, l)
  PROVE  Tracking(label, l)'
  <1>1. label \in {"walk", "unwind", "replay"} =>
          (/\ Len(l.chain) > 0 /\ l.chain[Len(l.chain)] = l.goal
           /\ \A k \in 1 .. Len(l.chain) : l.chain[k] \in Made
           /\ \A k \in 1 .. Len(l.chain) : k > 1 => releases[l.chain[k]].parent = l.chain[k - 1])'
    BY DEF Tracking
  <1>2. label \in {"walk", "unwind", "replay"} => l.chain[1] \in Made
    <2>1. Len(l.chain) \in Nat
      BY DEF Local
    <2>2. Len(l.chain) > 0 => 1 \in 1 .. Len(l.chain)
      BY <2>1
    <2> QED
      BY <2>2 DEF Tracking
  <1>3. label = "unwind" => releases'[l.chain[1]].checkpoint
    BY <1>2 DEF Tracking
  <1>4. label = "replay" => (Backed(l.chain[1]) /\ l.rows \subseteq held[releases[l.chain[1]].parent])'
    <2>1. CASE label = "replay"
      <3>1. l.chain[1] \in Made /\ Backed(l.chain[1]) /\ l.rows \subseteq held[releases[l.chain[1]].parent]
        BY <1>2, <2>1 DEF Tracking
      <3>2. releases[l.chain[1]].parent \in Made
        BY <3>1, BackedHasParent
      <3>3. Backed(l.chain[1])'
        BY <3>1, BackedStays
      <3> QED
        BY <3>1, <3>2, <3>3
    <2> QED
      BY <2>1
  <1>5. label = "save" => (Backed(l.goal) /\ l.rows \subseteq held[l.goal])'
    <2>1. CASE label = "save"
      <3>1. l.goal \in Made /\ Backed(l.goal) /\ l.rows \subseteq held[l.goal]
        BY <2>1 DEF Tracking, OnMembers
      <3>2. Backed(l.goal)'
        BY <3>1, BackedStays
      <3> QED
        BY <3>1, <3>2
    <2> QED
      BY <2>1
  <1> QED
    BY <1>1, <1>3, <1>4, <1>5 DEF Tracking

\* What an invocation writes keeps it: only a checkpoint is saved, of a release
\* that a checkpoint lies behind already.
LEMMA ProcessesKeepTidy ==
  ASSUME HistoryInv, HistoryInv', Serial, TidyInv, NEW p \in Proc, made' = made,
         Create(p) \/ Membership(p) \/ Read(p) \/ Render(p) \/ End(p)
  PROVE  TidyInv'
  <1>0. [Next]_vars /\ Made \subseteq Id
    BY StoreAssumption DEF Next, HistoryInv, Order, Types, TypeOK, TablesOK, Made, Id, Id0
  <1>1. /\ UNCHANGED <<made, held>> /\ Made' = Made
        /\ \A i \in Id : /\ releases'[i].ring = releases[i].ring /\ releases'[i].seq = releases[i].seq
                         /\ releases'[i].parent = releases[i].parent
    BY <1>0, QuietSteps, QuietParents DEF HistoryInv, Made
  <1>2. UNCHANGED <<deltas, gc>> /\ gc.pc = "idle"
    BY QuietRows, CallsMove
  <1>3. /\ \A i \in Made : releases[i].checkpoint => releases'[i].checkpoint
        /\ \A i \in Made : releasePackages'[i] \subseteq held[i]
        /\ \A i \in Made : releases'[i].checkpoint => releases[i].checkpoint \/ Backed(i)
        /\ \A i \in Id \ Made : releasePackages'[i] = {}
    <2>1. CASE /\ UNCHANGED releasePackages
               /\ \A i \in Id : releases'[i].checkpoint = releases[i].checkpoint
      BY <1>0, <2>1 DEF TidyInv, Tidy
    <2>2. CASE /\ pc[p] = "save" /\ my[p].goal \in Made
               /\ releasePackages' = [releasePackages EXCEPT ![my[p].goal] = @ \cup my[p].rows]
               /\ releases'[my[p].goal].checkpoint
               /\ \A i \in Id \ {my[p].goal} : releases'[i].checkpoint = releases[i].checkpoint
      <3>1. DOMAIN releasePackages = Id
        BY DEF HistoryInv, Order, Types, TypeOK, TablesOK
      <3>2. Backed(my[p].goal) /\ my[p].rows \subseteq held[my[p].goal]
        BY <2>2 DEF TidyInv, Tracking
      <3>3. \A i \in Made : releasePackages[i] \subseteq held[i]
        BY DEF TidyInv, Tidy
      <3>4. ASSUME NEW i \in Made
            PROVE  /\ releases[i].checkpoint => releases'[i].checkpoint
                   /\ releasePackages'[i] \subseteq held[i]
                   /\ releases'[i].checkpoint => releases[i].checkpoint \/ Backed(i)
        <4>1. CASE i = my[p].goal
          BY <1>0, <2>2, <3>1, <3>2, <3>3, <4>1
        <4>2. CASE i # my[p].goal
          BY <1>0, <2>2, <3>1, <3>3, <4>2
        <4> QED
          BY <4>1, <4>2
      <3>5. \A i \in Id \ Made : releasePackages'[i] = {}
        BY <2>2, <3>1 DEF TidyInv, Tidy
      <3> QED
        BY <3>4, <3>5
    <2> QED
      BY <2>1, <2>2, QuietRows
  <1>4. ASSUME NEW i \in Made, Backed(i)' PROVE Backed(i)
    <2>1. \A j \in Made : releases'[j].ring = releases[j].ring
      BY <1>0, <1>1
    <2> QED
      BY <1>1, <1>3, <1>4, <2>1, BackedBefore
  <1>5. Tidy'
    <2>1. ASSUME NEW i \in Made, Backed(i)' PROVE deltas'[i] = Delta(held'[i], held'[releases'[i].parent])
      <3>1. deltas[i] = Delta(held[i], held[releases[i].parent])
        BY <1>4, <2>1 DEF TidyInv, Tidy
      <3> QED
        BY <1>0, <1>1, <1>2, <3>1
    <2>2. \A i \in Made : OneEach(held'[i])
      BY <1>1 DEF TidyInv, Tidy
    <2> QED
      BY <1>1, <1>3, <2>1, <2>2 DEF Tidy, OneEach
  <1>6. Sweeping'
    BY <1>2 DEF Sweeping
  <1>7. PICK l, label : Go(p, l, label) /\ Tracking(label, l)
    BY TrackingStep DEF TidyInv
  <1>8. /\ my'[p] = l /\ pc'[p] = label /\ \A q \in Proc \ {p} : my'[q] = my[q] /\ pc'[q] = pc[q]
        /\ \A q \in Proc : my'[q] \in Local
    BY <1>7 DEF Go, HistoryInv, Order, Types, TypeOK
  <1>9. ASSUME NEW q \in Proc PROVE Tracking(pc[q], my[q])'
    <2>1. PICK x, y : x \in Local /\ x = my'[q] /\ y = pc'[q]
      BY <1>8
    <2>2. Tracking(y, x)
      BY <1>7, <1>8, <2>1 DEF TidyInv
    <2>3. y \in OnMembers => x.goal \in Made
      BY <1>1, <2>1 DEF HistoryInv, Scheduled, Suits
    <2>4. \A i \in Made : /\ releases'[i].ring = releases[i].ring /\ releases'[i].parent = releases[i].parent
                          /\ releases[i].checkpoint => releases'[i].checkpoint
                          /\ held'[i] = held[i]
      BY <1>0, <1>1, <1>3
    <2>5. Tracking(y, x)'
      BY <1>1, <2>1, <2>2, <2>3, <2>4, TrackingStable
    <2> QED
      BY <2>1, <2>5 DEF Tracking
  <1> QED
    BY <1>5, <1>6, <1>9 DEF TidyInv

\* One package for each slot comes out of a base with one for each, and of
\* adds with one for each.
LEMMA TargetIsOneEach ==
  ASSUME NEW q \in Requests, NEW base, base \subseteq Pkg, OneEach(base), OneEach(q.add)
  PROVE  OneEach(Target(q, base))
  BY DEF OneEach, Target, SameSlot

LEMMA BatchKeepsTidy ==
  ASSUME RetentionInv, HistoryInv', TidyInv, AddsApart, NEW p \in Proc, Batch(p), made' # made
  PROVE  TidyInv'
  <1>0. HistoryInv /\ Order /\ Order' /\ LiveIsHead
    BY DEF RetentionInv, HistoryInv, Order
  <1> SUFFICES ASSUME NEW ring \in Ring, ring = my[p].req.ring, NEW id \in Id, id = made + 1
               PROVE  TidyInv'
    BY <1>0, BatchAppends
  <1>1. /\ made \in Nat /\ made' = id
        /\ releases'[id].ring = ring
        /\ \A i \in Made : releases'[i] = releases[i] /\ held'[i] = held[i] /\ deltas'[i] = deltas[i]
        /\ deltas'[id] = Delta(held'[id], ringPackages[ring])
    BY <1>0, BatchAppends
  <1>2. /\ releases'[id].parent = ringHeads[ring]
        /\ releasePackages'[id] = (IF releases'[id].checkpoint THEN held'[id] ELSE {})
        /\ \A i \in Id \ {id} : releasePackages'[i] = releasePackages[i]
        /\ my[p].req \in Requests
        /\ held'[id] = Target(my[p].req, Base(my[p]))
        /\ pc'[p] = "members"
        /\ \A q \in Proc \ {p} : my'[q] = my[q] /\ pc'[q] = pc[q]
        /\ gc.pc = "idle" /\ gc' = gc
    BY <1>0, BatchMakes
  <1>3. /\ Made' = Made \cup {id} /\ id \notin Made /\ Made \subseteq Id /\ id \in Nat
        /\ \A i \in Made : i < id /\ i \in Nat
        /\ \A q \in Proc : my[q] \in Local /\ my'[q] \in Local
        /\ \A q \in Proc : pc[q] \in OnMembers => my[q].goal \in Made
    BY <1>1, StoreAssumption
       DEF Made, HistoryInv, Order, Types, TypeOK, TablesOK, Id0, Id, RetentionInv, Scheduled, Suits
  <1>4. \A r \in Ring : ringHeads[r] # 0 => ringHeads[r] \in Made /\ ringPackages[r] = held[ringHeads[r]]
    BY <1>0 DEF LiveIsHead, OfRing
  <1>5. \A r \in Ring : OneEach(ringPackages[r]) /\ ringPackages[r] \subseteq Pkg
    <2>1. \A r \in Ring : ringHeads[r] = 0 => ringPackages[r] = {}
      BY <1>0 DEF LiveIsHead
    <2>2. \A i \in Made : OneEach(held[i])
      BY DEF TidyInv, Tidy
    <2>3. OneEach({})
      BY DEF OneEach
    <2>4. \A r \in Ring : ringPackages[r] \subseteq Pkg
      BY <1>0 DEF Order, Types, TypeOK, TablesOK
    <2> QED
      BY <1>4, <2>1, <2>2, <2>3, <2>4
  <1>6. \A i \in Id : OneEach(releasePackages[i])
    <2>1. \A i \in Made : releasePackages[i] \subseteq held[i] /\ OneEach(held[i])
      BY DEF TidyInv, Tidy
    <2>2. \A i \in Id \ Made : releasePackages[i] = {}
      BY DEF TidyInv, Tidy
    <2> QED
      BY <2>1, <2>2 DEF OneEach
  <1>7. OneEach(Base(my[p])) /\ Base(my[p]) \subseteq Pkg
    <2>1. my[p].live \in Ring \cup {None} /\ my[p].goal \in Id \cup {0} /\ packages \subseteq Pkg
      BY <1>0, <1>3 DEF Local, Id0, Id, Order, Types, TypeOK, TablesOK
    <2>2. PICK R : R = Rows(my[p].live, my[p].goal)
      OBVIOUS
    <2>3. OneEach(R) /\ R \subseteq Pkg
      BY <1>5, <1>6, <2>1, <2>2 DEF Rows, OneEach
    <2>4. \/ Base(my[p]) = R
          \/ Base(my[p]) = InArch(R, my[p].req.arch) \cup (ringPackages[ring] \ InArch(Pkg, my[p].req.arch))
      BY <2>2 DEF Base
    <2> QED
      BY <1>5, <2>3, <2>4 DEF OneEach, InArch, SameSlot
  <1>8. OneEach(held'[id])
    <2>1. OneEach(my[p].req.add)
      BY <1>2 DEF AddsApart
    <2>2. PICK q, base : q = my[p].req /\ base = Base(my[p])
      OBVIOUS
    <2>3. OneEach(Target(q, base))
      BY <1>2, <1>7, <2>1, <2>2, TargetIsOneEach
    <2> QED
      BY <1>2, <2>2, <2>3
  <1>9. \A i \in Made : Backed(i)' => Backed(i)
    <2> SUFFICES ASSUME NEW i \in Made, Backed(i)' PROVE Backed(i)
      OBVIOUS
    <2>1. PICK c \in Made' : releases'[c].checkpoint /\ releases'[c].ring = releases'[i].ring /\ c < i
      BY DEF Backed
    <2>2. c \in Made
      BY <1>3, <2>1
    <2> QED
      BY <1>1, <2>1, <2>2 DEF Backed
  <1>10. ASSUME NEW i \in Made', Backed(i)' PROVE deltas'[i] = Delta(held'[i], held'[releases'[i].parent])
    <2>1. CASE i \in Made
      <3>1. Backed(i)
        BY <1>9, <1>10, <2>1
      <3>2. deltas[i] = Delta(held[i], held[releases[i].parent]) /\ releases[i].parent \in Made
        BY <1>0, <2>1, <3>1, BackedHasParent DEF TidyInv, Tidy
      <3> QED
        BY <1>1, <2>1, <3>2
    <2>2. CASE i = id
      <3>1. releases'[id].parent # 0
        <4>1. PICK c \in Made' : releases'[c].ring = releases'[id].ring /\ c < id
          BY <1>10, <2>2 DEF Backed
        <4>2. id \in Made'
          BY <1>3
        <4> QED
          BY <4>1, <4>2 DEF HistoryInv, Linked
      <3> QED
        BY <1>1, <1>2, <1>4, <2>2, <3>1
    <2> QED
      BY <1>3, <2>1, <2>2
  <1>11. Tidy'
    <2>1. \A i \in Made' : releasePackages'[i] \subseteq held'[i]
      BY <1>1, <1>2, <1>3 DEF TidyInv, Tidy
    <2>2. \A i \in Made' : OneEach(held'[i])
      BY <1>1, <1>3, <1>8 DEF TidyInv, Tidy
    <2>3. \A i \in Id \ Made' : releasePackages'[i] = {}
      BY <1>2, <1>3 DEF TidyInv, Tidy
    <2> QED
      BY <1>10, <2>1, <2>2, <2>3 DEF Tidy, OneEach
  <1>12. Sweeping'
    BY <1>2 DEF Sweeping
  <1>13. ASSUME NEW q \in Proc PROVE Tracking(pc[q], my[q])'
    <2>1. CASE q = p
      BY <1>2, <2>1 DEF Tracking
    <2>2. CASE q # p
      <3>1. PICK x, y : x \in Local /\ x = my[q] /\ y = pc[q]
        BY <1>3
      <3>2. my'[q] = x /\ pc'[q] = y
        BY <1>2, <2>2, <3>1
      <3>3. Tracking(y, x)
        BY <3>1 DEF TidyInv
      <3>4. Tracking(y, x)'
        BY <1>0, <1>1, <1>3, <3>1, <3>3, TrackingStable
      <3> QED
        BY <3>2, <3>4 DEF Tracking
    <2> QED
      BY <2>1, <2>2
  <1> QED
    BY <1>11, <1>12, <1>13 DEF TidyInv

\* The retention job keeps it in every state it may end in: rows and flags only
\* go, and a delta goes when no checkpoint is older.
LEMMA GcKeepsTidy ==
  ASSUME RetentionInv, Serial, TidyInv, GcStep
  PROVE  TidyInv'
  <1>0. HistoryInv /\ Order /\ gc \in GcState
    BY DEF RetentionInv, HistoryInv, Order, Types, TypeOK
  <1>1. /\ UNCHANGED <<made, held>> /\ Made' = Made
        /\ \A q \in Proc : pc'[q] = "idle"
        /\ \A i \in Id : /\ releases'[i].ring = releases[i].ring /\ releases'[i].seq = releases[i].seq
                         /\ releases'[i].parent = releases[i].parent
    BY GcLeaves DEF Made
  <1>2. Made \subseteq Id /\ Made \subseteq Nat
    BY StoreAssumption DEF RetentionInv, HistoryInv, Order, Types, TypeOK, TablesOK, Made, Id, Id0
  <1>3. \A p \in Proc : Tracking(pc[p], my[p])'
    BY <1>1 DEF Tracking
  <1>4. \A i, j \in Made : releases[i].ring = releases[j].ring /\ i < j => releases[i].seq < releases[j].seq
    BY <1>0 DEF Order, LiveIsHead, OfRing, HistoryInv, Linked
  <1>5. \A i \in Made : releases[i].seq \in Nat
    BY <1>0, <1>2, StoreAssumption DEF Order, Types, TypeOK, TablesOK, Release
  \* No row, flag or delta changes.
  <1>a. ASSUME UNCHANGED <<releases, releasePackages, deltas>> PROVE Tidy'
    BY <1>1, <1>a DEF TidyInv, Tidy, Backed, OneEach
  <1>6. CASE GcStart
    <2>1. gc'.pc = "retain" /\ gc'.kept = {} /\ gc'.bases = {} /\ UNCHANGED <<releases, releasePackages, deltas>>
      BY <1>6 DEF GcStart, GcIdle, store
    <2>2. Sweeping'
      BY <2>1 DEF Sweeping
    <2> QED
      BY <1>3, <1>a, <2>1, <2>2 DEF TidyInv
  <1>7. ASSUME NEW r \in Ring, GcRetain(r) PROVE TidyInv'
    <2> DEFINE flagged == {i \in Protected(r) : releases[i].checkpoint}
               new == KeptBase(r)
    <2>1. /\ gc.pc = "retain" /\ r \in gc.todo
          /\ gc'.pc \in {"retain", "select"}
          /\ gc'.todo = gc.todo \ {r}
          /\ gc'.kept = (gc.kept \cup flagged) \cup new
          /\ gc'.bases = gc.bases \cup new
          /\ UNCHANGED <<releases, releasePackages, deltas>>
      BY <1>0, <1>7 DEF GcRetain, GcState, store
    <2>2. \A i \in flagged \cup new : i \in Made /\ releases[i].ring = r
      BY DEF Protected, KeptBase, OfRing
    <2>3. \A b \in new, c \in flagged \cup new : releases[b].seq <= releases[c].seq
      BY DEF KeptBase
    <2> HIDE DEF flagged, new
    <2>4. \A c \in gc.kept \cup gc.bases : c \in Made /\ releases[c].ring \notin gc.todo /\ releases[c].ring # r
      BY <2>1 DEF TidyInv, Sweeping
    <2>5. \A b \in gc.bases, c \in gc.kept : releases[b].ring = releases[c].ring => releases[b].seq <= releases[c].seq
      BY <2>1 DEF TidyInv, Sweeping
    <2>6. \A c \in gc'.kept \cup gc'.bases : c \in Made /\ releases[c].ring \notin gc'.todo
      BY <2>1, <2>2, <2>4
    <2>7. \A b \in gc'.bases, c \in gc'.kept : releases[b].ring = releases[c].ring => releases[b].seq <= releases[c].seq
      BY <2>1, <2>2, <2>3, <2>4, <2>5
    <2>8. Sweeping'
      BY <1>1, <2>1, <2>6, <2>7 DEF Sweeping
    <2> QED
      BY <1>3, <1>a, <2>1, <2>8 DEF TidyInv
  <1>8. CASE GcSelect \/ GcRow \/ GcEnd \/ \E v \in Pkg : GcObject(v)
    <2>1. UNCHANGED <<releases, releasePackages, deltas>>
      BY <1>8 DEF GcSelect, GcRow, GcEnd, GcObject, store
    <2>2. \/ gc'.pc = "idle"
          \/ gc.pc # "idle" /\ gc'.pc \in {"rows", "victims", "row"} /\ gc'.kept = gc.kept /\ gc'.bases = gc.bases
      <3>1. CASE GcSelect
        BY <1>0, <3>1 DEF GcSelect, GcState
      <3>2. CASE GcRow
        <4>1. \/ gc' = GcIdle
              \/ gc' = [gc EXCEPT !.pc = "victims", !.victims = @ \ {gc.victim}, !.victim = None]
          BY <3>2 DEF GcRow
        <4>2. gc.pc = "row"
          BY <3>2 DEF GcRow
        <4>3. CASE gc' = GcIdle
          BY <4>3 DEF GcIdle
        <4>4. CASE gc' = [gc EXCEPT !.pc = "victims", !.victims = @ \ {gc.victim}, !.victim = None]
          BY <1>0, <4>2, <4>4 DEF GcState
        <4> QED
          BY <4>1, <4>3, <4>4
      <3>3. CASE GcEnd
        BY <3>3 DEF GcEnd, GcIdle
      <3>4. ASSUME NEW v \in Pkg, GcObject(v)
            PROVE  gc.pc # "idle" /\ gc'.pc \in {"rows", "victims", "row"} /\ gc'.kept = gc.kept /\ gc'.bases = gc.bases
        BY <1>0, <3>4 DEF GcObject, GcState
      <3> QED
        BY <1>8, <3>1, <3>2, <3>3, <3>4
    <2>3. Sweeping'
      BY <1>1, <2>1, <2>2 DEF TidyInv, Sweeping
    <2> QED
      BY <1>3, <1>a, <2>1, <2>3 DEF TidyInv
  <1>9. CASE GcRows
    <2>1. /\ gc.pc = "rows" /\ gc'.pc = "flags" /\ gc'.kept = gc.kept /\ gc'.bases = gc.bases
          /\ UNCHANGED <<releases, deltas>>
          /\ \A i \in Id : releasePackages'[i] = IF i \in gc.kept THEN releasePackages[i] ELSE {}
      BY <1>0, <1>9 DEF GcRows, GcState
    <2>2. Sweeping'
      BY <1>1, <2>1 DEF TidyInv, Sweeping
    <2>3. \A i \in Made : releasePackages'[i] \subseteq held[i]
      BY <1>2, <2>1 DEF TidyInv, Tidy
    <2>4. \A i \in Id \ Made : releasePackages'[i] = {}
      BY <2>1 DEF TidyInv, Tidy
    <2>5. Tidy'
      BY <1>1, <2>1, <2>3, <2>4 DEF TidyInv, Tidy, Backed, OneEach
    <2> QED
      BY <1>3, <2>2, <2>5 DEF TidyInv
  <1>10. CASE GcFlags
    <2>1. /\ gc.pc = "flags" /\ gc'.pc = "deltas" /\ gc'.kept = gc.kept /\ gc'.bases = gc.bases
          /\ UNCHANGED <<releasePackages, deltas>>
      BY <1>0, <1>10 DEF GcFlags, GcState
    <2>2. \A i \in Id : releases'[i].checkpoint <=> releases[i].checkpoint /\ i \in gc.kept
      <3>1. releases \in [Id -> Release]
        BY <1>0 DEF Order, Types, TypeOK, TablesOK
      <3> QED
        BY <1>10, <3>1 DEF GcFlags, Release
    <2>3. Sweeping'
      BY <1>1, <1>2, <2>1, <2>2 DEF TidyInv, Sweeping
    <2>4. \A i \in Made : Backed(i)' => Backed(i)
      BY <1>1, <1>2, <2>2 DEF Backed
    <2>5. \A i \in Made : Backed(i)' => deltas'[i] = Delta(held'[i], held'[releases'[i].parent])
      BY <1>1, <1>2, <2>1, <2>4 DEF TidyInv, Tidy
    <2>6. Tidy'
      BY <1>1, <2>1, <2>5 DEF TidyInv, Tidy, OneEach
    <2> QED
      BY <1>3, <2>3, <2>6 DEF TidyInv
  <1>11. CASE GcDeltas
    <2>1. /\ gc.pc = "deltas" /\ gc'.pc = "victims" /\ gc'.kept = gc.kept /\ gc'.bases = gc.bases
          /\ UNCHANGED <<releases, releasePackages>>
          /\ \A i \in Id : ~Forgotten(i) => deltas'[i] = deltas[i]
      BY <1>0, <1>11 DEF GcDeltas, GcState
    <2>2. Sweeping'
      BY <1>1, <2>1 DEF TidyInv, Sweeping
    <2>3. ASSUME NEW i \in Made, Backed(i) PROVE ~Forgotten(i)
      <3> SUFFICES ASSUME NEW b \in gc.bases, releases[i].ring = releases[b].ring, releases[i].seq <= releases[b].seq
                   PROVE  FALSE
        BY DEF Forgotten
      <3>1. PICK c \in Made : releases[c].checkpoint /\ releases[c].ring = releases[i].ring /\ c < i
        BY <2>3 DEF Backed
      <3>2. c \in gc.kept /\ b \in Made
        BY <2>1, <3>1 DEF TidyInv, Sweeping
      <3>3. releases[b].seq <= releases[c].seq
        BY <2>1, <3>1, <3>2 DEF TidyInv, Sweeping
      <3>4. releases[c].seq < releases[i].seq
        BY <1>4, <3>1
      <3> QED
        BY <1>5, <3>2, <3>3, <3>4
    <2>4. \A i \in Made : Backed(i)' => Backed(i)
      BY <1>1, <2>1 DEF Backed
    <2>5. \A i \in Made : Backed(i)' => deltas'[i] = Delta(held'[i], held'[releases'[i].parent])
      BY <1>1, <1>2, <2>1, <2>3, <2>4 DEF TidyInv, Tidy
    <2>6. Tidy'
      BY <1>1, <2>1, <2>5 DEF TidyInv, Tidy, OneEach
    <2> QED
      BY <1>3, <2>2, <2>6 DEF TidyInv
  <1> QED
    BY <1>6, <1>7, <1>8, <1>9, <1>10, <1>11 DEF GcStep

\* Whatever can be rebuilt is rebuilt within what it was made to hold.
LEMMA RebuiltWithin ==
  ASSUME HistoryInv, Tidy, NEW i \in Made, CanRebuild[i]
  PROVE  Rebuilt[i] \subseteq held[i] /\ (releases[i].checkpoint \/ Backed(i))
  <1> DEFINE Within(j) == CanRebuild[j] => Rebuilt[j] \subseteq held[j] /\ (releases[j].checkpoint \/ Backed(j))
             S == {j \in Made : ~Within(j)}
  <1>0. TypeOK /\ Backward /\ Made \subseteq Nat /\ Made \subseteq Id
    BY ParentsAreOlder, StoreAssumption DEF HistoryInv, Order, Types, TypeOK, TablesOK, Made, Id, Id0
  <1>1. SUFFICES ASSUME S # {} PROVE FALSE
    OBVIOUS
  <1>2. PICK k \in S : \A j \in S : k <= j
    <2>1. S \subseteq Nat
      BY <1>0
    <2> HIDE DEF S
    <2> QED
      BY <1>1, <2>1, LeastExists
  <1>3. k \in Made /\ k \in Id /\ k \in Nat /\ ~Within(k) /\ CanRebuild[k]
    BY <1>0, <1>2
  <1>4. /\ CanRebuild[k] = CanRebuildFrom(CanRebuild, k)
        /\ Rebuilt[k] = RebuiltFrom(Rebuilt, k)
    BY <1>0, <1>3, RebuiltIs, CanRebuildIs
  <1>5. CASE releases[k].checkpoint
    <2>1. Rebuilt[k] \subseteq held[k]
      BY <1>3, <1>4, <1>5 DEF RebuiltFrom, Tidy
    <2> QED
      BY <1>3, <1>5, <2>1
  <1>6. CASE ~releases[k].checkpoint
    <2>1. PICK m : m = releases[k].parent
      OBVIOUS
    <2>2. m # 0 /\ CanRebuild[m]
      BY <1>3, <1>4, <1>6, <2>1 DEF CanRebuildFrom
    <2>3. m \in Made /\ m < k
      BY <1>3, <2>1, <2>2 DEF HistoryInv, Linked
    <2>4. Within(m)
      <3>1. m \notin S
        BY <1>0, <1>2, <1>3, <2>3
      <3> QED
        BY <2>3, <3>1
    <2>5. Rebuilt[m] \subseteq held[m] /\ (releases[m].checkpoint \/ Backed(m))
      BY <2>2, <2>4
    <2>6. Backed(k)
      BY <1>3, <2>1, <2>3, <2>5, BackedBy
    <2>7. deltas[k] = Delta(held[k], held[m])
      BY <1>3, <2>1, <2>6 DEF Tidy
    <2>8. Rebuilt[k] = Apply(Rebuilt[m], Delta(held[k], held[m]))
      BY <1>4, <1>6, <2>1, <2>2, <2>7 DEF RebuiltFrom
    <2>9. Rebuilt[k] \subseteq held[k]
      BY <2>5, <2>8, ApplyShrinks
    <2> QED
      BY <1>3, <2>6, <2>9
  <1> QED
    BY <1>5, <1>6

\* What a reader materialises keeps it.
LEMMA MaterialiseKeepsTidy ==
  ASSUME RetentionInv, RetentionInv', TidyInv, gc.pc = "idle",
         NEW S \in SUBSET Made, \A i \in S : Readable(i), Materialise(S)
  PROVE  TidyInv'
  <1>0. HistoryInv /\ HistoryInv' /\ Types /\ Tidy /\ Made \subseteq Id
    BY StoreAssumption DEF RetentionInv, HistoryInv, Order, Types, TypeOK, TablesOK, Made, Id, Id0, TidyInv
  <1>1. /\ UNCHANGED <<made, deltas, artifacts, ringHeads, ringPackages, held, pool, databases, pc, my, gc>>
        /\ \A i \in Id : /\ releases'[i].ring = releases[i].ring /\ releases'[i].parent = releases[i].parent
                         /\ releases[i].checkpoint => releases'[i].checkpoint
        /\ \A i \in Id : \/ releasePackages'[i] = releasePackages[i] /\ releases'[i].checkpoint = releases[i].checkpoint
                         \/ i \in S /\ CanRebuild[i] /\ ~releases[i].checkpoint /\ releasePackages'[i] = Rebuilt[i]
    BY <1>0, MaterialiseWrites
  <1>2. Made' = Made
    BY <1>1 DEF Made
  <1>3. \A i \in Made : CanRebuild[i] /\ ~releases[i].checkpoint => Rebuilt[i] \subseteq held[i] /\ Backed(i)
    BY <1>0, RebuiltWithin
  <1>4. /\ \A i \in Made : releasePackages'[i] \subseteq held[i]
        /\ \A i \in Made : releases'[i].checkpoint => releases[i].checkpoint \/ Backed(i)
        /\ \A i \in Id \ Made : releasePackages'[i] = {}
    BY <1>0, <1>1, <1>3 DEF Tidy
  <1>5. ASSUME NEW i \in Made, Backed(i)' PROVE Backed(i)
    <2>1. \A j \in Made : releases'[j].ring = releases[j].ring
      BY <1>0, <1>1
    <2> QED
      BY <1>0, <1>2, <1>4, <1>5, <2>1, BackedBefore
  <1>6. Tidy'
    <2>1. ASSUME NEW i \in Made, Backed(i)' PROVE deltas'[i] = Delta(held'[i], held'[releases'[i].parent])
      <3>1. deltas[i] = Delta(held[i], held[releases[i].parent])
        BY <1>0, <1>5, <2>1 DEF Tidy
      <3> QED
        BY <1>0, <1>1, <3>1
    <2>2. \A i \in Made : OneEach(held'[i])
      BY <1>0, <1>1 DEF Tidy
    <2> QED
      BY <1>1, <1>2, <1>4, <2>1, <2>2 DEF Tidy, OneEach
  <1>7. Sweeping'
    BY <1>1 DEF Sweeping
  <1>8. ASSUME NEW q \in Proc PROVE Tracking(pc[q], my[q])'
    <2>1. PICK x, y : x = my[q] /\ y = pc[q] /\ x = my'[q] /\ y = pc'[q]
      BY <1>1
    <2>2. x \in Local
      BY <1>0, <2>1 DEF Types, TypeOK
    <2>3. Tracking(y, x)
      BY <2>1 DEF TidyInv
    <2>4. y \in OnMembers => x.goal \in Made
      BY <1>0, <2>1 DEF HistoryInv, Scheduled, Suits
    <2>5. \A i \in Made : /\ releases'[i].ring = releases[i].ring /\ releases'[i].parent = releases[i].parent
                          /\ releases[i].checkpoint => releases'[i].checkpoint
                          /\ held'[i] = held[i]
      BY <1>0, <1>1
    <2>6. Made \subseteq Made'
      BY <1>2
    <2>7. Tracking(y, x)'
      BY <1>0, <2>2, <2>3, <2>4, <2>5, <2>6, TrackingStable
    <2> QED
      BY <2>1, <2>7 DEF Tracking
  <1> QED
    BY <1>6, <1>7, <1>8 DEF TidyInv

LEMMA StepKeepsTidy ==
  ASSUME RetentionInv, Serial, AddsApart, TidyInv, [Next]_vars
  PROVE  TidyInv'
  <1>0. HistoryInv /\ RetentionInv' /\ HistoryInv'
    BY StepKeepsRetention DEF RetentionInv
  <1>1. ASSUME NEW p \in Proc, Create(p) \/ Membership(p) \/ Read(p) \/ Render(p) \/ End(p), made' = made
        PROVE  TidyInv'
    BY <1>0, <1>1, ProcessesKeepTidy
  <1>2. CASE made' # made
    BY <1>0, <1>2, OnlyBatchesMake, BatchKeepsTidy DEF HistoryInv
  <1>3. CASE GcStep
    BY <1>3, GcKeepsTidy
  <1>4. CASE GracePasses \/ UNCHANGED vars
    <2>1. UNCHANGED <<store, pc, my, gc>>
      BY <1>4 DEF GracePasses, vars
    <2>2. Tidy'
      BY <2>1 DEF store, TidyInv, Tidy, Backed, OneEach, Made
    <2>3. Sweeping'
      BY <2>1 DEF store, TidyInv, Sweeping, Made
    <2>4. \A p \in Proc : Tracking(pc[p], my[p])'
      BY <2>1 DEF store, TidyInv, Tracking, Backed, Made
    <2> QED
      BY <2>2, <2>3, <2>4 DEF TidyInv
  <1> QED
    BY <1>1, <1>2, <1>3, <1>4 DEF Next

LEMMA InitTidy == Init => TidyInv
  <1> SUFFICES ASSUME Init PROVE TidyInv
    OBVIOUS
  <1>1. Made = {} /\ gc.pc = "idle" /\ (\A i \in Id : releasePackages[i] = {}) /\ \A p \in Proc : pc[p] = "idle"
    BY DEF Init, Made, GcIdle
  <1>2. Tidy
    BY <1>1 DEF Tidy
  <1>3. Sweeping
    BY <1>1 DEF Sweeping
  <1>4. \A p \in Proc : Tracking(pc[p], my[p])
    BY <1>1 DEF Tracking
  <1> QED
    BY <1>2, <1>3, <1>4 DEF TidyInv

-----------------------------------------------------------------------------
(* The comparison.                                                         *)

\* Applied to the one selection, a comparison gives the other, if that has one
\* package for each slot.
LEMMA CompareTurns ==
  ASSUME NEW A, NEW B, OneEach(B), NEW d, d = Compare(A, B)
  PROVE  B = (A \ (d.removed \cup {u[1] : u \in d.upgraded})) \cup d.added \cup {u[2] : u \in d.upgraded}
  <1> DEFINE gone == {a \in A : \A p \in B : RowKey(p) # RowKey(a)}
             came == {p \in B : \A a \in A : RowKey(a) # RowKey(p)}
             pairs == {u \in A \X B : RowKey(u[1]) = RowKey(u[2]) /\ u[1] # u[2]}
  <1>1. d.removed = gone /\ d.added = came /\ d.upgraded = pairs
    <2>1. d.added = {p \in B : {b \in A : RowKey(b) = RowKey(p)} = {}}
      BY DEF Compare
    <2>2. \A p \in B : {b \in A : RowKey(b) = RowKey(p)} = {} <=> \A a \in A : RowKey(a) # RowKey(p)
      OBVIOUS
    <2>3. d.added = came
      BY <2>1, <2>2
    <2>4. d.removed = gone /\ d.upgraded = pairs
      BY DEF Compare
    <2> QED
      BY <2>3, <2>4
  <1>2. \A a, b : RowKey(a) = RowKey(b) <=> SameSlot(a, b)
    BY DEF RowKey, SameSlot
  <1>3. \A p, q \in B : RowKey(p) = RowKey(q) => p = q
    BY <1>2 DEF OneEach
  <1>4. {u[1] : u \in pairs} = {a \in A : \E b \in B : RowKey(a) = RowKey(b) /\ a # b}
    <2>1. ASSUME NEW a \in A, NEW b \in B, RowKey(a) = RowKey(b), a # b
          PROVE  a \in {u[1] : u \in pairs}
      <3>1. <<a, b>> \in pairs /\ <<a, b>>[1] = a
        BY <2>1
      <3> QED
        BY <3>1
    <2> QED
      BY <2>1
  <1>5. {u[2] : u \in pairs} = {b \in B : \E a \in A : RowKey(a) = RowKey(b) /\ a # b}
    <2>1. ASSUME NEW a \in A, NEW b \in B, RowKey(a) = RowKey(b), a # b
          PROVE  b \in {u[2] : u \in pairs}
      <3>1. <<a, b>> \in pairs /\ <<a, b>>[2] = b
        BY <2>1
      <3> QED
        BY <3>1
    <2> QED
      BY <2>1
  <1> DEFINE left == {u[1] : u \in pairs}
             new == {u[2] : u \in pairs}
  <1>6. /\ \A x : x \in left <=> x \in A /\ \E b \in B : RowKey(x) = RowKey(b) /\ x # b
        /\ \A x : x \in new <=> x \in B /\ \E a \in A : RowKey(a) = RowKey(x) /\ a # x
    BY <1>4, <1>5
  <1>7. /\ \A x : x \in gone <=> x \in A /\ \A p \in B : RowKey(p) # RowKey(x)
        /\ \A x : x \in came <=> x \in B /\ \A a \in A : RowKey(a) # RowKey(x)
    OBVIOUS
  <1> HIDE DEF gone, came, pairs, left, new
  <1>8. ASSUME NEW x \in B PROVE x \in (A \ (gone \cup left)) \cup came \cup new
    <2> SUFFICES ASSUME x \notin came, x \notin new PROVE x \in A /\ x \notin gone /\ x \notin left
      OBVIOUS
    <2>1. PICK a \in A : RowKey(a) = RowKey(x)
      BY <1>7
    <2>2. a = x
      BY <1>6, <2>1
    <2>3. x \notin gone
      BY <1>7
    <2>4. x \notin left
      BY <1>3, <1>6
    <2> QED
      BY <2>1, <2>2, <2>3, <2>4
  <1>9. ASSUME NEW x \in (A \ (gone \cup left)) \cup came \cup new PROVE x \in B
    <2>1. CASE x \in A /\ x \notin gone /\ x \notin left
      <3>1. PICK b \in B : RowKey(b) = RowKey(x)
        BY <1>7, <2>1
      <3>2. x = b
        BY <1>6, <2>1, <3>1
      <3> QED
        BY <3>2
    <2>2. CASE x \in came \/ x \in new
      BY <1>6, <1>7, <2>2
    <2> QED
      BY <1>9, <2>1, <2>2
  <1>10. B = (A \ (gone \cup left)) \cup came \cup new
    BY <1>8, <1>9
  <1> QED
    BY <1>1, <1>10 DEF left, new

\* The invariant of comparisons.
CompareInv == WalkInv /\ TidyInv

LEMMA StepKeepsCompare ==
  ASSUME CompareInv, Serial, AddsApart, [ReadsNext]_readVars
  PROVE  CompareInv'
  <1>0. RetentionInv /\ TidyInv /\ WalkInv /\ WalkInv' /\ RetentionInv'
    BY StepKeepsWalk DEF CompareInv, WalkInv
  <1>1. CASE [Next]_vars
    BY <1>0, <1>1, StepKeepsTidy DEF CompareInv
  <1>2. ASSUME gc.pc = "idle", NEW S \in SUBSET Made, \A i \in S : Readable(i), Materialise(S)
        PROVE  TidyInv'
    BY <1>0, <1>2, MaterialiseKeepsTidy
  <1>3. ASSUME NEW a \in Arch, NEW n \in Limits, StartWalk(a, n)
        PROVE  UNCHANGED vars
    BY <1>3 DEF StartWalk
  <1>4. ASSUME NEW r \in Ring, handleGetRelease(r), ~UNCHANGED vars
        PROVE  TidyInv'
    <2>1. PICK i : i = IF walk.release = 0 THEN ringHeads[r] ELSE walk.release
      OBVIOUS
    <2>2. gc.pc = "idle" /\ i # 0 /\ Readable(i) /\ Materialise({i})
      BY <1>4, <2>1 DEF handleGetRelease, MayStart
    <2>3. i \in Made
      <3>1. ringHeads[r] # 0 => ringHeads[r] \in Made
        BY <1>0 DEF RetentionInv, HistoryInv, Order, LiveIsHead, OfRing
      <3>2. walk.release # 0 => walk.release \in Made
        BY <1>0 DEF WalkInv, Walked
      <3> QED
        BY <2>1, <2>2, <3>1, <3>2
    <2>4. {i} \in SUBSET Made /\ \A k \in {i} : Readable(k)
      BY <2>2, <2>3
    <2> QED
      BY <1>2, <2>2, <2>4
  <1>5. ASSUME NEW to \in Id0, NEW from \in Id0, handleReleaseDiff(to, from)
        PROVE  TidyInv'
    BY <1>0, <1>2, <1>5, DiffReads
  <1>6. CASE UNCHANGED readVars
    BY <1>1, <1>6 DEF readVars
  <1>7. CASE TidyInv'
    BY <1>0, <1>7 DEF CompareInv
  <1> QED
    BY <1>1, <1>3, <1>4, <1>5, <1>6, <1>7 DEF ReadsNext

\* Between two releases inside retention a comparison is answered, and turns
\* the one selection into the other, provided that no creation adds two
\* packages of one slot.
THEOREM ComparisonsTurnOneIntoTheOther ==
  ASSUME Serial, AddsApart
  PROVE  ReadsSpec => []DiffExact
  <1>1. CompareInv /\ [ReadsNext]_readVars => CompareInv'
    BY StepKeepsCompare
  <1>2. ReadsInit => CompareInv
    BY InitWalk, InitTidy DEF ReadsInit, CompareInv
  <1>3. CompareInv => DiffExact
    <2> SUFFICES ASSUME CompareInv, NEW to \in Retained, NEW from \in Retained
                 PROVE  /\ Readable(to) /\ Readable(from)
                        /\ LET d == Compare(MembersOf(from), MembersOf(to))
                           IN  held[to] = (held[from] \ (d.removed \cup {u[1] : u \in d.upgraded}))
                                             \cup d.added \cup {u[2] : u \in d.upgraded}
      BY DEF DiffExact
    <2>1. /\ to \in Made /\ Readable(to) /\ MembersOf(to) = held[to]
          /\ Readable(from) /\ MembersOf(from) = held[from]
      BY MembersAreHeld DEF CompareInv, WalkInv
    <2>2. OneEach(held[to])
      BY <2>1 DEF CompareInv, TidyInv, Tidy
    <2>3. PICK A, B : A = held[from] /\ B = held[to]
      OBVIOUS
    <2>4. PICK d : d = Compare(A, B)
      OBVIOUS
    <2>5. B = (A \ (d.removed \cup {u[1] : u \in d.upgraded})) \cup d.added \cup {u[2] : u \in d.upgraded}
      BY <2>2, <2>3, <2>4, CompareTurns
    <2> QED
      BY <2>1, <2>3, <2>4, <2>5
  <1> QED
    BY <1>1, <1>2, <1>3, PTL DEF ReadsSpec
=============================================================================
