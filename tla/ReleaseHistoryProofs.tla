------------------------- MODULE ReleaseHistoryProofs -------------------------
(***************************************************************************)
(* What the release store promises of the past: under the schedule that    *)
(* its callers keep to, every release that retention protects can be       *)
(* rebuilt exactly and all its packages and objects stay, while releases   *)
(* are made, checkpoints are written and the retention job works or dies   *)
(* anywhere; without retention that holds of every release ever made.      *)
(* One invocation at a time, the store is a refinement of RingHistory.     *)
(* Of creations that overlap on a ring, that none makes a release without  *)
(* a checkpoint behind it; that the parent is the release before it, and   *)
(* the reconstruction exact, needs the schedule.                           *)
(***************************************************************************)
EXTENDS ReleaseStoreProofs, WellFoundedInduction, FiniteSetTheorems

\* Every nonempty set of natural numbers has a least element.
LEMMA LeastExists ==
  ASSUME NEW S \in SUBSET Nat, S # {}
  PROVE  \E m \in S : \A k \in S : m <= k
  <1> DEFINE R == OpToRel(<, Nat)
  <1>1. IsWellFoundedOn(R, Nat)
    BY NatLessThanWellFounded
  <1>2. \A k, m \in Nat : k < m => <<k, m>> \in R
    BY DEF OpToRel
  <1> HIDE DEF R
  <1>3. PICK m \in S : \A k \in S : ~(<<k, m>> \in R)
    BY <1>1, WFMin
  <1>4. \A k \in S : m <= k
    <2> TAKE k \in S
    <2>1. k \in Nat /\ m \in Nat /\ ~(k < m)
      BY <1>2, <1>3
    <2> QED
      BY <2>1
  <1> QED
    BY <1>3, <1>4

-----------------------------------------------------------------------------
(* Reconstruction is recursion along the parents, which are older.         *)

\* A parent is older than its child: the recursions below are founded.
Backward == \A i \in Id : releases[i].parent < i

RebuiltFrom(f, i) ==
    IF releases[i].checkpoint THEN releasePackages[i]
    ELSE IF releases[i].parent = 0 THEN {} ELSE Apply(f[releases[i].parent], deltas[i])

CanRebuildFrom(f, i) ==
    releases[i].checkpoint \/ (releases[i].parent # 0 /\ f[releases[i].parent])

\* A release's reconstruction is that of its parent with its delta applied.
LEMMA RebuiltIs ==
  ASSUME TypeOK, Backward
  PROVE  \A i \in Id : Rebuilt[i] = RebuiltFrom(Rebuilt, i)
  <1> DEFINE Upto(n) == \E f : f = [i \in 1 .. n |-> RebuiltFrom(f, i)]
             Fails   == {n \in Id0 : ~Upto(n)}
  <1>0. /\ MaxReleases \in Nat /\ Id \subseteq Nat /\ Id0 \subseteq Nat
        /\ \A n \in Id : releases[n].parent \in Nat /\ releases[n].parent < n
    BY StoreAssumption DEF Id, Id0, TypeOK, TablesOK, Release, Backward
  <1>1. ASSUME Fails # {} PROVE FALSE
    <2>1. PICK m \in Fails : \A k \in Fails : m <= k
      BY <1>0, <1>1, LeastExists
    <2>2. m # 0
      <3>1. 1 .. 0 = {}
        OBVIOUS
      <3>2. [i \in {} |-> {}] = [i \in 1 .. 0 |-> RebuiltFrom([j \in {} |-> {}], i)]
        BY <3>1
      <3>3. Upto(0)
        BY <3>1, <3>2
      <3> QED
        BY <2>1, <3>3
    <2>3. m \in Id /\ m - 1 \in Id0 /\ m - 1 \notin Fails
      BY <1>0, <2>1, <2>2 DEF Id, Id0
    <2>4. PICK f : f = [i \in 1 .. (m - 1) |-> RebuiltFrom(f, i)]
      BY <2>3
    <2> DEFINE g == [i \in 1 .. m |-> IF i = m THEN RebuiltFrom(f, m) ELSE f[i]]
    <2>5. ASSUME NEW i \in 1 .. m PROVE RebuiltFrom(g, i) = g[i]
      <3>1. i \in Id /\ i \in Nat /\ m \in Nat
        BY <1>0, <2>3 DEF Id
      <3>2. releases[i].parent # 0 => g[releases[i].parent] = f[releases[i].parent]
        BY <1>0, <3>1
      <3>3. RebuiltFrom(g, i) = RebuiltFrom(f, i)
        BY <3>2 DEF RebuiltFrom
      <3>4. i # m => f[i] = RebuiltFrom(f, i)
        BY <2>4, <3>1
      <3> QED
        BY <3>3, <3>4
    <2>6. g = [i \in 1 .. m |-> RebuiltFrom(g, i)]
      BY <2>5
    <2> HIDE DEF g
    <2> QED
      BY <2>1, <2>6
  <1>2. Upto(MaxReleases)
    BY <1>0, <1>1 DEF Id0
  <1>3. Rebuilt = CHOOSE f : f = [i \in Id |-> RebuiltFrom(f, i)]
    BY DEF Rebuilt, RebuiltFrom
  <1>4. Rebuilt = [i \in Id |-> RebuiltFrom(Rebuilt, i)]
    BY <1>2, <1>3 DEF Id
  <1> QED
    BY <1>4

\* It exists when the release is a checkpoint or its parent's exists.
LEMMA CanRebuildIs ==
  ASSUME TypeOK, Backward
  PROVE  \A i \in Id : CanRebuild[i] = CanRebuildFrom(CanRebuild, i)
  <1> DEFINE Upto(n) == \E f : f = [i \in 1 .. n |-> CanRebuildFrom(f, i)]
             Fails   == {n \in Id0 : ~Upto(n)}
  <1>0. /\ MaxReleases \in Nat /\ Id \subseteq Nat /\ Id0 \subseteq Nat
        /\ \A n \in Id : releases[n].parent \in Nat /\ releases[n].parent < n
    BY StoreAssumption DEF Id, Id0, TypeOK, TablesOK, Release, Backward
  <1>1. ASSUME Fails # {} PROVE FALSE
    <2>1. PICK m \in Fails : \A k \in Fails : m <= k
      BY <1>0, <1>1, LeastExists
    <2>2. m # 0
      <3>1. 1 .. 0 = {}
        OBVIOUS
      <3>2. [i \in {} |-> {}] = [i \in 1 .. 0 |-> CanRebuildFrom([j \in {} |-> {}], i)]
        BY <3>1
      <3>3. Upto(0)
        BY <3>1, <3>2
      <3> QED
        BY <2>1, <3>3
    <2>3. m \in Id /\ m - 1 \in Id0 /\ m - 1 \notin Fails
      BY <1>0, <2>1, <2>2 DEF Id, Id0
    <2>4. PICK f : f = [i \in 1 .. (m - 1) |-> CanRebuildFrom(f, i)]
      BY <2>3
    <2> DEFINE g == [i \in 1 .. m |-> IF i = m THEN CanRebuildFrom(f, m) ELSE f[i]]
    <2>5. ASSUME NEW i \in 1 .. m PROVE CanRebuildFrom(g, i) = g[i]
      <3>1. i \in Id /\ i \in Nat /\ m \in Nat
        BY <1>0, <2>3 DEF Id
      <3>2. releases[i].parent # 0 => g[releases[i].parent] = f[releases[i].parent]
        BY <1>0, <3>1
      <3>3. CanRebuildFrom(g, i) = CanRebuildFrom(f, i)
        BY <3>2 DEF CanRebuildFrom
      <3>4. i # m => f[i] = CanRebuildFrom(f, i)
        BY <2>4, <3>1
      <3> QED
        BY <3>3, <3>4
    <2>6. g = [i \in 1 .. m |-> CanRebuildFrom(g, i)]
      BY <2>5
    <2> HIDE DEF g
    <2> QED
      BY <2>1, <2>6
  <1>2. Upto(MaxReleases)
    BY <1>0, <1>1 DEF Id0
  <1>3. CanRebuild = CHOOSE f : f = [i \in Id |-> CanRebuildFrom(f, i)]
    BY DEF CanRebuild, CanRebuildFrom
  <1>4. CanRebuild = [i \in Id |-> CanRebuildFrom(CanRebuild, i)]
    BY <1>2, <1>3 DEF Id
  <1> QED
    BY <1>4
-----------------------------------------------------------------------------
(* The schedule. With Serial, a ring has one writer and the retention job  *)
(* works while nobody else does.                                           *)

\* What an invocation knows at each await: a writer the head of its ring, a
\* reader of members a release that exists.
Suits(label, l) ==
    /\ label = "idle" => l = Blank
    /\ l.work = "create" /\ label # "parent" => l.parent = ringHeads[l.req.ring]
    /\ label = "batch" /\ l.parent = 0 => l.due
    /\ l.work = "create" => l.source \in Made \cup {0}
    /\ label \in OnMembers => l.goal \in Made

\* No two creations work on one ring.
OneWriter ==
    \A p, q \in Proc : my[p].req # None /\ my[q].req # None /\ my[p].req.ring = my[q].req.ring => p = q

\* The job and the invocations exclude each other, and each invocation is where
\* what it has read still holds.
Scheduled ==
    /\ gc.pc # "idle" => \A p \in Proc : pc[p] = "idle"
    /\ "gc" \notin Work => gc.pc = "idle"
    /\ OneWriter
    /\ \A p \in Proc : Suits(pc[p], my[p])

\* A release's parent is the release made just before it in its ring.
Linked ==
    /\ \A i \in Id \ Made : releases[i].ring = None /\ releases[i].parent = 0
    /\ \A i \in Made : releases[i].ring \in Ring
    /\ \A i \in Made : releases[i].parent # 0 =>
         /\ releases[i].parent \in Made /\ releases[i].parent < i
         /\ releases[releases[i].parent].ring = releases[i].ring
    /\ \A i, j \in Made : releases[j].ring = releases[i].ring /\ j < i
         => releases[i].parent # 0 /\ j <= releases[i].parent

\* The invariant of the past of every ring.
HistoryInv == Order /\ Scheduled /\ Linked

\* What an invocation moves on with: a writer keeps its request, a new one
\* has the ring to itself.
Keeps(p, l) ==
    \/ l.req = None
    \/ l.req = my[p].req
    \/ \A q \in Proc : my[q].req # None => my[q].req.ring # l.req.ring

\* Where an invocation goes that makes no release: what it has read suits the
\* await it comes to, and a creation starts on a ring that has no other.
LEMMA CallsMove ==
  ASSUME HistoryInv, Serial, NEW p \in Proc, made' = made,
         Create(p) \/ Membership(p) \/ Read(p) \/ Render(p) \/ End(p)
  PROVE  /\ \E l, label : Go(p, l, label) /\ Suits(label, l) /\ Keeps(p, l)
         /\ gc.pc = "idle"
  <1> DEFINE Goal == \E l, label : Go(p, l, label) /\ Suits(label, l) /\ Keeps(p, l)
  <1> SUFFICES Goal /\ gc.pc = "idle"
    OBVIOUS
  <1>a. /\ my[p] \in Local /\ (my[p].work = "create" => my[p].req \in Requests)
        /\ Suits(pc[p], my[p]) /\ pc[p] \in Labels
        /\ \A r \in Ring : ringHeads[r] # 0 => ringHeads[r] \in Made
        /\ pc[p] # "idle" => gc.pc = "idle"
        /\ made \in Nat
        /\ pc[p] \in BeforeBatch => my[p].work = "create"
    BY StoreAssumption
       DEF HistoryInv, Order, Types, TypeOK, TablesOK, Control, Scheduled, LiveIsHead, OfRing, Id0
  <1>b. ASSUME Finish(p) PROVE Goal
    <2>1. Suits("idle", Blank) /\ Blank.req = None
      BY DEF Suits, Blank, OnMembers
    <2> QED
      BY <1>b, <2>1 DEF Finish, Keeps
  <1>c. ASSUME NEW l, NEW label, Go(p, l, label), label \in Labels \ {"idle", "parent"}, pc[p] \notin {"idle", "parent"},
               l.work = my[p].work, l.req = my[p].req, l.parent = my[p].parent, l.source = my[p].source,
               label = "batch" /\ l.parent = 0 => l.due,
               label \in OnMembers => l.goal \in Made
        PROVE  Goal
    <2>1. Suits(label, l)
      BY <1>a, <1>c DEF Suits
    <2> QED
      BY <1>c, <2>1 DEF Keeps
  <1>1. ASSUME NEW q \in Requests, StartCreate(p, q) PROVE Goal /\ gc.pc = "idle"
    <2> DEFINE source == IF RollsBack(q) THEN q.fromRelease
                         ELSE IF Promotes(q) THEN ringHeads[q.fromRing] ELSE 0
               l == [Blank EXCEPT !.work = "create", !.req = q, !.source = source]
    <2>1. l.req = q /\ l.source = source
      BY DEF Blank
    <2>2. source \in Made \cup {0}
      <3>1. q \in Request
        BY StoreAssumption
      <3> QED
        BY <1>1, <1>a, <3>1 DEF StartCreate, Promotes, RollsBack, Request
    <2>3. Go(p, l, "parent")
      BY <1>1 DEF StartCreate
    <2>4. \A c \in Proc : my[c].req # None => my[c].req.ring # q.ring
      BY <1>1 DEF StartCreate, MayWrite
    <2>5. gc.pc = "idle"
      BY <1>1 DEF StartCreate, MayStart
    <2> HIDE DEF l, source
    <2>6. Suits("parent", l) /\ Keeps(p, l)
      BY <2>1, <2>2, <2>4 DEF Suits, Keeps, OnMembers
    <2> QED
      BY <2>3, <2>5, <2>6
  <1>2. CASE ReadParent(p)
    <2> DEFINE l == [my[p] EXCEPT !.parent = ringHeads[my[p].req.ring]]
    <2>1. /\ l.work = my[p].work /\ l.req = my[p].req /\ l.source = my[p].source
          /\ l.parent = ringHeads[my[p].req.ring]
      BY <1>a DEF Local
    <2>2. Go(p, l, "seq") /\ pc[p] = "parent"
      BY <1>2 DEF ReadParent
    <2> HIDE DEF l
    <2>3. Suits("seq", l) /\ Keeps(p, l)
      BY <1>a, <2>1, <2>2 DEF Suits, Keeps, OnMembers
    <2> QED
      BY <1>a, <2>2, <2>3
  <1>3. CASE ReadSeq(p)
    <2>1. ASSUME NEW s \in 1 .. made + 1, Go(p, [my[p] EXCEPT !.seq = s], "base") PROVE Goal
      <3>1. PICK l : l = [my[p] EXCEPT !.seq = s]
        OBVIOUS
      <3>2. l.work = my[p].work /\ l.req = my[p].req /\ l.parent = my[p].parent /\ l.source = my[p].source
        BY <1>a, <3>1 DEF Local
      <3> QED
        BY <1>3, <1>c, <2>1, <3>1, <3>2 DEF ReadSeq, Labels, OnMembers
    <2> QED
      BY <1>3, <1>a, <1>b, <2>1 DEF ReadSeq
  <1>4. CASE ChooseBase(p)
    <2>1. ASSUME NEW r, Go(p, [my[p] EXCEPT !.live = r], "last") PROVE Goal
      <3>1. PICK l : l = [my[p] EXCEPT !.live = r]
        OBVIOUS
      <3>2. l.work = my[p].work /\ l.req = my[p].req /\ l.parent = my[p].parent /\ l.source = my[p].source
        BY <1>a, <3>1 DEF Local
      <3> QED
        BY <1>4, <1>c, <2>1, <3>1, <3>2 DEF ChooseBase, Labels, OnMembers
    <2>2. ASSUME my[p].source # 0, Go(p, [my[p] EXCEPT !.goal = my[p].source], "start") PROVE Goal
      <3>1. PICK l : l = [my[p] EXCEPT !.goal = my[p].source]
        OBVIOUS
      <3>2. /\ l.work = my[p].work /\ l.req = my[p].req /\ l.parent = my[p].parent /\ l.source = my[p].source
            /\ l.goal = my[p].source
        BY <1>a, <3>1 DEF Local
      <3>3. my[p].source \in Made
        BY <1>4, <1>a, <2>2 DEF ChooseBase, BeforeBatch, Suits
      <3> QED
        BY <1>4, <1>c, <2>2, <3>1, <3>2, <3>3 DEF ChooseBase, Labels
    <2>3. \/ \E r : Go(p, [my[p] EXCEPT !.live = r], "last")
          \/ my[p].source # 0 /\ Go(p, [my[p] EXCEPT !.goal = my[p].source], "start")
      BY <1>4 DEF ChooseBase
    <2> QED
      BY <1>4, <1>a, <2>1, <2>2, <2>3 DEF ChooseBase
  <1>5. CASE ReadLastCheckpoint(p)
    <2>1. PICK l : l = [my[p] EXCEPT !.due = Due(my[p])]
      OBVIOUS
    <2>2. /\ l.work = my[p].work /\ l.req = my[p].req /\ l.parent = my[p].parent /\ l.source = my[p].source
          /\ l.due = Due(my[p])
      BY <1>a, <2>1 DEF Local
    <2>3. l.parent = 0 => l.due
      BY <2>2 DEF Due
    <2> QED
      BY <1>5, <1>a, <1>c, <2>1, <2>2, <2>3 DEF ReadLastCheckpoint, Labels, OnMembers
  <1>6. CASE Batch(p)
    BY <1>6, <1>a, <1>b DEF Batch
  <1>d. ASSUME NEW l, NEW label, Go(p, l, label), label \in {"members", "start", "walk", "unwind", "replay", "save", "rows", "answered", "put", "last"},
               pc[p] \in OnMembers,
               l.work = my[p].work, l.req = my[p].req, l.parent = my[p].parent, l.source = my[p].source,
               l.goal = my[p].goal
        PROVE  Goal
    <2>1. my[p].goal \in Made
      BY <1>a, <1>d DEF Suits
    <2> QED
      BY <1>c, <1>d, <2>1 DEF Labels, OnMembers
  <1>7. CASE Members(p) \/ ReadStart(p)
    <2>1. ASSUME NEW r, NEW c, NEW l, l = [my[p] EXCEPT !.live = r] \/ l = [my[p] EXCEPT !.chain = c] \/ l = my[p]
          PROVE  /\ l.work = my[p].work /\ l.req = my[p].req /\ l.parent = my[p].parent /\ l.source = my[p].source
                 /\ l.goal = my[p].goal
      BY <1>a, <2>1 DEF Local
    <2>2. \/ Finish(p)
          \/ \E r, c, l, label :
               /\ l = [my[p] EXCEPT !.live = r] \/ l = [my[p] EXCEPT !.chain = c] \/ l = my[p]
               /\ Go(p, l, label) /\ label \in {"rows", "start", "walk", "last"}
      BY <1>7 DEF Members, ReadStart, AfterEnsure
    <2>3. pc[p] \in OnMembers /\ pc[p] # "idle"
      BY <1>7 DEF Members, ReadStart, OnMembers
    <2> QED
      BY <1>a, <1>b, <1>d, <2>1, <2>2, <2>3
  <1>8. CASE Walk(p) \/ ReadCheckpointRows(p) \/ Replay(p)
    <2>2. \/ Finish(p)
          \/ \E s, c, l, label :
               /\ l = [my[p] EXCEPT !.chain = c] \/ l = [my[p] EXCEPT !.rows = s, !.chain = c]
               /\ Go(p, l, label) /\ label \in {"walk", "unwind", "replay", "save"}
      BY <1>8 DEF Walk, ReadCheckpointRows, Replay
    <2>3. pc[p] \in OnMembers /\ pc[p] # "idle"
      BY <1>8 DEF Walk, ReadCheckpointRows, Replay, OnMembers
    <2>4. ASSUME NEW s, NEW c, NEW l, NEW label,
                 l = [my[p] EXCEPT !.chain = c] \/ l = [my[p] EXCEPT !.rows = s, !.chain = c],
                 Go(p, l, label), label \in {"walk", "unwind", "replay", "save"}
          PROVE  Goal
      <3>1. /\ l.work = my[p].work /\ l.req = my[p].req /\ l.parent = my[p].parent /\ l.source = my[p].source
            /\ l.goal = my[p].goal
        BY <1>a, <2>4 DEF Local
      <3> QED
        BY <1>d, <2>3, <2>4, <3>1
    <2> HIDE DEF Goal
    <2> QED
      BY <1>a, <1>b, <2>2, <2>3, <2>4
  <1>9. CASE SaveCheckpoint(p) \/ ReadRows(p) \/ \E s \in Source : PutDatabase(p, s)
    <2>1. ASSUME NEW s, NEW l, l = [my[p] EXCEPT !.rows = s]
          PROVE  /\ l.work = my[p].work /\ l.req = my[p].req /\ l.parent = my[p].parent /\ l.source = my[p].source
                 /\ l.goal = my[p].goal
      BY <1>a, <2>1 DEF Local
    <2>2. \/ Finish(p)
          \/ \E s, l, label :
               /\ l = [my[p] EXCEPT !.rows = s]
               /\ Go(p, l, label) /\ label \in {"last", "rows", "answered", "put"}
      BY <1>9 DEF SaveCheckpoint, ReadRows, PutDatabase, AfterEnsure
    <2>3. pc[p] \in OnMembers /\ pc[p] # "idle"
      BY <1>9 DEF SaveCheckpoint, ReadRows, PutDatabase, OnMembers
    <2> QED
      BY <1>a, <1>b, <1>d, <2>1, <2>2, <2>3
  <1>e. ASSUME NEW l, Go(p, l, "members"), l.work # "create", l.req = None \/ l.req = my[p].req, l.goal \in Made PROVE Goal
    <2>1. Suits("members", l) /\ Keeps(p, l)
      BY <1>e DEF Suits, Keeps
    <2> QED
      BY <1>e, <2>1
  <1>10. CASE Answer(p)
    <2>1. PICK l : l = [my[p] EXCEPT !.work = "summary", !.live = None, !.rows = {}]
      OBVIOUS
    <2>2. l.work = "summary" /\ l.req = my[p].req /\ l.goal = my[p].goal
      BY <1>a, <2>1 DEF Local
    <2>3. pc[p] = "answered" /\ Go(p, l, "members")
      BY <1>10, <2>1 DEF Answer
    <2>4. my[p].goal \in Made
      BY <1>a, <2>3 DEF Suits, OnMembers
    <2> QED
      BY <1>a, <1>e, <2>2, <2>3, <2>4
  <1>11. ASSUME NEW i \in Made, StartRead(p, i) PROVE Goal /\ gc.pc = "idle"
    <2>1. PICK l : l = [Blank EXCEPT !.work = "read", !.goal = i]
      OBVIOUS
    <2>2. l.work = "read" /\ l.req = None /\ l.goal = i
      BY <2>1 DEF Blank
    <2> QED
      BY <1>11, <1>e, <2>1, <2>2 DEF StartRead, MayStart
  <1>12. ASSUME NEW r \in Ring, NEW a \in Arch, StartRender(p, r, a) PROVE Goal /\ gc.pc = "idle"
    <2>1. PICK l : l = [Blank EXCEPT !.work = "render", !.goal = ringHeads[r], !.arch = a]
      OBVIOUS
    <2>2. l.work = "render" /\ l.req = None /\ l.goal = ringHeads[r]
      BY <2>1 DEF Blank
    <2>3. ringHeads[r] \in Made
      BY <1>12, <1>a DEF StartRender
    <2> QED
      BY <1>12, <1>e, <2>1, <2>2, <2>3 DEF StartRender, MayStart
  <1>13. CASE End(p)
    BY <1>13, <1>a, <1>b DEF End
  <1> HIDE DEF Goal
  <1>14. CASE Create(p)
    BY <1>14, <1>1, <1>2, <1>3, <1>4, <1>5, <1>6 DEF Create
  <1>15. CASE Membership(p)
    BY <1>15, <1>7, <1>8, <1>9 DEF Membership
  <1>16. CASE Read(p) \/ Render(p) \/ End(p)
    BY <1>16, <1>9, <1>10, <1>11, <1>12, <1>13 DEF Read, Render
  <1> QED
    BY <1>14, <1>15, <1>16

\* Ids of a ring are in the order of its seqs.
LEMMA OfRingOrdered ==
  ASSUME Order, NEW r \in Ring
  PROVE  /\ OfRing(r) \subseteq Made /\ Made \subseteq Id /\ Made \subseteq Nat
         /\ \A i \in OfRing(r) : releases[i].seq \in Nat /\ releases[i].seq <= LastSeq(r)
         /\ LastSeq(r) \in Nat
         /\ \A i, j \in OfRing(r) : i < j <=> releases[i].seq < releases[j].seq
         /\ IsFiniteSet(OfRing(r))
  <1>1. /\ OfRing(r) \subseteq Made /\ Made \subseteq Id /\ Made \subseteq Nat /\ made \in Nat /\ LiveIsHead
        /\ LastSeq(r) \in Nat
    BY StoreAssumption, LastSeqIsNat DEF Order, Types, TypeOK, TablesOK, OfRing, Made, Id, Id0
  <1>2. \A i \in OfRing(r) : releases[i].seq \in 1 .. LastSeq(r)
    BY <1>1 DEF LiveIsHead
  <1>3. \A i, j \in OfRing(r) : i < j => releases[i].seq < releases[j].seq
    BY <1>1 DEF LiveIsHead
  <1>4. \A i, j \in OfRing(r) : i < j <=> releases[i].seq < releases[j].seq
    <2> TAKE i, j \in OfRing(r)
    <2>1. i \in Nat /\ j \in Nat
      BY <1>1
    <2>a. releases[i].seq \in 1 .. LastSeq(r) /\ releases[j].seq \in 1 .. LastSeq(r)
      BY <1>2
    <2>b. releases[i].seq \in Nat /\ releases[j].seq \in Nat
      BY <1>1, <2>a
    <2>2. i < j => releases[i].seq < releases[j].seq
      BY <1>3
    <2>3. j < i => releases[j].seq < releases[i].seq
      BY <1>3
    <2>4. i = j => releases[i].seq = releases[j].seq
      OBVIOUS
    <2> QED
      BY <2>1, <2>b, <2>2, <2>3, <2>4
  <1>5. IsFiniteSet(OfRing(r))
    <2>1. IsFiniteSet(1 .. made)
      BY <1>1, FS_Interval
    <2> QED
      BY <1>1, <2>1, FS_Subset DEF Made
  <1>6. \A i \in OfRing(r) : releases[i].seq \in Nat /\ releases[i].seq <= LastSeq(r)
    BY <1>1, <1>2
  <1> QED
    BY <1>1, <1>4, <1>5, <1>6

\* A ring's head is its newest release.
LEMMA HeadIsNewest ==
  ASSUME Order, NEW r \in Ring, NEW i \in OfRing(r)
  PROVE  ringHeads[r] # 0 /\ ringHeads[r] \in OfRing(r) /\ i <= ringHeads[r]
  <1>1. /\ LastSeq(r) \in Nat /\ releases[i].seq \in 1 .. LastSeq(r)
        /\ LiveIsHead /\ i \in Nat /\ releases[i].seq \in Nat
    <2>1. {releases[j].seq : j \in OfRing(r)} = 1 .. LastSeq(r)
      BY DEF Order, LiveIsHead
    <2>2. releases[i].seq \in 1 .. LastSeq(r)
      BY <2>1
    <2> QED
      BY <2>2, OfRingOrdered DEF Order
  <1>2. ringHeads[r] # 0
    BY <1>1 DEF LastSeq
  <1>3. ringHeads[r] \in OfRing(r) /\ LastSeq(r) = releases[ringHeads[r]].seq
    BY <1>1, <1>2 DEF LiveIsHead, LastSeq
  <1>4. ~(ringHeads[r] < i)
    <2>1. ringHeads[r] < i <=> releases[ringHeads[r]].seq < releases[i].seq
      BY <1>3, OfRingOrdered
    <2>2. ~(LastSeq(r) < releases[i].seq)
      BY <1>1
    <2> QED
      BY <1>3, <2>1, <2>2
  <1>5. ringHeads[r] \in Nat
    BY <1>3, OfRingOrdered
  <1> QED
    BY <1>1, <1>2, <1>3, <1>4, <1>5

\* What a step leaves of a release: its place, and all but its summary and
\* its checkpoint flag, which only the retention job clears.
LEMMA QuietParents ==
  ASSUME Order, [Next]_vars, made' = made
  PROVE  \A i \in Id : /\ releases'[i].parent = releases[i].parent
                       /\ releases[i].checkpoint /\ ~GcFlags => releases'[i].checkpoint
  <1>0. TypeOK /\ made \in Nat /\ (\A p \in Proc : pc[p] \in OnMembers => my[p].goal \in Id)
    BY StoreAssumption DEF Order, Types, TypeOK, TablesOK, Control, Id0
  <1>1. ASSUME NEW p \in Proc, Create(p) PROVE UNCHANGED releases
    <2>1. CASE Batch(p)
      BY <2>1, <1>0 DEF Batch, store
    <2>2. CASE ~Batch(p)
      BY <1>1, <2>2 DEF Create, StartCreate, ReadParent, ReadSeq, ChooseBase, ReadLastCheckpoint, store
    <2> QED
      BY <2>1, <2>2
  <1>2. ASSUME NEW p \in Proc, SaveCheckpoint(p)
        PROVE  \A i \in Id : releases'[i].parent = releases[i].parent /\ (releases[i].checkpoint => releases'[i].checkpoint)
    <2>1. releases' = releases \/ releases' = [releases EXCEPT ![my[p].goal].checkpoint = TRUE]
      BY <1>2 DEF SaveCheckpoint
    <2>2. releases \in [Id -> Release]
      BY <1>0 DEF TypeOK, TablesOK
    <2> QED
      BY <2>1, <2>2 DEF Release
  <1>3. ASSUME NEW p \in Proc, ReadRows(p)
        PROVE  \A i \in Id : releases'[i].parent = releases[i].parent /\ (releases[i].checkpoint => releases'[i].checkpoint)
    <2> DEFINE rows == Rows(my[p].live, my[p].goal)
    <2>1. releases' = releases \/ releases' = [releases EXCEPT ![my[p].goal].summary = rows]
      BY <1>3 DEF ReadRows
    <2>2. releases \in [Id -> Release]
      BY <1>0 DEF TypeOK, TablesOK
    <2> HIDE DEF rows
    <2> QED
      BY <2>1, <2>2 DEF Release
  <1>4. ASSUME NEW p \in Proc, Membership(p) \/ Read(p) \/ Render(p) \/ End(p), ~SaveCheckpoint(p), ~ReadRows(p)
        PROVE  UNCHANGED releases
    BY <1>4 DEF Membership, Members, ReadStart, Walk, ReadCheckpointRows, Replay, Read, Render, StartRead,
                Answer, StartRender, PutDatabase, End, store
  <1>5. ASSUME GcFlags PROVE \A i \in Id : releases'[i].parent = releases[i].parent
    BY <1>0, <1>5 DEF GcFlags, TypeOK, TablesOK, Release
  <1>6. ASSUME GcStep \/ GracePasses \/ UNCHANGED vars, ~GcFlags
        PROVE  UNCHANGED releases
    BY <1>6 DEF GcStep, GcStart, GcRetain, GcSelect, GcRows, GcDeltas, GcObject, GcRow, GcEnd, GracePasses, vars, store
  <1> QED
    BY <1>1, <1>2, <1>3, <1>4, <1>5, <1>6 DEF Next, Membership

\* A successful batch, by the one writer of the ring: the parent is the head,
\* and everything the release is read through is written with it.
LEMMA BatchMakes ==
  ASSUME HistoryInv, NEW p \in Proc, Batch(p), made' # made
  PROVE  /\ my[p].req \in Requests /\ my[p].req.ring \in Ring
         /\ releases'[made + 1].parent = ringHeads[my[p].req.ring]
         /\ ringHeads[my[p].req.ring] = 0 => releases'[made + 1].checkpoint
         /\ releasePackages'[made + 1] = (IF releases'[made + 1].checkpoint THEN held'[made + 1] ELSE {})
         /\ releases'[made + 1].summary = None
         /\ \A i \in Id \ {made + 1} : releases'[i] = releases[i] /\ releasePackages'[i] = releasePackages[i]
         /\ held'[made + 1] = Target(my[p].req, Base(my[p]))
         /\ held'[made + 1] \subseteq packages
         /\ my'[p].work = "summary" /\ my'[p].req = my[p].req /\ my'[p].goal = made + 1
         /\ pc'[p] = "members"
         /\ \A q \in Proc \ {p} : my'[q] = my[q] /\ pc'[q] = pc[q]
         /\ gc.pc = "idle" /\ UNCHANGED <<packages, objects, databases, gc>>
  <1> DEFINE l == my[p]
             ring == l.req.ring
             target == Target(l.req, Base(l))
  <1>1. /\ l \in Local /\ l.work = "create" /\ l.req \in Requests /\ ring \in Ring
        /\ pc[p] = "batch" /\ Suits("batch", l) /\ gc.pc = "idle"
    BY StoreAssumption
       DEF HistoryInv, Order, Types, Control, Batch, BeforeBatch, TypeOK, Request, Scheduled
  <1>2. /\ made \in Nat /\ made + 1 \in Id
        /\ releases \in [Id -> Release] /\ releasePackages \in [Id -> SUBSET Pkg] /\ held \in [Id -> SUBSET Pkg]
        /\ my \in [Proc -> Local] /\ pc \in [Proc -> Labels]
    BY StoreAssumption DEF HistoryInv, Order, Types, Batch, TypeOK, TablesOK, Id0, Id
  <1>3. ~BatchFails(l, target)
    BY DEF Batch, store
  <1>4. /\ releases' = [releases EXCEPT ![made + 1] =
              [ring |-> ring, seq |-> l.seq, parent |-> l.parent, source |-> l.source,
               checkpoint |-> l.due, summary |-> None]]
        /\ releasePackages' = [releasePackages EXCEPT ![made + 1] = IF l.due THEN target ELSE {}]
        /\ held' = [held EXCEPT ![made + 1] = target]
        /\ my' = [my EXCEPT ![p] = [l EXCEPT !.work = "summary", !.live = None, !.goal = made + 1]]
        /\ pc' = [pc EXCEPT ![p] = "members"]
        /\ UNCHANGED <<packages, objects, databases, gc>>
    BY <1>3 DEF Batch, Go, pool
  <1>5. target \subseteq packages
    BY <1>3 DEF BatchFails
  <1>6. l.parent = ringHeads[ring] /\ (l.parent = 0 => l.due)
    BY <1>1 DEF Suits
  <1> HIDE DEF target
  <1>7. PICK x : x = [l EXCEPT !.work = "summary", !.live = None, !.goal = made + 1]
    OBVIOUS
  <1>8. x.work = "summary" /\ x.req = l.req /\ x.goal = made + 1
    BY <1>1, <1>7 DEF Local
  <1>9. my'[p] = x /\ pc'[p] = "members" /\ \A q \in Proc \ {p} : my'[q] = my[q] /\ pc'[q] = pc[q]
    BY <1>2, <1>4, <1>7
  <1>10. /\ releases'[made + 1].parent = l.parent /\ releases'[made + 1].checkpoint = l.due
         /\ releases'[made + 1].summary = None
         /\ held'[made + 1] = target
         /\ releasePackages'[made + 1] = IF l.due THEN target ELSE {}
         /\ \A i \in Id \ {made + 1} : releases'[i] = releases[i] /\ releasePackages'[i] = releasePackages[i]
    BY <1>2, <1>4
  <1> HIDE DEF l, ring
  <1> QED
    BY <1>1, <1>4, <1>5, <1>6, <1>8, <1>9, <1>10 DEF l, ring, target

\* Every step keeps the schedule and the links: a release is made by the one
\* writer of its ring, with the ring's head as its parent.
LEMMA StepKeepsSchedule ==
  ASSUME HistoryInv, Serial, [Next]_vars
  PROVE  Scheduled' /\ Linked'
  <1>0. /\ Scheduled /\ OneWriter /\ Linked /\ made \in Nat /\ Made \subseteq Id /\ Made \subseteq Nat
        /\ my \in [Proc -> Local] /\ pc \in [Proc -> Labels]
        /\ \A q \in Proc : my[q].work = "create" => my[q].req \in Requests
        /\ \A q \in Requests : q.ring \in Ring /\ q # None
        /\ releases \in [Id -> Release]
    BY StoreAssumption DEF HistoryInv, Order, Types, TypeOK, TablesOK, Control, Scheduled, Request, Made, Id, Id0
  <1>1. CASE made' = made
    <2>1. /\ UNCHANGED <<made, ringHeads, ringPackages, held>>
          /\ \A i \in Id : releases'[i].ring = releases[i].ring /\ releases'[i].parent = releases[i].parent
          /\ Made' = Made
      BY <1>1, QuietSteps, QuietParents DEF HistoryInv, Made
    <2>2. Linked'
      <3>1. \A i \in Made : /\ releases'[i].parent = releases[i].parent /\ releases'[i].ring = releases[i].ring
                            /\ releases[i].parent # 0 => releases[i].parent \in Made
        BY <1>0, <2>1 DEF Linked
      <3>2. ASSUME NEW i \in Made', releases'[i].parent # 0
            PROVE  /\ releases'[i].parent \in Made' /\ releases'[i].parent < i
                   /\ releases'[releases'[i].parent].ring = releases'[i].ring
        <4>1. i \in Made /\ releases'[i].parent = releases[i].parent /\ releases'[i].ring = releases[i].ring
          BY <2>1, <3>1, <3>2
        <4>2. /\ releases[i].parent \in Made /\ releases[i].parent < i
              /\ releases[releases[i].parent].ring = releases[i].ring
          BY <1>0, <3>2, <4>1 DEF Linked
        <4> QED
          BY <2>1, <3>1, <4>1, <4>2
      <3>3. \A i, j \in Made' : releases'[j].ring = releases'[i].ring /\ j < i
              => releases'[i].parent # 0 /\ j <= releases'[i].parent
        BY <1>0, <2>1, <3>1 DEF Linked
      <3>4. \A i \in Id \ Made' : releases'[i].ring = None /\ releases'[i].parent = 0
        BY <1>0, <2>1 DEF Linked
      <3>5. \A i \in Made' : releases'[i].ring \in Ring
        BY <1>0, <2>1, <3>1 DEF Linked
      <3> QED
        BY <3>2, <3>3, <3>4, <3>5 DEF Linked
    <2>3. ASSUME NEW p \in Proc, Create(p) \/ Membership(p) \/ Read(p) \/ Render(p) \/ End(p)
          PROVE  Scheduled'
      <3>1. gc.pc = "idle" /\ UNCHANGED gc
        <4>1. CASE Create(p)
          BY <1>1, <2>3, <4>1, CallsMove
             DEF Create, StartCreate, ReadParent, ReadSeq, ChooseBase, ReadLastCheckpoint, Batch
        <4>2. CASE Membership(p) \/ Read(p) \/ Render(p) \/ End(p)
          BY <1>1, <2>3, <4>2, CallsMove
             DEF Membership, Members, ReadStart, Walk, ReadCheckpointRows, Replay, SaveCheckpoint, ReadRows,
                 Read, Render, StartRead, Answer, StartRender, PutDatabase, End
        <4> QED
          BY <2>3, <4>1, <4>2
      <3>2. PICK l, label : Go(p, l, label) /\ Suits(label, l) /\ Keeps(p, l)
        BY <1>1, <2>3, CallsMove
      <3>3. my'[p] = l /\ pc'[p] = label /\ \A q \in Proc \ {p} : my'[q] = my[q] /\ pc'[q] = pc[q]
        BY <1>0, <3>2 DEF Go
      <3>4. ASSUME NEW q \in Proc PROVE Suits(pc[q], my[q])'
        <4>1. Suits(pc'[q], my'[q])
          BY <1>0, <3>2, <3>3 DEF Scheduled
        <4> QED
          BY <2>1, <4>1 DEF Suits
      <3>5. OneWriter'
        BY <1>0, <3>2, <3>3 DEF OneWriter, Keeps
      <3> QED
        BY <3>1, <3>4, <3>5 DEF Scheduled
    <2>4. ASSUME GcStep \/ GracePasses \/ UNCHANGED vars
          PROVE  Scheduled'
      <3>1. UNCHANGED <<my, pc>>
        BY <2>4 DEF GcStep, GcStart, GcRetain, GcSelect, GcRows, GcFlags, GcDeltas, GcObject,
                    GcRow, GcEnd, GracePasses, vars
      <3>2. /\ gc'.pc # "idle" => gc.pc # "idle" \/ MayCollect
            /\ "gc" \notin Work /\ gc.pc = "idle" => gc'.pc = "idle"
        BY <2>4 DEF GcStep, GcStart, GcRetain, GcSelect, GcRows, GcFlags, GcDeltas, GcObject,
                    GcRow, GcEnd, GracePasses, vars, GcIdle
      <3>3. OneWriter' /\ \A q \in Proc : Suits(pc[q], my[q])'
        BY <1>0, <2>1, <3>1 DEF Scheduled, OneWriter, Suits
      <3> QED
        BY <1>0, <3>1, <3>2, <3>3 DEF Scheduled, MayCollect
    <2> QED
      BY <2>2, <2>3, <2>4 DEF Next
  <1>2. CASE made' # made
    <2>1. PICK p \in Proc : Batch(p)
      BY <1>2, OnlyBatchesMake DEF HistoryInv
    <2> DEFINE ring == my[p].req.ring
               id   == made + 1
    <2>2. /\ my[p].req \in Requests /\ ring \in Ring
          /\ releases'[id].parent = ringHeads[ring]
          /\ \A i \in Id \ {id} : releases'[i] = releases[i]
          /\ my'[p].work = "summary" /\ my'[p].req = my[p].req /\ my'[p].goal = id
          /\ pc'[p] = "members"
          /\ \A q \in Proc \ {p} : my'[q] = my[q] /\ pc'[q] = pc[q]
          /\ gc.pc = "idle" /\ UNCHANGED gc
      BY <1>2, <2>1, BatchMakes
    <2>3. /\ id \in Id /\ made' = id
          /\ releases'[id].ring = ring
          /\ ringHeads' = [ringHeads EXCEPT ![ring] = id]
      BY <1>2, <2>1, BatchAppends DEF HistoryInv
    <2>4. Made' = Made \cup {id} /\ id \notin Made /\ id \in Nat /\ \A i \in Made : i < id
      BY <1>0, <2>3 DEF Made
    <2>5. ringHeads \in [Ring -> Id0] /\ LiveIsHead /\ None \notin Ring
      BY StoreAssumption DEF HistoryInv, Order, Types, TypeOK, TablesOK
    <2>6. ASSUME NEW q \in Proc PROVE Suits(pc[q], my[q])'
      <3>1. CASE q = p
        BY <2>2, <2>4, <3>1 DEF Suits, OnMembers
      <3>2. CASE q # p
        <4>1. Suits(pc[q], my[q]) /\ my'[q] = my[q] /\ pc'[q] = pc[q]
          BY <1>0, <2>2, <3>2 DEF Scheduled
        <4>2. my[q].work = "create" => my[q].req.ring # ring /\ my[q].req.ring \in Ring
          BY <1>0, <2>2, <3>2 DEF OneWriter
        <4>3. my[q].work = "create" => ringHeads'[my[q].req.ring] = ringHeads[my[q].req.ring]
          BY <2>3, <2>5, <4>2
        <4> HIDE DEF ring, id
        <4> QED
          BY <2>4, <4>1, <4>3 DEF Suits
      <3> QED
        BY <3>1, <3>2
    <2>7. OneWriter'
      BY <1>0, <2>2 DEF OneWriter
    <2>8. Scheduled'
      BY <2>2, <2>6, <2>7 DEF Scheduled
    <2> HIDE DEF ring, id
    <2>9. /\ ringHeads[ring] # 0 => ringHeads[ring] \in Made /\ releases[ringHeads[ring]].ring = ring
          /\ \A j \in Made : releases[j].ring = ring => ringHeads[ring] # 0 /\ j <= ringHeads[ring]
      <3>1. \A j \in Made : releases[j].ring = ring => j \in OfRing(ring)
        BY DEF OfRing
      <3>2. \A j \in OfRing(ring) : ringHeads[ring] # 0 /\ j <= ringHeads[ring]
        BY <2>2, HeadIsNewest DEF HistoryInv
      <3>3. ringHeads[ring] # 0 => ringHeads[ring] \in OfRing(ring)
        BY <2>2, <2>5 DEF LiveIsHead
      <3> QED
        BY <3>1, <3>2, <3>3 DEF OfRing
    <2>10. Linked'
      <3>1. ASSUME NEW i \in Id \ Made' PROVE releases'[i].ring = None /\ releases'[i].parent = 0
        BY <1>0, <2>2, <2>4 DEF Linked
      <3>2. \A i \in Made : releases'[i] = releases[i] /\ i < id /\ i \in Nat
        BY <1>0, <2>2, <2>4
      <3>3. ASSUME NEW i \in Made', releases'[i].parent # 0
            PROVE  /\ releases'[i].parent \in Made' /\ releases'[i].parent < i
                   /\ releases'[releases'[i].parent].ring = releases'[i].ring
        <4>1. CASE i \in Made
          <5>1. releases'[i] = releases[i] /\ i < id
            BY <3>2, <4>1
          <5>2. /\ releases[i].parent \in Made /\ releases[i].parent < i
                /\ releases[releases[i].parent].ring = releases[i].ring
            BY <1>0, <3>3, <4>1, <5>1 DEF Linked
          <5> QED
            BY <2>4, <3>2, <5>1, <5>2
        <4>2. CASE i = id
          <5>1. releases'[i].parent = ringHeads[ring] /\ ringHeads[ring] # 0 /\ releases'[i].ring = ring
            BY <2>2, <2>3, <3>3, <4>2
          <5> QED
            BY <2>4, <2>9, <3>2, <4>2, <5>1
        <4> QED
          BY <2>4, <4>1, <4>2
      <3>4. ASSUME NEW i \in Made', NEW j \in Made', releases'[j].ring = releases'[i].ring, j < i
            PROVE  releases'[i].parent # 0 /\ j <= releases'[i].parent
        <4>1. j \in Made
          BY <2>4, <3>2, <3>4
        <4>2. CASE i \in Made
          BY <1>0, <3>2, <3>4, <4>1, <4>2 DEF Linked
        <4>3. CASE i = id
          BY <2>2, <2>3, <2>9, <3>2, <3>4, <4>1, <4>3
        <4> QED
          BY <2>4, <4>2, <4>3
      <3>5. ASSUME NEW i \in Made' PROVE releases'[i].ring \in Ring
        <4>1. i \in Made => releases'[i].ring \in Ring
          BY <1>0, <3>2 DEF Linked
        <4> QED
          BY <2>2, <2>3, <2>4, <4>1
      <3> QED
        BY <3>1, <3>3, <3>4, <3>5 DEF Linked
    <2> QED
      BY <2>8, <2>10
  <1> QED
    BY <1>1, <1>2

\* The invariant of the past, initially and over every step.
LEMMA InitHistory == Init => HistoryInv
  <1> SUFFICES ASSUME Init PROVE HistoryInv
    OBVIOUS
  <1>1. Made = {}
    BY DEF Init, Made
  <1>2. Scheduled
    BY DEF Init, Scheduled, OneWriter, Suits, Blank, GcIdle, OnMembers
  <1>3. Linked
    BY <1>1 DEF Init, Linked, NoRelease
  <1> QED
    BY <1>2, <1>3, InitOrder DEF HistoryInv

LEMMA StepKeepsHistory ==
  ASSUME HistoryInv, Serial, [Next]_vars
  PROVE  HistoryInv'
  BY StepKeepsOrder, StepKeepsSchedule DEF HistoryInv

-----------------------------------------------------------------------------
(* What retention protects of a ring.                                      *)

\* The head is protected, and so is every release after a protected one.
LEMMA ProtectedIsTail ==
  ASSUME Order, NEW r \in Ring
  PROVE  /\ Protected(r) \subseteq OfRing(r)
         /\ ringHeads[r] # 0 => ringHeads[r] \in Protected(r)
         /\ \A i \in Protected(r), j \in OfRing(r) : i <= j => j \in Protected(r)
  <1> DEFINE After(i) == {j \in OfRing(r) : releases[j].seq > releases[i].seq}
  <1>0. Keep \in Nat \ {0}
    BY StoreAssumption
  <1>1. \A i \in OfRing(r) : IsFiniteSet(After(i)) /\ Cardinality(After(i)) \in Nat
    BY OfRingOrdered, FS_Subset, FS_CardinalityType
  <1>2. Protected(r) = {i \in OfRing(r) : Cardinality(After(i)) < Keep}
    BY DEF Protected
  <1>3. ASSUME ringHeads[r] # 0 PROVE ringHeads[r] \in Protected(r)
    <2>1. ringHeads[r] \in OfRing(r) /\ LastSeq(r) = releases[ringHeads[r]].seq
      BY <1>3 DEF Order, LiveIsHead, LastSeq
    <2>2. After(ringHeads[r]) = {}
      BY <2>1, OfRingOrdered
    <2> HIDE DEF After
    <2>3. Cardinality(After(ringHeads[r])) = 0
      BY <2>2, FS_EmptySet
    <2> QED
      BY <1>0, <1>2, <2>1, <2>3
  <1>4. ASSUME NEW i \in Protected(r), NEW j \in OfRing(r), i <= j PROVE j \in Protected(r)
    <2>1. i \in OfRing(r) /\ i \in Nat /\ j \in Nat
      BY <1>2, OfRingOrdered
    <2>2. releases[i].seq <= releases[j].seq
      BY <1>4, <2>1, OfRingOrdered
    <2>3. After(j) \subseteq After(i)
      BY <2>1, <2>2, OfRingOrdered
    <2>4. Cardinality(After(j)) <= Cardinality(After(i))
      BY <1>1, <2>1, <2>3, FS_Subset
    <2> HIDE DEF After
    <2>5. Cardinality(After(i)) \in Nat /\ Cardinality(After(j)) \in Nat /\ Cardinality(After(i)) < Keep
      BY <1>1, <1>2, <2>1
    <2>6. Cardinality(After(j)) < Keep
      BY <1>0, <2>4, <2>5
    <2> QED
      BY <1>2, <2>6
  <1> QED
    BY <1>2, <1>3, <1>4

\* A release made later only pushes others out.
LEMMA ProtectedShrinks ==
  ASSUME Order, Order', NEW r \in Ring, NEW id,
         OfRing(r)' = OfRing(r) \/ OfRing(r)' = OfRing(r) \cup {id},
         \A i \in OfRing(r) : releases'[i].seq = releases[i].seq
  PROVE  Protected(r)' \subseteq Protected(r) \cup {id}
  <1> SUFFICES ASSUME NEW i \in Protected(r)', i # id PROVE i \in Protected(r)
    OBVIOUS
  <1> DEFINE A == {j \in OfRing(r) : releases[j].seq > releases[i].seq}
             B == {j \in OfRing(r)' : releases'[j].seq > releases'[i].seq}
  <1>1. i \in OfRing(r) /\ Cardinality(B) < Keep /\ Keep \in Nat
    BY StoreAssumption DEF Protected
  <1>2. A \subseteq B
    BY <1>1
  <1>3. IsFiniteSet(OfRing(r)) /\ IsFiniteSet(OfRing(r)')
    <2>1. IsFiniteSet(OfRing(r))
      BY OfRingOrdered
    <2> QED
      BY <2>1, FS_AddElement
  <1>4. IsFiniteSet(A) /\ IsFiniteSet(B)
    <2>1. A \subseteq OfRing(r) /\ B \subseteq OfRing(r)'
      OBVIOUS
    <2> HIDE DEF A, B
    <2> QED
      BY <1>3, <2>1, FS_Subset
  <1>5. Cardinality(A) <= Cardinality(B) /\ Cardinality(A) \in Nat /\ Cardinality(B) \in Nat
    <2> HIDE DEF A, B
    <2> QED
      BY <1>2, <1>4, FS_Subset, FS_CardinalityType
  <1>6. Cardinality(A) < Keep
    <2> HIDE DEF A, B
    <2> QED
      BY <1>1, <1>5
  <1> QED
    BY <1>1, <1>6 DEF Protected

\* It is the same while the rows keep their places.
LEMMA ProtectedUnchanged ==
  ASSUME Order, NEW r \in Ring, made' = made,
         \A i \in Id : releases'[i].ring = releases[i].ring /\ releases'[i].seq = releases[i].seq
  PROVE  OfRing(r)' = OfRing(r) /\ Protected(r)' = Protected(r)
  <1>1. Made' = Made /\ Made \subseteq Id
    BY OfRingOrdered DEF Made
  <1>2. OfRing(r)' = OfRing(r) /\ OfRing(r) \subseteq Id
    BY <1>1 DEF OfRing
  <1>3. ASSUME NEW i \in OfRing(r)
        PROVE  {j \in OfRing(r)' : releases'[j].seq > releases'[i].seq} = {j \in OfRing(r) : releases[j].seq > releases[i].seq}
    BY <1>2
  <1> QED
    BY <1>2, <1>3 DEF Protected

-----------------------------------------------------------------------------
(* A ring that has releases has a base: a checkpoint no younger than what  *)
(* retention protects, from which on every checkpoint and every delta is   *)
(* exact. Older releases may have lost any part of what they were kept as. *)

\* Release b is a base of ring r.
Sound(r, b) ==
    /\ b \in OfRing(r) /\ releases[b].checkpoint
    /\ \A i \in OfRing(r) : i >= b => releasePackages[i] = (IF releases[i].checkpoint THEN held[i] ELSE {})
    /\ \A i \in OfRing(r) : i > b => deltas[i] = Delta(held[i], held[releases[i].parent])
    /\ \A i \in Protected(r) : b <= i
    /\ "gc" \notin Work => \A i \in OfRing(r) : b <= i

\* An invocation that rebuilds a release no older than the base follows its
\* parents to a checkpoint no older than the base, and its rows are exact.
Rebuilding(label, l, r, b) ==
    /\ label \in {"walk", "unwind", "replay"} =>
         /\ Len(l.chain) > 0 /\ l.chain[Len(l.chain)] = l.goal
         /\ \A k \in 1 .. Len(l.chain) : l.chain[k] \in OfRing(r)
         /\ \A k \in 1 .. Len(l.chain) : k > 1 => releases[l.chain[k]].parent = l.chain[k - 1] /\ l.chain[k] > b
    /\ label \in {"walk", "replay"} => l.chain[1] > b
    /\ label = "unwind" => l.chain[1] >= b /\ releases[l.chain[1]].checkpoint
    /\ label = "replay" => l.rows = held[releases[l.chain[1]].parent]
    /\ label = "save" => l.rows = held[l.goal]

\* The invocation works on a release of ring r that the base covers.
Concerns(label, l, r, b) == label \in OnMembers /\ l.goal \in OfRing(r) /\ l.goal >= b

Rebuilders(r, b) == \A p \in Proc : Concerns(pc[p], my[p], r, b) => Rebuilding(pc[p], my[p], r, b)

\* The retention job has read ring r: it spares what it found protected, the
\* base and the checkpoints after it, and drops deltas up to the base only.
Looked(r) == gc.pc \notin {"idle", "retain"} \/ (gc.pc = "retain" /\ r \notin gc.todo)

\* What the job has read spares the base and what follows it.
Spared(r, b) ==
    /\ Looked(r) => /\ Protected(r) \subseteq gc.protected
                    /\ \A i \in OfRing(r) : i >= b /\ releases[i].checkpoint => i \in gc.kept
    /\ gc.pc # "idle" => \A i \in gc.bases : releases[i].ring = r => Looked(r) /\ i = b

\* Every ring with a release has a base that rebuilding and the job respect.
Based == \A r \in Ring : OfRing(r) # {} => \E b \in Id : Sound(r, b) /\ Rebuilders(r, b) /\ Spared(r, b)

\* Every package of a protected release is indexed, and none is a victim.
Indexed == \A r \in Ring : \A i \in Protected(r) : held[i] \subseteq packages

\* No victim is held by a protected release.
VictimsFree ==
    /\ gc.pc \in {"rows", "flags", "deltas", "victims", "row"} =>
         \A r \in Ring : \A i \in Protected(r) : \A v \in gc.victims : v \notin held[i]
    /\ gc.pc = "row" => gc.victim \in gc.victims

\* The invariant of retention.
RetentionInv == HistoryInv /\ Based /\ Indexed /\ VictimsFree

-----------------------------------------------------------------------------
\* A chain with one more release in front, and one without its first.
LEMMA ConsIs ==
  ASSUME NEW S, NEW x \in S, NEW s \in Seq(S), NEW t, t = <<x>> \o s
  PROVE  /\ Len(s) \in Nat /\ Len(t) = Len(s) + 1 /\ t[1] = x
         /\ \A k \in 1 .. Len(s) : t[k + 1] = s[k]
  OBVIOUS

LEMMA TailIs ==
  ASSUME NEW S, NEW s \in Seq(S), s # <<>>, NEW t, t = Tail(s)
  PROVE  /\ Len(s) \in Nat /\ Len(s) > 0 /\ Head(s) = s[1] /\ Len(t) = Len(s) - 1
         /\ \A k \in 1 .. Len(t) : t[k] = s[k + 1]
         /\ t = <<>> <=> Len(t) = 0
  <1>1. Len(s) \in Nat /\ Len(s) # 0 /\ Head(s) = s[1]
    OBVIOUS
  <1>2. t \in Seq(S) /\ Len(t) = Len(s) - 1 /\ \A k \in 1 .. Len(t) : t[k] = s[k + 1]
    BY <1>1
  <1>3. t = <<>> <=> Len(t) = 0
    BY <1>2
  <1> QED
    BY <1>1, <1>2, <1>3

\* A delta applied to the selection it was taken from gives the target.
LEMMA ApplyDelta ==
  ASSUME NEW target, NEW own
  PROVE  Apply(own, Delta(target, own)) = target
  BY DEF Apply, Delta

\* The parent of a release after the base is of the ring and not before it.
LEMMA ParentAfterBase ==
  ASSUME HistoryInv, NEW r \in Ring, NEW b \in OfRing(r), NEW i \in OfRing(r), i > b
  PROVE  /\ releases[i].parent # 0 /\ releases[i].parent \in OfRing(r)
         /\ b <= releases[i].parent /\ releases[i].parent < i
  <1>1. i \in Made /\ b \in Made /\ i \in Nat /\ b \in Nat /\ releases[i].ring = r /\ releases[b].ring = r
    BY OfRingOrdered DEF OfRing, HistoryInv
  <1>2. releases[i].parent # 0 /\ b <= releases[i].parent
    BY <1>1 DEF HistoryInv, Linked
  <1>3. /\ releases[i].parent \in Made /\ releases[i].parent < i
        /\ releases[releases[i].parent].ring = r
    BY <1>1, <1>2 DEF HistoryInv, Linked
  <1> QED
    BY <1>2, <1>3 DEF OfRing

\* What the steps that rebuild a release do.
LEMMA RebuildersStep ==
  ASSUME HistoryInv, NEW r \in Ring, NEW b \in Id, Sound(r, b), Rebuilders(r, b), NEW p \in Proc,
         Create(p) \/ Membership(p) \/ Read(p) \/ Render(p) \/ End(p)
  PROVE  \E l, label : Go(p, l, label) /\ (Concerns(label, l, r, b) => Rebuilding(label, l, r, b))
  <1> DEFINE Goal == \E l, label : Go(p, l, label) /\ (Concerns(label, l, r, b) => Rebuilding(label, l, r, b))
  <1> SUFFICES Goal
    OBVIOUS
  <1>a. /\ my[p] \in Local /\ Ready(pc[p], my[p])
        /\ b \in OfRing(r) /\ OfRing(r) \subseteq Made /\ Made \subseteq Id /\ Made \subseteq Nat
        /\ releases \in [Id -> Release]
    BY OfRingOrdered DEF HistoryInv, Order, Types, TypeOK, TablesOK, Control, Sound
  <1>b. ASSUME NEW l, NEW label, Go(p, l, label), label \notin {"walk", "unwind", "replay", "save"}
        PROVE  Goal
    BY <1>b DEF Rebuilding
  <1>1. CASE Create(p) \/ Read(p) \/ Render(p) \/ End(p)
    <2> DEFINE Plain == \E l, label : Go(p, l, label) /\ label \notin {"walk", "unwind", "replay", "save"}
    <2>1. CASE (\E q \in Requests : StartCreate(p, q)) \/ ReadParent(p) \/ ReadSeq(p)
      <3>a. ASSUME NEW q \in Requests, StartCreate(p, q) PROVE Plain
        BY <3>a DEF StartCreate
      <3>b. CASE ReadParent(p)
        <4>1. Plain
          BY <3>b DEF ReadParent
        <4> QED
          BY <1>b, <4>1
      <3>c. CASE ReadSeq(p)
        <4>1. Plain
          <5>1. ASSUME NEW s, Go(p, [my[p] EXCEPT !.seq = s], "base") PROVE Plain
            BY <5>1
          <5>2. ASSUME Finish(p) PROVE Plain
            BY <5>2 DEF Finish
          <5> HIDE DEF Plain
          <5> QED
            BY <3>c, <5>1, <5>2 DEF ReadSeq
        <4> QED
          BY <1>b, <4>1
      <3>1. CASE \E q \in Requests : StartCreate(p, q)
        BY <1>b, <3>a, <3>1
      <3> QED
        BY <2>1, <3>b, <3>c, <3>1
    <2>2. CASE ChooseBase(p) \/ ReadLastCheckpoint(p)
      <3>1. Plain
        BY <2>2 DEF ChooseBase, ReadLastCheckpoint
      <3> QED
        BY <1>b, <3>1
    <2>3. CASE Batch(p)
      <3>1. Plain
        BY <2>3 DEF Batch, Finish
      <3> QED
        BY <1>b, <3>1
    <2>4. CASE Read(p) \/ Render(p) \/ End(p)
      <3>a. ASSUME NEW i \in Made, StartRead(p, i) PROVE Plain
        BY <3>a DEF StartRead
      <3>b. ASSUME NEW c \in Ring, NEW a \in Arch, StartRender(p, c, a) PROVE Plain
        BY <3>b DEF StartRender
      <3>c. ASSUME NEW s \in Source, PutDatabase(p, s) PROVE Plain
        BY <3>c DEF PutDatabase
      <3>d. ASSUME Answer(p) PROVE Plain
        BY <3>d DEF Answer
      <3>e. ASSUME End(p) PROVE Plain
        BY <3>e DEF End, Finish
      <3> HIDE DEF Plain
      <3>1. Plain
        BY <2>4, <3>a, <3>b, <3>c, <3>d, <3>e DEF Read, Render
      <3> QED
        BY <1>b, <3>1 DEF Plain
    <2> QED
      BY <1>1, <2>1, <2>2, <2>3, <2>4 DEF Create
  <1>2. CASE Members(p) \/ SaveCheckpoint(p) \/ ReadRows(p)
    <2>1. \E l, label : Go(p, l, label) /\ label \notin {"walk", "unwind", "replay", "save"}
      BY <1>2 DEF Members, SaveCheckpoint, ReadRows, AfterEnsure, Finish
    <2> QED
      BY <1>b, <2>1
  <1>3. CASE ReadStart(p)
    <2>1. CASE releases[my[p].goal].checkpoint
      BY <1>3, <1>b, <2>1 DEF ReadStart, AfterEnsure
    <2>2. CASE ~releases[my[p].goal].checkpoint
      <3>1. PICK l : l = [my[p] EXCEPT !.chain = <<my[p].goal>>]
        OBVIOUS
      <3>2. l.goal = my[p].goal /\ l.chain = <<my[p].goal>>
        BY <1>a, <3>1 DEF Local
      <3>3. Go(p, l, "walk")
        BY <1>3, <2>2, <3>1 DEF ReadStart
      <3>4. Len(l.chain) = 1 /\ l.chain[1] = l.goal
        BY <3>2
      <3>5. ASSUME Concerns("walk", l, r, b) PROVE Rebuilding("walk", l, r, b)
        <4>0. l.goal \in OfRing(r) /\ l.goal # b /\ l.goal >= b
          BY <2>2, <3>2, <3>5 DEF Concerns, Sound
        <4>1. l.goal \in OfRing(r) /\ l.goal > b
          <5>1. l.goal \in Nat /\ b \in Nat
            BY <1>a, <4>0
          <5> QED
            BY <4>0, <5>1
        <4> QED
          BY <3>4, <4>1 DEF Rebuilding
      <3> QED
        BY <3>3, <3>5
    <2> QED
      BY <2>1, <2>2
  <1>c. ASSUME pc[p] \in {"walk", "unwind", "replay"}, NEW l, l.goal = my[p].goal, NEW label, Concerns(label, l, r, b)
        PROVE  /\ Rebuilding(pc[p], my[p], r, b)
               /\ my[p].chain \in Seq(Id) /\ my[p].chain # <<>> /\ Head(my[p].chain) = my[p].chain[1]
               /\ Len(my[p].chain) \in Nat
    <2>1. my[p].chain \in Seq(Id) /\ my[p].chain # <<>>
      BY <1>a, <1>c DEF Local, Ready
    <2>2. Concerns(pc[p], my[p], r, b)
      BY <1>c DEF Concerns, OnMembers
    <2> QED
      BY <2>1, <2>2 DEF Rebuilders
  <1>4. CASE Walk(p)
    <2> DEFINE par == releases[Head(my[p].chain)].parent
    <2>1. CASE Finish(p)
      BY <1>b, <2>1 DEF Finish
    <2>2. CASE ~Finish(p)
      <3>0. PICK par0 : par0 = par
        OBVIOUS
      <3>1. PICK l : l = [my[p] EXCEPT !.chain = <<par0>> \o @]
        OBVIOUS
      <3>2. l.goal = my[p].goal /\ l.chain = <<par0>> \o my[p].chain
        BY <1>a, <3>1 DEF Local
      <3>3. PICK label \in {"walk", "unwind"} :
              /\ Go(p, l, label)
              /\ label = "unwind" <=> releases[par0].checkpoint
        BY <1>4, <2>2, <3>0, <3>1 DEF Walk
      <3>4. ASSUME Concerns(label, l, r, b) PROVE Rebuilding(label, l, r, b)
        <4> DEFINE s == my[p].chain
                   t == l.chain
        <4>1. /\ Rebuilding("walk", my[p], r, b)
              /\ s \in Seq(Id) /\ s # <<>> /\ Head(s) = s[1] /\ Len(s) \in Nat
          BY <1>4, <1>c, <3>2, <3>4 DEF Walk
        <4>2. /\ Len(s) > 0 /\ s[Len(s)] = my[p].goal /\ s[1] > b
              /\ \A k \in 1 .. Len(s) : s[k] \in OfRing(r)
              /\ \A k \in 1 .. Len(s) : k > 1 => releases[s[k]].parent = s[k - 1] /\ s[k] > b
          BY <4>1 DEF Rebuilding
        <4>3. s[1] \in OfRing(r)
          BY <4>1, <4>2
        <4>4. par0 # 0 /\ par0 \in OfRing(r) /\ b <= par0 /\ par0 = releases[s[1]].parent
          BY <1>a, <3>0, <4>1, <4>2, <4>3, ParentAfterBase
        <4>5. par0 \in Id
          BY <1>a, <4>4
        <4>6. Len(t) = Len(s) + 1 /\ t[1] = par0 /\ \A k \in 1 .. Len(s) : t[k + 1] = s[k]
          BY <3>2, <4>1, <4>5, ConsIs
        <4> HIDE DEF s, t
        <4>7. t[Len(t)] = s[Len(s)] /\ Len(t) > 0
          BY <4>1, <4>2, <4>6
        <4>8. ASSUME NEW k \in 1 .. Len(t)
              PROVE  t[k] \in OfRing(r) /\ (k > 1 => releases[t[k]].parent = t[k - 1] /\ t[k] > b)
          <5>1. CASE k = 1
            BY <4>4, <4>6, <5>1
          <5>2. CASE k = 2
            <6>1. t[2] = s[1]
              BY <4>1, <4>2, <4>6
            <6> QED
              BY <4>2, <4>3, <4>4, <4>6, <5>2, <6>1
          <5>3. CASE k > 2
            <6>1. PICK j \in 1 .. Len(s) : j = k - 1 /\ j > 1 /\ j - 1 \in 1 .. Len(s) /\ k - 1 = (j - 1) + 1 /\ k = j + 1
              BY <4>1, <4>6, <5>3
            <6>2. t[k] = s[j] /\ t[k - 1] = s[j - 1]
              BY <4>6, <6>1
            <6> QED
              BY <4>2, <6>1, <6>2
          <5> QED
            BY <5>1, <5>2, <5>3
        <4>9. label = "walk" => par0 > b
          <5>1. b \in Nat /\ par0 \in Nat
            BY <1>a, <4>4
          <5>2. label = "walk" => par0 # b
            BY <3>3 DEF Sound
          <5> QED
            BY <4>4, <5>1, <5>2
        <4>10. /\ label = "unwind" => releases[par0].checkpoint
               /\ label \in {"walk", "unwind"}
          BY <3>3
        <4> QED
          BY <3>2, <4>2, <4>4, <4>6, <4>7, <4>8, <4>9, <4>10 DEF Rebuilding, s, t
      <3> QED
        BY <3>3, <3>4
    <2> QED
      BY <2>1, <2>2
  <1>5. CASE ReadCheckpointRows(p)
    <2>1. PICK rows : rows = releasePackages[Head(my[p].chain)]
      OBVIOUS
    <2>2. PICK l : l = [my[p] EXCEPT !.rows = rows, !.chain = Tail(@)]
      OBVIOUS
    <2>3. l.goal = my[p].goal /\ l.chain = Tail(my[p].chain) /\ l.rows = rows
      BY <1>a, <2>2 DEF Local
    <2>4. Go(p, l, "replay")
      BY <1>5, <2>1, <2>2 DEF ReadCheckpointRows
    <2>5. ASSUME Concerns("replay", l, r, b) PROVE Rebuilding("replay", l, r, b)
      <3> DEFINE s == my[p].chain
                 t == l.chain
      <3>1. /\ Rebuilding("unwind", my[p], r, b)
            /\ s \in Seq(Id) /\ s # <<>> /\ Head(s) = s[1] /\ Len(s) \in Nat /\ t # <<>>
        BY <1>5, <1>a, <1>c, <2>3, <2>5 DEF ReadCheckpointRows, Ready
      <3>2. /\ Len(s) > 0 /\ s[Len(s)] = my[p].goal /\ s[1] >= b /\ releases[s[1]].checkpoint
            /\ \A k \in 1 .. Len(s) : s[k] \in OfRing(r)
            /\ \A k \in 1 .. Len(s) : k > 1 => releases[s[k]].parent = s[k - 1] /\ s[k] > b
        BY <3>1 DEF Rebuilding
      <3>3. /\ Len(t) = Len(s) - 1 /\ Len(t) # 0
            /\ \A k \in 1 .. Len(t) : t[k] = s[k + 1]
        BY <2>3, <3>1, TailIs
      <3>4. rows = held[s[1]]
        BY <2>1, <3>1, <3>2 DEF Sound
      <3> HIDE DEF s, t
      <3>5. t[Len(t)] = s[Len(s)] /\ Len(t) > 0 /\ Len(t) \in Nat
        BY <3>1, <3>2, <3>3
      <3>6. ASSUME NEW k \in 1 .. Len(t)
            PROVE  t[k] \in OfRing(r) /\ t[k] > b /\ (k > 1 => releases[t[k]].parent = t[k - 1])
        <4>1. PICK j \in 1 .. Len(s) : j = k + 1 /\ j > 1 /\ (k > 1 => k - 1 \in 1 .. Len(t) /\ (k - 1) + 1 = j - 1)
          BY <3>1, <3>3, <3>6
        <4>2. t[k] = s[j] /\ (k > 1 => t[k - 1] = s[j - 1])
          BY <3>3, <4>1
        <4> QED
          BY <3>2, <4>1, <4>2
      <3>7. t[1] = s[2] /\ t[1] > b /\ releases[t[1]].parent = s[1]
        <4>1. 1 \in 1 .. Len(t) /\ 2 \in 1 .. Len(s)
          BY <3>1, <3>3, <3>5
        <4>2. t[1] = s[2]
          BY <3>3, <4>1
        <4> QED
          BY <3>2, <4>1, <4>2
      <3> QED
        BY <2>3, <3>2, <3>4, <3>5, <3>6, <3>7 DEF Rebuilding, s, t
    <2> QED
      BY <2>4, <2>5
  <1>6. CASE Replay(p)
    <2>1. PICK rows : rows = Apply(my[p].rows, deltas[Head(my[p].chain)])
      OBVIOUS
    <2>2. PICK l : l = [my[p] EXCEPT !.rows = rows, !.chain = Tail(@)]
      OBVIOUS
    <2>3. l.goal = my[p].goal /\ l.chain = Tail(my[p].chain) /\ l.rows = rows
      BY <1>a, <2>2 DEF Local
    <2>4. PICK label \in {"save", "replay"} : Go(p, l, label) /\ (label = "save" <=> l.chain = <<>>)
      <3>1. [my[p] EXCEPT !.rows = Apply(@, deltas[Head(my[p].chain)]), !.chain = Tail(@)] = l
        BY <1>a, <2>1, <2>2 DEF Local
      <3> QED
        BY <1>6, <2>3, <3>1 DEF Replay
    <2>5. ASSUME Concerns(label, l, r, b) PROVE Rebuilding(label, l, r, b)
      <3> DEFINE s == my[p].chain
                 t == l.chain
      <3>1. /\ Rebuilding("replay", my[p], r, b)
            /\ s \in Seq(Id) /\ s # <<>> /\ Head(s) = s[1] /\ Len(s) \in Nat
        BY <1>6, <1>c, <2>3, <2>5 DEF Replay
      <3>2. /\ Len(s) > 0 /\ s[Len(s)] = my[p].goal /\ s[1] > b
            /\ my[p].rows = held[releases[s[1]].parent]
            /\ \A k \in 1 .. Len(s) : s[k] \in OfRing(r)
            /\ \A k \in 1 .. Len(s) : k > 1 => releases[s[k]].parent = s[k - 1] /\ s[k] > b
        BY <3>1 DEF Rebuilding
      <3>3. /\ Len(t) = Len(s) - 1 /\ (t = <<>> <=> Len(t) = 0)
            /\ \A k \in 1 .. Len(t) : t[k] = s[k + 1]
        BY <2>3, <3>1, TailIs
      <3>4. s[1] \in OfRing(r)
        BY <3>1, <3>2
      <3>5. rows = held[s[1]]
        <4>1. deltas[s[1]] = Delta(held[s[1]], held[releases[s[1]].parent])
          BY <3>2, <3>4 DEF Sound
        <4> QED
          BY <2>1, <3>1, <3>2, <4>1, ApplyDelta
      <3>6. CASE label = "save"
        <4>1. Len(s) = 1
          BY <2>4, <3>1, <3>3, <3>6
        <4> QED
          BY <2>3, <3>2, <3>5, <3>6, <4>1 DEF Rebuilding
      <3>7. CASE label = "replay"
        <4>0. Len(t) # 0
          BY <2>4, <3>3, <3>7
        <4> HIDE DEF s, t
        <4>1. t[Len(t)] = s[Len(s)] /\ Len(t) > 0 /\ Len(t) \in Nat
          BY <3>1, <3>2, <3>3, <4>0
        <4>2. ASSUME NEW k \in 1 .. Len(t)
              PROVE  t[k] \in OfRing(r) /\ t[k] > b /\ (k > 1 => releases[t[k]].parent = t[k - 1])
          <5>1. PICK j \in 1 .. Len(s) : j = k + 1 /\ j > 1 /\ (k > 1 => k - 1 \in 1 .. Len(t) /\ (k - 1) + 1 = j - 1)
            BY <3>1, <3>3, <4>2
          <5>2. t[k] = s[j] /\ (k > 1 => t[k - 1] = s[j - 1])
            BY <3>3, <5>1
          <5> QED
            BY <3>2, <5>1, <5>2
        <4>3. t[1] = s[2] /\ t[1] > b /\ releases[t[1]].parent = s[1]
          <5>1. 1 \in 1 .. Len(t) /\ 2 \in 1 .. Len(s)
            BY <3>1, <3>3, <4>1
          <5>2. t[1] = s[2]
            BY <3>3, <5>1
          <5> QED
            BY <3>2, <5>1, <5>2
        <4> QED
          BY <2>3, <3>2, <3>5, <3>7, <4>1, <4>2, <4>3 DEF Rebuilding, s, t
      <3> QED
        BY <2>4, <3>6, <3>7
    <2> QED
      BY <2>4, <2>5
  <1> HIDE DEF Goal
  <1> QED
    BY <1>1, <1>2, <1>3, <1>4, <1>5, <1>6 DEF Membership

\* Releases that exist keep what a rebuilder relies on.
LEMMA RebuildingStable ==
  ASSUME HistoryInv, NEW r \in Ring, NEW b \in OfRing(r), NEW l \in Local, NEW label,
         Made \subseteq Made',
         \A i \in Made : /\ releases'[i].ring = releases[i].ring /\ releases'[i].parent = releases[i].parent
                         /\ releases[i].checkpoint => releases'[i].checkpoint
                         /\ held'[i] = held[i],
         Concerns(label, l, r, b), Rebuilding(label, l, r, b)
  PROVE  Rebuilding(label, l, r, b)'
  <1>1. OfRing(r) \subseteq OfRing(r)' /\ OfRing(r) \subseteq Made
    BY DEF OfRing
  <1>2. label \in {"walk", "unwind", "replay"} =>
          (/\ Len(l.chain) > 0 /\ l.chain[Len(l.chain)] = l.goal
           /\ \A k \in 1 .. Len(l.chain) : l.chain[k] \in OfRing(r)
           /\ \A k \in 1 .. Len(l.chain) : k > 1 => releases[l.chain[k]].parent = l.chain[k - 1] /\ l.chain[k] > b)'
    BY <1>1 DEF Rebuilding
  <1>3. label \in {"walk", "unwind", "replay"} => l.chain[1] \in OfRing(r)
    <2>1. Len(l.chain) \in Nat
      BY DEF Local
    <2>2. Len(l.chain) > 0 => 1 \in 1 .. Len(l.chain)
      BY <2>1
    <2> QED
      BY <2>2 DEF Rebuilding
  <1>4. label \in {"walk", "replay"} => (l.chain[1] > b)'
    BY DEF Rebuilding
  <1>5. label = "unwind" => (l.chain[1] >= b /\ releases[l.chain[1]].checkpoint)'
    BY <1>1, <1>3 DEF Rebuilding
  <1>6. label = "replay" => (l.rows = held[releases[l.chain[1]].parent])'
    <2>1. CASE label = "replay"
      <3>1. l.chain[1] \in OfRing(r) /\ l.chain[1] > b /\ l.rows = held[releases[l.chain[1]].parent]
        BY <1>3, <2>1 DEF Rebuilding
      <3>2. releases[l.chain[1]].parent \in Made
        BY <1>1, <3>1, ParentAfterBase
      <3> QED
        BY <1>1, <3>1, <3>2
    <2> QED
      BY <2>1
  <1>7. label = "save" => (l.rows = held[l.goal])'
    BY <1>1 DEF Rebuilding, Concerns
  <1> QED
    BY <1>2, <1>4, <1>5, <1>6, <1>7 DEF Rebuilding

\* The rows and deltas that releases are rebuilt from change by the batch that
\* saves a checkpoint only, while no batch adds a release.
LEMMA QuietRows ==
  ASSUME HistoryInv, NEW p \in Proc, made' = made,
         Create(p) \/ Membership(p) \/ Read(p) \/ Render(p) \/ End(p)
  PROVE  /\ UNCHANGED <<deltas, packages, objects, gc>>
         /\ \/ /\ UNCHANGED releasePackages
               /\ \A i \in Id : releases'[i].checkpoint = releases[i].checkpoint
            \/ /\ pc[p] = "save" /\ my[p].goal \in Made
               /\ releasePackages' = [releasePackages EXCEPT ![my[p].goal] = @ \cup my[p].rows]
               /\ releases'[my[p].goal].checkpoint
               /\ \A i \in Id \ {my[p].goal} : releases'[i].checkpoint = releases[i].checkpoint
  <1> DEFINE Saves ==
               /\ pc[p] = "save" /\ my[p].goal \in Made
               /\ releasePackages' = [releasePackages EXCEPT ![my[p].goal] = @ \cup my[p].rows]
               /\ releases'[my[p].goal].checkpoint
               /\ \A i \in Id \ {my[p].goal} : releases'[i].checkpoint = releases[i].checkpoint
  <1>0. /\ made \in Nat /\ releases \in [Id -> Release] /\ Made \subseteq Id
        /\ pc[p] \in OnMembers => my[p].goal \in Made
    BY StoreAssumption
       DEF HistoryInv, Order, Types, TypeOK, TablesOK, Control, Scheduled, Suits, Made, Id, Id0
  <1>1. CASE Create(p)
    <2>1. CASE Batch(p)
      BY <2>1, <1>0 DEF Batch, store, pool
    <2>2. CASE ~Batch(p)
      BY <1>1, <2>2 DEF Create, StartCreate, ReadParent, ReadSeq, ChooseBase, ReadLastCheckpoint, store, pool
    <2> QED
      BY <2>1, <2>2
  <1>2. CASE SaveCheckpoint(p)
    <2>1. CASE ~(my[p].rows \subseteq packages)
      BY <1>2, <2>1 DEF SaveCheckpoint, pool
    <2>2. CASE my[p].rows \subseteq packages
      <3>1. /\ releases' = [releases EXCEPT ![my[p].goal].checkpoint = TRUE]
            /\ releasePackages' = [releasePackages EXCEPT ![my[p].goal] = @ \cup my[p].rows]
            /\ pc[p] = "save" /\ my[p].goal \in Made
        BY <1>0, <1>2, <2>2 DEF SaveCheckpoint, OnMembers
      <3>2. Saves
        BY <1>0, <3>1 DEF Release
      <3> QED
        BY <1>2, <3>2 DEF SaveCheckpoint, pool
    <2> QED
      BY <2>1, <2>2
  <1>3. CASE ReadRows(p)
    <2> DEFINE rows == Rows(my[p].live, my[p].goal)
    <2>1. releases' = releases \/ releases' = [releases EXCEPT ![my[p].goal].summary = rows]
      BY <1>3 DEF ReadRows
    <2>2. \A i \in Id : releases'[i].checkpoint = releases[i].checkpoint
      <3> HIDE DEF rows
      <3> QED
        BY <1>0, <2>1 DEF Release
    <2> QED
      BY <1>3, <2>2 DEF ReadRows, pool
  <1>4. CASE (Membership(p) /\ ~SaveCheckpoint(p) /\ ~ReadRows(p)) \/ Read(p) \/ Render(p) \/ End(p)
    BY <1>4 DEF Membership, Members, ReadStart, Walk, ReadCheckpointRows, Replay, Read, Render, StartRead,
                Answer, StartRender, PutDatabase, End, store, pool
  <1> QED
    BY <1>1, <1>2, <1>3, <1>4 DEF Membership

\* What an invocation writes keeps a base: only a checkpoint is saved, and it
\* is exact when it is the base's to answer for.
LEMMA ProcessesKeepSound ==
  ASSUME HistoryInv, HistoryInv', NEW p \in Proc, made' = made,
         Create(p) \/ Membership(p) \/ Read(p) \/ Render(p) \/ End(p),
         NEW r \in Ring, NEW b \in Id, Sound(r, b), Rebuilders(r, b)
  PROVE  Sound(r, b)' /\ Rebuilders(r, b)'
  <1>0. [Next]_vars
    BY DEF Next
  <1>1. /\ UNCHANGED <<made, held>> /\ Made' = Made
        /\ \A i \in Id : /\ releases'[i].ring = releases[i].ring /\ releases'[i].seq = releases[i].seq
                         /\ releases'[i].parent = releases[i].parent
    BY <1>0, QuietSteps, QuietParents DEF HistoryInv, Made
  <1>2. OfRing(r)' = OfRing(r) /\ Protected(r)' = Protected(r) /\ OfRing(r) \subseteq Id
    BY <1>1, ProtectedUnchanged, OfRingOrdered DEF HistoryInv
  <1>3. /\ \A i \in OfRing(r) : releases[i].checkpoint => releases'[i].checkpoint
        /\ \A i \in OfRing(r) : i >= b => releasePackages'[i] = (IF releases'[i].checkpoint THEN held[i] ELSE {})
    <2>1. CASE /\ UNCHANGED releasePackages
               /\ \A i \in Id : releases'[i].checkpoint = releases[i].checkpoint
      BY <1>2, <2>1 DEF Sound
    <2>2. CASE /\ pc[p] = "save" /\ my[p].goal \in Made
               /\ releasePackages' = [releasePackages EXCEPT ![my[p].goal] = @ \cup my[p].rows]
               /\ releases'[my[p].goal].checkpoint
               /\ \A i \in Id \ {my[p].goal} : releases'[i].checkpoint = releases[i].checkpoint
      <3>1. DOMAIN releasePackages = Id
        BY DEF HistoryInv, Order, Types, TypeOK, TablesOK
      <3>2. ASSUME my[p].goal \in OfRing(r), my[p].goal >= b
            PROVE  my[p].rows = held[my[p].goal]
        BY <2>2, <3>2 DEF Rebuilders, Concerns, Rebuilding, OnMembers
      <3>3. ASSUME NEW i \in OfRing(r), i >= b
            PROVE  releasePackages'[i] = (IF releases'[i].checkpoint THEN held[i] ELSE {})
        <4>1. releasePackages[i] = (IF releases[i].checkpoint THEN held[i] ELSE {})
          BY <3>3 DEF Sound
        <4>2. CASE i = my[p].goal
          <5>1. releasePackages'[i] = releasePackages[i] \cup held[i]
            BY <1>2, <2>2, <3>1, <3>2, <3>3, <4>2
          <5> QED
            BY <2>2, <4>1, <4>2, <5>1
        <4>3. CASE i # my[p].goal
          BY <1>2, <2>2, <3>1, <4>1, <4>3
        <4> QED
          BY <4>2, <4>3
      <3> QED
        BY <1>2, <2>2, <3>3
    <2> QED
      BY <2>1, <2>2, QuietRows
  <1>4. UNCHANGED deltas /\ b \in OfRing(r)
    BY QuietRows DEF Sound
  <1>5. \A i \in OfRing(r) : i > b => deltas'[i] = Delta(held'[i], held'[releases'[i].parent])
    BY <1>1, <1>2, <1>4 DEF Sound
  <1>6. Sound(r, b)'
    BY <1>1, <1>2, <1>3, <1>4, <1>5 DEF Sound
  <1>7. \A i \in Made : releases[i].checkpoint => releases'[i].checkpoint
    <2>1. Made \subseteq Id
      BY OfRingOrdered DEF HistoryInv
    <2> QED
      BY <2>1, QuietRows
  <1>8. PICK l, label : Go(p, l, label) /\ (Concerns(label, l, r, b) => Rebuilding(label, l, r, b))
    BY RebuildersStep
  <1>9. /\ my'[p] = l /\ pc'[p] = label /\ \A q \in Proc \ {p} : my'[q] = my[q] /\ pc'[q] = pc[q]
        /\ \A q \in Proc : my'[q] \in Local
    BY <1>8 DEF Go, HistoryInv, Order, Types, TypeOK
  <1>10. ASSUME NEW q \in Proc, Concerns(pc[q], my[q], r, b)' PROVE Rebuilding(pc[q], my[q], r, b)'
    <2>1. PICK x, y : x \in Local /\ x = my'[q] /\ y = pc'[q]
      BY <1>9
    <2>2. Concerns(y, x, r, b)
      BY <1>2, <1>10, <2>1 DEF Concerns
    <2>3. Rebuilding(y, x, r, b)
      BY <1>8, <1>9, <2>1, <2>2 DEF Rebuilders
    <2>4. \A i \in Made : /\ releases'[i].ring = releases[i].ring /\ releases'[i].parent = releases[i].parent
                          /\ releases[i].checkpoint => releases'[i].checkpoint
                          /\ held'[i] = held[i]
      <3>1. Made \subseteq Id
        BY OfRingOrdered DEF HistoryInv
      <3> QED
        BY <1>1, <1>7, <3>1
    <2>5. Rebuilding(y, x, r, b)'
      BY <1>1, <1>4, <2>1, <2>2, <2>3, <2>4, RebuildingStable
    <2> QED
      BY <2>1, <2>5 DEF Rebuilding
  <1> QED
    BY <1>6, <1>10 DEF Rebuilders

\* A new release keeps the base of its ring, or is the first base of it.
LEMMA BatchKeepsBases ==
  ASSUME RetentionInv, HistoryInv', NEW p \in Proc, Batch(p), made' # made
  PROVE  Based' /\ Indexed' /\ VictimsFree'
  <1>0. HistoryInv /\ Order /\ Order' /\ LiveIsHead
    BY DEF RetentionInv, HistoryInv, Order
  <1> SUFFICES ASSUME NEW ring \in Ring, ring = my[p].req.ring, NEW id \in Id, id = made + 1
               PROVE  Based' /\ Indexed' /\ VictimsFree'
    BY <1>0, BatchAppends
  <1>1. /\ made \in Nat /\ made' = id
        /\ releases'[id].ring = ring
        /\ \A i \in Made : releases'[i] = releases[i] /\ held'[i] = held[i] /\ deltas'[i] = deltas[i]
        /\ deltas'[id] = Delta(held'[id], ringPackages[ring])
    BY <1>0, BatchAppends
  <1>2. /\ releases'[id].parent = ringHeads[ring]
        /\ ringHeads[ring] = 0 => releases'[id].checkpoint
        /\ releasePackages'[id] = (IF releases'[id].checkpoint THEN held'[id] ELSE {})
        /\ \A i \in Id \ {id} : releasePackages'[i] = releasePackages[i]
        /\ held'[id] \subseteq packages /\ packages' = packages
        /\ pc'[p] = "members"
        /\ \A q \in Proc \ {p} : my'[q] = my[q] /\ pc'[q] = pc[q]
        /\ gc.pc = "idle" /\ gc' = gc
    BY <1>0, BatchMakes
  <1>3. /\ Made' = Made \cup {id} /\ id \notin Made /\ Made \subseteq Id /\ id \in Nat
        /\ \A i \in Made : i < id /\ i \in Nat
        /\ \A q \in Proc : my[q] \in Local /\ my'[q] \in Local
        /\ \A q \in Proc : pc[q] \in OnMembers => my[q].goal \in Made
    BY <1>1, StoreAssumption
       DEF Made, HistoryInv, Order, Types, TypeOK, TablesOK, Id0, Id, RetentionInv, Scheduled, Suits
  <1>4. /\ \A r \in Ring : OfRing(r)' = IF r = ring THEN OfRing(r) \cup {id} ELSE OfRing(r)
        /\ \A r \in Ring : OfRing(r) \subseteq Made
    BY <1>1, <1>3 DEF OfRing
  <1>5. ASSUME NEW r \in Ring
        PROVE  Protected(r)' \subseteq Protected(r) \cup (IF r = ring THEN {id} ELSE {})
    <2>1. /\ OfRing(r)' = OfRing(r) \/ OfRing(r)' = OfRing(r) \cup {id}
          /\ \A i \in OfRing(r) : releases'[i].seq = releases[i].seq
      BY <1>1, <1>4
    <2>2. Protected(r)' \subseteq Protected(r) \cup {id}
      BY <1>0, <2>1, ProtectedShrinks
    <2>3. Protected(r)' \subseteq OfRing(r)'
      BY DEF Protected
    <2> QED
      BY <1>3, <1>4, <2>2, <2>3
  <1>6. Indexed'
    <2> SUFFICES ASSUME NEW r \in Ring, NEW i \in Protected(r)' PROVE held'[i] \subseteq packages
      BY <1>2 DEF Indexed
    <2>1. CASE i = id
      BY <1>2, <2>1
    <2>2. CASE i # id
      <3>1. i \in Protected(r) /\ i \in Made
        BY <1>4, <1>5, <2>2 DEF Protected
      <3> QED
        BY <1>1, <3>1 DEF RetentionInv, Indexed
    <2> QED
      BY <2>1, <2>2
  <1>7. VictimsFree'
    BY <1>2 DEF VictimsFree
  <1>8. \A r \in Ring, b \in Id : Spared(r, b)'
    BY <1>2 DEF Spared, Looked
  <1>9. ASSUME NEW r \in Ring, NEW b \in Id, b \in OfRing(r), Rebuilders(r, b)
        PROVE  Rebuilders(r, b)'
    <2> SUFFICES ASSUME NEW q \in Proc, Concerns(pc[q], my[q], r, b)' PROVE Rebuilding(pc[q], my[q], r, b)'
      BY DEF Rebuilders
    <2>1. CASE q = p
      BY <1>2, <2>1 DEF Rebuilding
    <2>2. CASE q # p
      <3>1. PICK x, y : x \in Local /\ x = my[q] /\ y = pc[q]
        BY <1>3
      <3>2. my'[q] = x /\ pc'[q] = y
        BY <1>2, <2>2, <3>1
      <3>3. Concerns(y, x, r, b)
        BY <1>3, <1>4, <3>1, <3>2 DEF Concerns
      <3>4. Rebuilding(y, x, r, b)
        BY <1>9, <3>1, <3>3 DEF Rebuilders
      <3>5. Rebuilding(y, x, r, b)'
        BY <1>0, <1>1, <1>3, <1>9, <3>1, <3>3, <3>4, RebuildingStable
      <3> QED
        BY <3>2, <3>5 DEF Rebuilding
    <2> QED
      BY <2>1, <2>2
  <1>10. ASSUME NEW r \in Ring, NEW b \in Id, Sound(r, b) PROVE Sound(r, b)'
    <2>1. b \in OfRing(r)' /\ b \in OfRing(r) /\ b \in Made /\ releases'[b].checkpoint /\ b < id
      BY <1>1, <1>3, <1>4, <1>10 DEF Sound
    <2>2. ASSUME NEW i \in OfRing(r)', i >= b
          PROVE  releasePackages'[i] = (IF releases'[i].checkpoint THEN held'[i] ELSE {})
      <3>1. CASE i \in OfRing(r)
        <4>1. i \in Made /\ i \in Id /\ i # id
          BY <1>3, <1>4, <3>1
        <4>2. releasePackages[i] = (IF releases[i].checkpoint THEN held[i] ELSE {})
          BY <1>10, <2>2, <3>1 DEF Sound
        <4> QED
          BY <1>1, <1>2, <4>1, <4>2
      <3>2. CASE i = id
        BY <1>2, <3>2
      <3> QED
        BY <1>4, <3>1, <3>2
    <2>3. ASSUME NEW i \in OfRing(r)', i > b
          PROVE  deltas'[i] = Delta(held'[i], held'[releases'[i].parent])
      <3>1. CASE i \in OfRing(r)
        <4>1. i \in Made /\ releases[i].parent \in Made
          BY <1>0, <1>4, <2>1, <2>3, <3>1, ParentAfterBase
        <4>2. deltas[i] = Delta(held[i], held[releases[i].parent])
          BY <1>10, <2>3, <3>1 DEF Sound
        <4>3. /\ releases'[i] = releases[i] /\ held'[i] = held[i] /\ deltas'[i] = deltas[i]
              /\ held'[releases[i].parent] = held[releases[i].parent]
          BY <1>1, <4>1
        <4> QED
          BY <4>2, <4>3
      <3>2. CASE i = id /\ r = ring
        <4>1. ringHeads[ring] # 0
          <5>1. {releases[j].seq : j \in OfRing(ring)} = 1 .. LastSeq(ring)
            BY <1>0 DEF LiveIsHead
          <5>2. releases[b].seq \in 1 .. LastSeq(ring)
            BY <2>1, <3>2, <5>1
          <5> QED
            BY <5>2 DEF LastSeq
        <4>2. ringHeads[ring] \in OfRing(ring) /\ ringPackages[ring] = held[ringHeads[ring]]
          BY <1>0, <4>1 DEF LiveIsHead
        <4>3. held'[ringHeads[ring]] = held[ringHeads[ring]]
          BY <1>1, <1>4, <4>2
        <4> QED
          BY <1>1, <1>2, <3>2, <4>2, <4>3
      <3> QED
        BY <1>4, <3>1, <3>2
    <2>4. ASSUME NEW i \in Protected(r)' PROVE b <= i
      <3>1. i \in Protected(r) \/ i = id
        BY <1>5
      <3>2. i \in Protected(r) => b <= i
        BY <1>10 DEF Sound
      <3>3. b \in Nat
        BY <1>3, <2>1
      <3> QED
        BY <1>3, <2>1, <3>1, <3>2, <3>3
    <2>5. ASSUME "gc" \notin Work, NEW i \in OfRing(r)' PROVE b <= i
      <3>1. i \in OfRing(r) \/ i = id
        BY <1>4
      <3>2. i \in OfRing(r) => b <= i
        BY <1>10, <2>5 DEF Sound
      <3>3. b \in Nat
        BY <1>3, <2>1
      <3> QED
        BY <1>3, <2>1, <3>1, <3>2, <3>3
    <2> QED
      BY <2>1, <2>2, <2>3, <2>4, <2>5 DEF Sound
  <1>11. ASSUME NEW r \in Ring, OfRing(r)' # {}
         PROVE  \E b \in Id : Sound(r, b)' /\ Rebuilders(r, b)' /\ Spared(r, b)'
    <2>1. CASE OfRing(r) # {}
      <3>1. PICK b \in Id : Sound(r, b) /\ Rebuilders(r, b)
        BY <2>1 DEF RetentionInv, Based
      <3>2. b \in OfRing(r)
        BY <3>1 DEF Sound
      <3> QED
        BY <1>8, <1>9, <1>10, <3>1, <3>2
    <2>2. CASE OfRing(r) = {}
      <3>1. r = ring /\ OfRing(r)' = {id}
        BY <1>4, <1>11, <2>2
      <3>2. ringHeads[ring] = 0
        BY <1>0, <2>2, <3>1 DEF LiveIsHead
      <3>3. \A i \in Protected(r)' : i = id
        BY <3>1 DEF Protected
      <3>4. Sound(r, id)'
        BY <1>2, <1>3, <3>1, <3>2, <3>3 DEF Sound
      <3>5. Rebuilders(r, id)'
        <4> SUFFICES ASSUME NEW q \in Proc, Concerns(pc[q], my[q], r, id)' PROVE Rebuilding(pc[q], my[q], r, id)'
          BY DEF Rebuilders
        <4>1. my'[q].goal = id
          BY <3>1 DEF Concerns
        <4>2. q = p
          BY <1>2, <1>3, <4>1 DEF Concerns
        <4> QED
          BY <1>2, <4>2 DEF Rebuilding
      <3> QED
        BY <1>8, <3>4, <3>5
    <2> QED
      BY <2>1, <2>2
  <1> QED
    BY <1>6, <1>7, <1>11 DEF Based

-----------------------------------------------------------------------------
(* The retention job.                                                      *)

\* What it keeps as a ring's base is one checkpoint, no older than the base
\* the ring had, and the only one that is not protected from there on.
LEMMA KeptBaseIs ==
  ASSUME HistoryInv, NEW r \in Ring, NEW b \in Id, Sound(r, b)
  PROVE  \E n \in OfRing(r) :
           /\ KeptBase(r) = {n} /\ b <= n /\ releases[n].checkpoint
           /\ \A i \in Protected(r) : n <= i
           /\ \A i \in OfRing(r) : i > n /\ releases[i].checkpoint => i \in Protected(r)
  <1> DEFINE behind == {c \in OfRing(r) : /\ releases[c].checkpoint
                                          /\ \A i \in Protected(r) : releases[c].seq <= releases[i].seq}
  <1>0. /\ Order /\ made \in Nat /\ OfRing(r) \subseteq Made /\ Protected(r) \subseteq OfRing(r)
        /\ \A i \in OfRing(r) : i \in Nat /\ i <= made /\ releases[i].seq \in Nat
        /\ \A i, j \in OfRing(r) : i < j <=> releases[i].seq < releases[j].seq
        /\ \A i \in Protected(r), j \in OfRing(r) : i <= j => j \in Protected(r)
    <2>1. Order /\ made \in Nat
      BY StoreAssumption DEF HistoryInv, Order, Types, TypeOK, TablesOK, Id0
    <2>2. \A i \in Made : i \in Nat /\ i <= made
      BY <2>1 DEF Made
    <2> QED
      BY <2>1, <2>2, OfRingOrdered, ProtectedIsTail
  <1>1. \A i, j \in OfRing(r) : i <= j <=> releases[i].seq <= releases[j].seq
    BY <1>0
  <1>2. b \in behind
    BY <1>0, <1>1 DEF Sound
  <1>3. PICK n \in behind : \A c \in behind : c <= n
    <2> DEFINE T == {k \in Nat : made - k \in behind}
    <2>1. made - b \in T
      BY <1>0, <1>2
    <2>2. PICK m \in T : \A k \in T : m <= k
      BY <2>1, LeastExists
    <2>3. ASSUME NEW c \in behind PROVE c <= made - m
      <3>1. c \in Nat /\ c <= made
        BY <1>0
      <3>2. made - c \in T
        BY <1>0, <3>1
      <3>3. m <= made - c /\ m \in Nat
        BY <2>2, <3>2
      <3> QED
        BY <1>0, <3>1, <3>3
    <2>4. made - m \in behind
      BY <2>2
    <2> QED
      BY <2>3, <2>4
  <1>4. n \in OfRing(r) /\ releases[n].checkpoint /\ b <= n
    BY <1>2, <1>3
  <1>5. \A i \in Protected(r) : n <= i
    BY <1>0, <1>1, <1>3
  <1>6. KeptBase(r) = {n}
    <2>1. KeptBase(r) = {x \in behind : \A c \in behind : releases[c].seq <= releases[x].seq}
      BY DEF KeptBase
    <2>2. \A c \in behind : releases[c].seq <= releases[n].seq
      BY <1>1, <1>3
    <2>3. ASSUME NEW x \in behind, releases[n].seq <= releases[x].seq PROVE x = n
      <3>1. x \in OfRing(r) /\ x <= n /\ n <= x
        BY <1>1, <1>3, <2>3
      <3> QED
        BY <1>0, <1>4, <3>1
    <2> HIDE DEF behind
    <2> QED
      BY <1>3, <2>1, <2>2, <2>3
  <1>7. ASSUME NEW i \in OfRing(r), i > n, releases[i].checkpoint PROVE i \in Protected(r)
    <2>1. i \notin behind
      BY <1>0, <1>3, <1>4, <1>7
    <2>2. PICK k \in Protected(r) : ~(releases[i].seq <= releases[k].seq)
      BY <1>7, <2>1
    <2>3. k \in OfRing(r) /\ k <= i
      BY <1>0, <1>1, <1>7, <2>2
    <2> QED
      BY <1>0, <1>7, <2>3
  <1> QED
    BY <1>4, <1>5, <1>6, <1>7

\* No package of a protected release is a victim: the ring serves it still,
\* or a protected delta removes it.
LEMMA UnreferencedIsUnheld ==
  ASSUME HistoryInv, NEW r \in Ring, NEW b \in Id, Sound(r, b), Protected(r) \subseteq gc.protected,
         NEW v \in Unreferenced, NEW i \in Protected(r)
  PROVE  v \notin held[i]
  <1> SUFFICES ASSUME v \in held[i] PROVE FALSE
    OBVIOUS
  <1> DEFINE S == {k \in OfRing(r) : k >= i /\ v \notin held[k]}
  <1>0. /\ Order /\ LiveIsHead /\ i \in OfRing(r) /\ OfRing(r) \subseteq Nat /\ b \in OfRing(r)
        /\ \A j \in OfRing(r) : i <= j => j \in Protected(r)
    BY ProtectedIsTail, OfRingOrdered DEF HistoryInv, Order, Sound
  <1>1. ringHeads[r] \in OfRing(r) /\ i <= ringHeads[r] /\ v \notin held[ringHeads[r]]
    <2>1. ringHeads[r] # 0 /\ ringHeads[r] \in OfRing(r) /\ i <= ringHeads[r]
      BY <1>0, HeadIsNewest
    <2>2. ringPackages[r] = held[ringHeads[r]]
      BY <1>0, <2>1 DEF LiveIsHead
    <2>3. v \notin ringPackages[r]
      BY DEF Unreferenced, Pinned
    <2> QED
      BY <2>1, <2>2, <2>3
  <1>2. ringHeads[r] \in S
    BY <1>0, <1>1
  <1>3. PICK k \in S : \A j \in S : k <= j
    BY <1>0, <1>2, LeastExists
  <1>4. k \in OfRing(r) /\ k > i /\ k > b /\ k \in Nat /\ v \notin held[k]
    <2>1. k \in OfRing(r) /\ k >= i /\ k # i /\ b <= i
      BY <1>0, <1>3 DEF Sound
    <2> QED
      BY <1>0, <1>3, <2>1
  <1>5. /\ releases[k].parent \in OfRing(r) /\ i <= releases[k].parent /\ releases[k].parent < k
    <2>1. releases[k].parent \in OfRing(r) /\ releases[k].parent < k
      BY <1>0, <1>4, ParentAfterBase
    <2>2. i <= releases[k].parent
      BY <1>0, <1>4 DEF HistoryInv, Linked, OfRing
    <2> QED
      BY <2>1, <2>2
  <1>6. v \in held[releases[k].parent]
    <2>1. releases[k].parent \notin S
      BY <1>0, <1>3, <1>4, <1>5
    <2> QED
      BY <1>0, <1>5, <2>1
  <1>7. v \in deltas[k].remove
    <2>1. deltas[k] = Delta(held[k], held[releases[k].parent])
      BY <1>4 DEF Sound
    <2> QED
      BY <1>4, <1>6, <2>1 DEF Delta
  <1>8. k \in gc.protected
    BY <1>0, <1>4
  <1> QED
    BY <1>7, <1>8 DEF Unreferenced

\* What every step of the job leaves alone.
LEMMA GcLeaves ==
  ASSUME RetentionInv, Serial, GcStep
  PROVE  /\ UNCHANGED <<made, held, ringHeads, ringPackages, pc, my>>
         /\ \A q \in Proc : pc'[q] = "idle"
         /\ \A i \in Id : /\ releases'[i].ring = releases[i].ring /\ releases'[i].seq = releases[i].seq
                          /\ releases'[i].parent = releases[i].parent
         /\ \A r \in Ring : OfRing(r)' = OfRing(r) /\ Protected(r)' = Protected(r) /\ OfRing(r) \subseteq Id
         /\ \A r \in Ring, b \in Id : Rebuilders(r, b)'
         /\ ~("gc" \notin Work)
  <1>0. HistoryInv /\ Order /\ [Next]_vars
    BY DEF RetentionInv, HistoryInv, Next
  <1>1. UNCHANGED <<made, held, ringHeads, ringPackages, pc, my>>
    BY DEF GcStep, GcStart, GcRetain, GcSelect, GcRows, GcFlags, GcDeltas, GcObject, GcRow, GcEnd, store
  <1>2. /\ gc.pc # "idle" \/ MayCollect
        /\ gc.pc = "idle" => "gc" \in Work
    BY DEF GcStep, GcStart, GcRetain, GcSelect, GcRows, GcFlags, GcDeltas, GcObject, GcRow, GcEnd
  <1>3. \A q \in Proc : pc'[q] = "idle"
    BY <1>0, <1>1, <1>2 DEF HistoryInv, Scheduled, MayCollect
  <1>4. \A i \in Id : /\ releases'[i].ring = releases[i].ring /\ releases'[i].seq = releases[i].seq
                      /\ releases'[i].parent = releases[i].parent
    BY <1>0, <1>1, QuietSteps, QuietParents
  <1>5. \A r \in Ring : OfRing(r)' = OfRing(r) /\ Protected(r)' = Protected(r) /\ OfRing(r) \subseteq Id
    BY <1>0, <1>1, <1>4, ProtectedUnchanged, OfRingOrdered
  <1>6. \A r \in Ring, b \in Id : Rebuilders(r, b)'
    BY <1>3 DEF Rebuilders, Concerns, OnMembers
  <1>7. ~("gc" \notin Work)
    BY <1>0, <1>2 DEF HistoryInv, Scheduled
  <1> QED
    BY <1>1, <1>3, <1>4, <1>5, <1>6, <1>7

\* Sound reads nothing of a release older than the base.
LEMMA SoundByRows ==
  ASSUME NEW r \in Ring, NEW b \in Id, Sound(r, b), "gc" \in Work,
         UNCHANGED held, OfRing(r)' = OfRing(r), Protected(r)' = Protected(r),
         \A i \in OfRing(r) : releases'[i].parent = releases[i].parent,
         \A i \in OfRing(r) : i >= b => /\ releases'[i].checkpoint = releases[i].checkpoint
                                        /\ releasePackages'[i] = releasePackages[i],
         \A i \in OfRing(r) : i > b => deltas'[i] = deltas[i],
         b \in Nat
  PROVE  Sound(r, b)'
  <1>1. b \in OfRing(r)' /\ releases'[b].checkpoint
    BY DEF Sound
  <1>2. \A i \in OfRing(r)' : i >= b => releasePackages'[i] = (IF releases'[i].checkpoint THEN held'[i] ELSE {})
    BY DEF Sound
  <1>3. \A i \in OfRing(r)' : i > b => deltas'[i] = Delta(held'[i], held'[releases'[i].parent])
    BY DEF Sound
  <1> QED
    BY <1>1, <1>2, <1>3 DEF Sound

\* Over every step of the job a ring has a base: the one it had until the job
\* reads the ring, and the one that the job keeps from then on.
LEMMA GcKeepsBases ==
  ASSUME RetentionInv, Serial, GcStep
  PROVE  Based'
  <1>0. HistoryInv /\ Order /\ "gc" \in Work /\ gc \in GcState
    BY GcLeaves DEF RetentionInv, HistoryInv, Order, Types, TypeOK
  <1>a. /\ UNCHANGED held
        /\ \A i \in Id : releases'[i].ring = releases[i].ring /\ releases'[i].parent = releases[i].parent
        /\ \A r \in Ring : OfRing(r)' = OfRing(r) /\ Protected(r)' = Protected(r) /\ OfRing(r) \subseteq Id
        /\ \A r \in Ring : OfRing(r) \subseteq Nat
    BY <1>0, GcLeaves, OfRingOrdered
  <1> SUFFICES ASSUME NEW r \in Ring, OfRing(r) # {}
               PROVE  \E b \in Id : Sound(r, b)' /\ Rebuilders(r, b)' /\ Spared(r, b)'
    BY <1>a DEF Based
  <1>1. PICK b \in Id : Sound(r, b) /\ Spared(r, b)
    BY DEF RetentionInv, Based
  <1>2. b \in OfRing(r) /\ b \in Nat
    BY <1>1, <1>a DEF Sound
  <1>b. SUFFICES ASSUME ~(\E n \in Id : Sound(r, n)' /\ Spared(r, n)') PROVE FALSE
    BY GcLeaves
  \* The tables stay: the base does too, if what the job has read still spares it.
  <1>3. ASSUME UNCHANGED <<releases, releasePackages, deltas>>, Spared(r, b)'
        PROVE  FALSE
    <2>1. Sound(r, b)'
      BY <1>0, <1>a, <1>1, <1>2, <1>3, SoundByRows
    <2> QED
      BY <1>3, <1>b, <2>1
  <1>4. CASE GcStart
    <2>1. gc'.pc = "retain" /\ gc'.todo = Ring /\ gc'.bases = {}
      BY <1>4 DEF GcStart, GcIdle
    <2> QED
      BY <1>3, <1>4, <2>1 DEF GcStart, Spared, Looked, store
  <1>5. ASSUME NEW c \in Ring, GcRetain(c) PROVE FALSE
    <2>1. /\ gc.pc = "retain" /\ c \in gc.todo
          /\ gc'.pc = (IF gc.todo = {c} THEN "select" ELSE "retain")
          /\ gc'.todo = gc.todo \ {c}
          /\ gc'.protected = gc.protected \cup Protected(c)
          /\ gc'.kept = (gc.kept \cup {i \in Protected(c) : releases[i].checkpoint}) \cup KeptBase(c)
          /\ gc'.bases = gc.bases \cup KeptBase(c)
          /\ UNCHANGED <<releases, releasePackages, deltas>>
      BY <1>0, <1>5 DEF GcRetain, GcState, store
    <2>2. CASE r # c
      <3>1. Looked(r)' <=> Looked(r)
        BY <2>1, <2>2 DEF Looked
      <3>2. \A i \in KeptBase(c) : releases[i].ring # r
        BY <2>2 DEF KeptBase, OfRing
      <3>3. Spared(r, b)'
        BY <1>1, <1>a, <2>1, <3>1, <3>2 DEF Spared
      <3> QED
        BY <1>3, <2>1, <3>3
    <2>3. CASE r = c
      <3>1. PICK n \in OfRing(r) :
              /\ KeptBase(r) = {n} /\ b <= n /\ releases[n].checkpoint
              /\ \A i \in Protected(r) : n <= i
              /\ \A i \in OfRing(r) : i > n /\ releases[i].checkpoint => i \in Protected(r)
        BY <1>0, <1>1, KeptBaseIs
      <3>2. n \in Id /\ n \in Nat /\ \A i \in OfRing(r) : i \in Nat
        BY <1>a, <3>1
      <3>3. Sound(r, n)
        <4>1. \A i \in OfRing(r) : (i >= n => i >= b) /\ (i > n => i > b)
          BY <1>2, <3>1, <3>2
        <4> QED
          BY <1>0, <1>1, <3>1, <4>1 DEF Sound
      <3>4. Sound(r, n)'
        BY <1>0, <1>a, <2>1, <3>2, <3>3, SoundByRows
      <3>5. ~Looked(r)
        BY <2>1, <2>3 DEF Looked
      <3>6. \A i \in gc.bases : releases[i].ring # r
        BY <1>1, <2>1, <3>5 DEF Spared
      <3>7. Looked(r)'
        BY <2>1, <2>3 DEF Looked
      <3>8. \A i \in OfRing(r) : i >= n /\ releases[i].checkpoint => i \in gc'.kept
        <4> SUFFICES ASSUME NEW i \in OfRing(r), i >= n, releases[i].checkpoint PROVE i \in gc'.kept
          OBVIOUS
        <4>1. i = n \/ i > n
          BY <3>2
        <4> QED
          BY <2>1, <2>3, <3>1, <4>1
      <3>9. Spared(r, n)'
        BY <1>a, <2>1, <2>3, <3>1, <3>6, <3>7, <3>8 DEF Spared
      <3> QED
        BY <1>b, <3>2, <3>4, <3>9
    <2> QED
      BY <2>2, <2>3
  <1>6. CASE GcSelect
    <2>1. /\ gc.pc = "select" /\ gc'.pc = "rows" /\ gc'.kept = gc.kept /\ gc'.bases = gc.bases
          /\ gc'.protected = gc.protected /\ UNCHANGED <<releases, releasePackages, deltas>>
      BY <1>0, <1>6 DEF GcSelect, GcState, store
    <2>2. Spared(r, b)'
      BY <1>1, <1>a, <2>1 DEF Spared, Looked
    <2> QED
      BY <1>3, <2>1, <2>2
  <1>7. CASE GcRows
    <2>1. /\ gc.pc = "rows" /\ gc'.pc = "flags" /\ gc'.kept = gc.kept /\ gc'.bases = gc.bases
          /\ gc'.protected = gc.protected /\ UNCHANGED <<releases, deltas>>
          /\ \A i \in Id : releasePackages'[i] = IF i \in gc.kept THEN releasePackages[i] ELSE {}
      BY <1>0, <1>7 DEF GcRows, GcState
    <2>2. Spared(r, b)'
      BY <1>1, <1>a, <2>1 DEF Spared, Looked
    <2>3. ASSUME NEW i \in OfRing(r), i >= b PROVE releasePackages'[i] = releasePackages[i]
      <3>1. releasePackages[i] = (IF releases[i].checkpoint THEN held[i] ELSE {})
        BY <1>1, <2>3 DEF Sound
      <3>2. releases[i].checkpoint => i \in gc.kept
        BY <1>1, <2>1, <2>3 DEF Spared, Looked
      <3> QED
        BY <1>a, <2>1, <3>1, <3>2
    <2>4. Sound(r, b)'
      BY <1>0, <1>a, <1>1, <1>2, <2>1, <2>3, SoundByRows
    <2> QED
      BY <1>b, <2>2, <2>4
  <1>8. CASE GcFlags
    <2>1. /\ gc.pc = "flags" /\ gc'.pc = "deltas" /\ gc'.kept = gc.kept /\ gc'.bases = gc.bases
          /\ gc'.protected = gc.protected /\ UNCHANGED <<releasePackages, deltas>>
      BY <1>0, <1>8 DEF GcFlags, GcState
    <2>2. \A i \in Id : releases'[i].checkpoint <=> releases[i].checkpoint /\ i \in gc.kept
      <3>1. releases \in [Id -> Release]
        BY <1>0 DEF Order, Types, TypeOK, TablesOK
      <3> QED
        BY <1>8, <3>1 DEF GcFlags, Release
    <2>3. Spared(r, b)'
      <3>1. Looked(r) /\ Looked(r)'
        BY <2>1 DEF Looked
      <3>2. Protected(r)' \subseteq gc'.protected
        BY <1>1, <1>a, <2>1, <3>1 DEF Spared
      <3>3. \A i \in OfRing(r)' : i >= b /\ releases'[i].checkpoint => i \in gc'.kept
        BY <1>a, <2>1, <2>2
      <3>4. \A i \in gc'.bases : i \in Id
        BY <1>0, <2>1 DEF GcState
      <3>5. \A i \in gc'.bases : releases'[i].ring = r => Looked(r)' /\ i = b
        BY <1>1, <1>a, <2>1, <3>1, <3>4 DEF Spared
      <3> QED
        BY <3>2, <3>3, <3>5 DEF Spared
    <2>4. ASSUME NEW i \in OfRing(r), i >= b PROVE releases'[i].checkpoint = releases[i].checkpoint
      <3>1. releases[i].checkpoint => i \in gc.kept
        BY <1>1, <2>1, <2>4 DEF Spared, Looked
      <3>2. i \in Id /\ releases[i].checkpoint \in BOOLEAN /\ releases'[i].checkpoint \in BOOLEAN
        <4>1. /\ releases \in [Id -> Release] /\ i \in Id
              /\ releases' = [j \in Id |-> [releases[j] EXCEPT !.checkpoint = @ /\ j \in gc.kept]]
          BY <1>0, <1>8, <1>a DEF Order, Types, TypeOK, TablesOK, GcFlags
        <4> QED
          BY <4>1 DEF Release
      <3> QED
        BY <2>2, <3>1, <3>2
    <2>5. Sound(r, b)'
      BY <1>0, <1>a, <1>1, <1>2, <2>1, <2>4, SoundByRows
    <2> QED
      BY <1>b, <2>3, <2>5
  <1>9. CASE GcDeltas
    <2>1. /\ gc.pc = "deltas" /\ gc'.pc = "victims" /\ gc'.kept = gc.kept /\ gc'.bases = gc.bases
          /\ gc'.protected = gc.protected /\ UNCHANGED <<releasePackages, releases>>
          /\ \A i \in Id : ~Forgotten(i) => deltas'[i] = deltas[i]
      BY <1>0, <1>9 DEF GcDeltas, GcState
    <2>2. Spared(r, b)'
      BY <1>1, <1>a, <2>1 DEF Spared, Looked
    <2>3. ASSUME NEW i \in OfRing(r), i > b PROVE deltas'[i] = deltas[i]
      <3>1. releases[i].ring = r /\ i \in Id
        BY <1>a DEF OfRing
      <3>2. \A x \in gc.bases : releases[x].ring = r => x = b
        BY <1>1, <2>1 DEF Spared
      <3>3. ~(releases[i].seq <= releases[b].seq)
        <4>1. /\ releases[b].seq < releases[i].seq
              /\ releases[b].seq \in Nat /\ releases[i].seq \in Nat
          BY <1>0, <1>2, <2>3, OfRingOrdered
        <4> QED
          BY <4>1
      <3>4. ~Forgotten(i)
        BY <3>1, <3>2, <3>3 DEF Forgotten
      <3> QED
        BY <2>1, <3>1, <3>4
    <2>4. Sound(r, b)'
      BY <1>0, <1>a, <1>1, <1>2, <2>1, <2>3, SoundByRows
    <2> QED
      BY <1>b, <2>2, <2>4
  <1>10. ASSUME NEW v \in Pkg, GcObject(v) PROVE FALSE
    <2>1. /\ gc.pc = "victims" /\ gc'.pc = "row" /\ gc'.kept = gc.kept /\ gc'.bases = gc.bases
          /\ gc'.protected = gc.protected /\ UNCHANGED <<releases, releasePackages, deltas>>
      BY <1>0, <1>10 DEF GcObject, GcState, store
    <2>2. Spared(r, b)'
      BY <1>1, <1>a, <2>1 DEF Spared, Looked
    <2> QED
      BY <1>3, <2>1, <2>2
  <1>11. CASE GcRow \/ GcEnd
    <2>1. UNCHANGED <<releases, releasePackages, deltas>>
      BY <1>11 DEF GcRow, GcEnd, store
    <2>2. CASE gc' = GcIdle
      <3>1. gc'.pc = "idle"
        BY <2>2 DEF GcIdle
      <3>2. Spared(r, b)'
        BY <3>1 DEF Spared, Looked
      <3> QED
        BY <1>3, <2>1, <3>2
    <2>3. CASE gc' # GcIdle
      <3>1. gc.pc = "row" /\ gc' = [gc EXCEPT !.pc = "victims", !.victims = @ \ {gc.victim}, !.victim = None]
        BY <1>11, <2>3 DEF GcRow, GcEnd
      <3>2. /\ gc'.pc = "victims" /\ gc'.kept = gc.kept /\ gc'.bases = gc.bases
            /\ gc'.protected = gc.protected
        BY <1>0, <3>1 DEF GcState
      <3>3. Spared(r, b)'
        BY <1>1, <1>a, <2>1, <3>1, <3>2 DEF Spared, Looked
      <3> QED
        BY <1>3, <2>1, <3>3
    <2> QED
      BY <2>2, <2>3
  <1> QED
    BY <1>4, <1>5, <1>6, <1>7, <1>8, <1>9, <1>10, <1>11 DEF GcStep

\* The job removes no package that a protected release holds.
LEMMA GcKeepsHeld ==
  ASSUME RetentionInv, Serial, GcStep
  PROVE  Indexed' /\ VictimsFree'
  <1>0. /\ HistoryInv /\ Order /\ gc \in GcState /\ Indexed /\ VictimsFree
        /\ UNCHANGED held /\ \A r \in Ring : Protected(r)' = Protected(r)
    BY GcLeaves DEF RetentionInv, HistoryInv, Order, Types, TypeOK
  <1>1. CASE GcRow
    <2>1. \A r \in Ring : \A i \in Protected(r) : gc.victim \notin held[i]
      BY <1>0, <1>1 DEF GcRow, VictimsFree
    <2>2. \/ gc'.pc = "idle" /\ packages' = packages
          \/ gc'.pc = "victims" /\ gc'.victims \subseteq gc.victims /\ packages' = packages \ {gc.victim}
      <3>1. \/ gc' = GcIdle /\ packages' = packages
            \/ /\ gc' = [gc EXCEPT !.pc = "victims", !.victims = @ \ {gc.victim}, !.victim = None]
               /\ packages' = packages \ {gc.victim}
        BY <1>1 DEF GcRow
      <3>2. GcIdle.pc = "idle"
        BY DEF GcIdle
      <3>3. ASSUME gc' = [gc EXCEPT !.pc = "victims", !.victims = @ \ {gc.victim}, !.victim = None]
            PROVE  gc'.pc = "victims" /\ gc'.victims \subseteq gc.victims
        BY <1>0, <3>3 DEF GcState
      <3> QED
        BY <3>1, <3>2, <3>3
    <2>3. gc.pc = "row"
      BY <1>1 DEF GcRow
    <2> QED
      BY <1>0, <2>1, <2>2, <2>3 DEF Indexed, VictimsFree
  <1>2. CASE GcSelect
    <2>1. gc.pc = "select" /\ gc'.pc = "rows" /\ gc'.victims = Unreferenced /\ packages' = packages
      BY <1>0, <1>2 DEF GcSelect, GcState, pool
    <2>2. ASSUME NEW r \in Ring, NEW i \in Protected(r), NEW v \in Unreferenced PROVE v \notin held[i]
      <3>1. OfRing(r) # {}
        BY DEF Protected
      <3>2. PICK b \in Id : Sound(r, b) /\ Spared(r, b)
        BY <3>1 DEF RetentionInv, Based
      <3>3. Protected(r) \subseteq gc.protected
        BY <2>1, <3>2 DEF Spared, Looked
      <3> QED
        BY <1>0, <3>2, <3>3, UnreferencedIsUnheld
    <2> QED
      BY <1>0, <2>1, <2>2 DEF Indexed, VictimsFree
  <1>3. CASE GcRows \/ GcFlags \/ GcDeltas \/ \E v \in Pkg : GcObject(v)
    <2>1. /\ gc.pc \in {"rows", "flags", "deltas", "victims"} /\ gc'.victims = gc.victims
          /\ gc'.pc = "row" => gc'.victim \in gc.victims
          /\ packages' = packages
      BY <1>0, <1>3 DEF GcRows, GcFlags, GcDeltas, GcObject, GcState, pool
    <2> QED
      BY <1>0, <2>1 DEF Indexed, VictimsFree
  <1>4. CASE GcStart \/ GcEnd \/ \E r \in Ring : GcRetain(r)
    <2>1. gc'.pc \in {"idle", "retain", "select"} /\ packages' = packages
      <3>1. CASE GcStart
        BY <3>1 DEF GcStart, GcIdle, pool
      <3>3. CASE GcEnd
        <4>1. gc' = GcIdle /\ GcIdle.pc = "idle" /\ packages' = packages
          BY <3>3 DEF GcEnd, GcIdle, pool
        <4> QED
          BY <4>1
      <3>2. ASSUME NEW r \in Ring, GcRetain(r) PROVE gc'.pc \in {"idle", "retain", "select"} /\ packages' = packages
        BY <1>0, <3>2 DEF GcRetain, GcState, pool
      <3> QED
        BY <1>4, <3>1, <3>2, <3>3
    <2> QED
      BY <1>0, <2>1 DEF Indexed, VictimsFree
  <1> QED
    BY <1>1, <1>2, <1>3, <1>4 DEF GcStep

\* The invariant of retention over every step, and initially.
LEMMA StepKeepsRetention ==
  ASSUME RetentionInv, Serial, [Next]_vars
  PROVE  RetentionInv'
  <1>0. HistoryInv /\ Order /\ HistoryInv'
    BY StepKeepsHistory DEF RetentionInv, HistoryInv
  <1> SUFFICES Based' /\ Indexed' /\ VictimsFree'
    BY <1>0 DEF RetentionInv
  <1>1. ASSUME NEW p \in Proc, Create(p) \/ Membership(p) \/ Read(p) \/ Render(p) \/ End(p), made' = made
        PROVE  Based' /\ Indexed' /\ VictimsFree'
    <2>1. UNCHANGED <<packages, gc>> /\ gc.pc = "idle"
      BY <1>0, <1>1, QuietRows, CallsMove
    <2>2. /\ UNCHANGED <<made, held>>
          /\ \A i \in Id : releases'[i].ring = releases[i].ring /\ releases'[i].seq = releases[i].seq
      BY <1>0, <1>1, QuietSteps DEF Next
    <2>3. \A r \in Ring : OfRing(r)' = OfRing(r) /\ Protected(r)' = Protected(r)
      BY <1>0, <2>2, ProtectedUnchanged
    <2>4. \A r \in Ring, b \in Id : Sound(r, b) /\ Rebuilders(r, b) => Sound(r, b)' /\ Rebuilders(r, b)'
      BY <1>0, <1>1, ProcessesKeepSound
    <2>5. \A r \in Ring, b \in Id : Spared(r, b)'
      BY <2>1 DEF Spared, Looked
    <2>6. Based'
      BY <2>3, <2>4, <2>5 DEF RetentionInv, Based
    <2> QED
      BY <2>1, <2>2, <2>3, <2>6 DEF RetentionInv, Indexed, VictimsFree
  <1>2. CASE made' # made
    BY <1>0, <1>2, OnlyBatchesMake, BatchKeepsBases
  <1>3. CASE GcStep
    BY <1>3, GcKeepsBases, GcKeepsHeld
  <1>4. CASE GracePasses \/ UNCHANGED vars
    <2>1. UNCHANGED <<store, packages, pc, my, gc>>
      BY <1>4 DEF GracePasses, vars, pool
    <2>2. \A r : OfRing(r)' = OfRing(r) /\ Protected(r)' = Protected(r)
      BY <2>1 DEF store, OfRing, Protected, Made
    <2>3. \A r, b : Sound(r, b)' = Sound(r, b)
      BY <2>1, <2>2 DEF Sound, store
    <2>4. ASSUME NEW r, NEW b, Rebuilders(r, b) PROVE Rebuilders(r, b)'
      BY <2>1, <2>2, <2>4 DEF Rebuilders, Concerns, Rebuilding, store
    <2>5. ASSUME NEW r, NEW b, Spared(r, b) PROVE Spared(r, b)'
      BY <2>1, <2>2, <2>5 DEF Spared, Looked, store
    <2>6. Based'
      BY <2>2, <2>3, <2>4, <2>5 DEF RetentionInv, Based
    <2> QED
      BY <2>1, <2>2, <2>6 DEF RetentionInv, Indexed, VictimsFree, store
  <1> QED
    BY <1>1, <1>2, <1>3, <1>4 DEF Next

LEMMA InitRetention == Init => RetentionInv
  <1> SUFFICES ASSUME Init PROVE RetentionInv
    OBVIOUS
  <1>1. \A r \in Ring : OfRing(r) = {} /\ Protected(r) = {}
    BY DEF Init, OfRing, Protected, Made
  <1>2. VictimsFree
    BY DEF Init, VictimsFree, GcIdle
  <1> QED
    BY <1>1, <1>2, InitHistory DEF RetentionInv, Based, Indexed

-----------------------------------------------------------------------------
(* What the base gives: reconstruction, by induction from it on.           *)

\* The links make the recursions founded.
LEMMA ParentsAreOlder == HistoryInv => Backward
  <1> SUFFICES ASSUME HistoryInv, NEW i \in Id PROVE releases[i].parent < i
    BY DEF Backward
  <1>1. i \in Nat /\ i > 0 /\ 0 < i
    BY StoreAssumption DEF Id
  <1>2. i \in Made => releases[i].parent = 0 \/ releases[i].parent < i
    BY DEF HistoryInv, Linked
  <1>3. i \notin Made => releases[i].parent = 0
    BY DEF HistoryInv, Linked
  <1> QED
    BY <1>1, <1>2, <1>3

\* From the base of its ring on, every release is rebuilt as it was made.
LEMMA SoundRebuilds ==
  ASSUME HistoryInv, NEW r \in Ring, NEW b \in Id, Sound(r, b), NEW i \in OfRing(r), b <= i
  PROVE  CanRebuild[i] /\ Rebuilt[i] = held[i]
  <1> DEFINE Exact(j) == CanRebuild[j] /\ Rebuilt[j] = held[j]
             S        == {j \in OfRing(r) : b <= j /\ ~Exact(j)}
  <1>0. /\ TypeOK /\ Backward /\ OfRing(r) \subseteq Nat /\ OfRing(r) \subseteq Id
        /\ releases \in [Id -> Release]
    BY ParentsAreOlder, OfRingOrdered DEF HistoryInv, Order, Types, TypeOK, TablesOK
  <1>1. SUFFICES ASSUME S # {} PROVE FALSE
    OBVIOUS
  <1>2. PICK k \in S : \A j \in S : k <= j
    <2>1. S \subseteq Nat
      BY <1>0
    <2> HIDE DEF S
    <2> QED
      BY <1>1, <2>1, LeastExists
  <1>3. /\ k \in OfRing(r) /\ k \in Id /\ k \in Nat /\ b <= k /\ ~Exact(k)
        /\ b \in OfRing(r) /\ b \in Nat
    BY <1>0, <1>2 DEF Sound
  <1>4. /\ CanRebuild[k] = CanRebuildFrom(CanRebuild, k)
        /\ Rebuilt[k] = RebuiltFrom(Rebuilt, k)
    BY <1>0, <1>3, RebuiltIs, CanRebuildIs
  <1>5. CASE releases[k].checkpoint
    <2>1. releasePackages[k] = held[k]
      BY <1>3, <1>5 DEF Sound
    <2> QED
      BY <1>3, <1>4, <1>5, <2>1 DEF CanRebuildFrom, RebuiltFrom
  <1>6. CASE ~releases[k].checkpoint
    <2>1. k > b
      <3>1. k # b
        BY <1>6 DEF Sound
      <3> QED
        BY <1>3, <3>1
    <2>2. PICK m : m = releases[k].parent
      OBVIOUS
    <2>3. m # 0 /\ m \in OfRing(r) /\ b <= m /\ m < k
      BY <1>3, <2>1, <2>2, ParentAfterBase
    <2>4. Exact(m)
      <3>1. m \notin S
        BY <1>0, <1>2, <1>3, <2>3
      <3> QED
        BY <2>3, <3>1
    <2>5. deltas[k] = Delta(held[k], held[m])
      BY <1>3, <2>1, <2>2 DEF Sound
    <2>6. Rebuilt[k] = Apply(held[m], Delta(held[k], held[m]))
      BY <1>4, <1>6, <2>2, <2>3, <2>4, <2>5 DEF RebuiltFrom
    <2>7. CanRebuild[k]
      BY <1>4, <2>2, <2>3, <2>4 DEF CanRebuildFrom
    <2> QED
      BY <1>3, <2>6, <2>7, ApplyDelta
  <1> QED
    BY <1>5, <1>6

\* With a base no younger than what is protected, all of it is exact.
LEMMA ProtectedAreExact == RetentionInv => RetainedIntact
  <1> SUFFICES ASSUME RetentionInv, NEW r \in Ring, NEW i \in Protected(r)
               PROVE  CanRebuild[i] /\ Rebuilt[i] = held[i] /\ held[i] \subseteq packages
    BY DEF RetainedIntact
  <1>1. i \in OfRing(r)
    BY DEF Protected
  <1>2. PICK b \in Id : Sound(r, b)
    BY <1>1 DEF RetentionInv, Based
  <1>3. b <= i
    BY <1>2 DEF Sound
  <1> QED
    BY <1>1, <1>2, <1>3, SoundRebuilds DEF RetentionInv, Indexed

\* Only the retention job takes an object.
LEMMA ObjectsStay ==
  ASSUME [Next]_vars, \A v \in Pkg : ~GcObject(v)
  PROVE  UNCHANGED objects
  <1>1. ASSUME NEW p \in Proc, Create(p) PROVE UNCHANGED objects
    BY <1>1 DEF Create, StartCreate, ReadParent, ReadSeq, ChooseBase, ReadLastCheckpoint, Batch, pool
  <1>2. ASSUME NEW p \in Proc, Membership(p) PROVE UNCHANGED objects
    BY <1>2 DEF Membership, Members, ReadStart, Walk, ReadCheckpointRows, Replay, SaveCheckpoint, ReadRows, pool
  <1>3. ASSUME NEW p \in Proc, Read(p) \/ Render(p) \/ End(p) PROVE UNCHANGED objects
    BY <1>3 DEF Read, StartRead, Answer, Render, StartRender, PutDatabase, End, pool
  <1>4. CASE GcStep
    BY <1>4 DEF GcStep, GcStart, GcRetain, GcSelect, GcRows, GcFlags, GcDeltas, GcRow, GcEnd, pool
  <1>5. CASE GracePasses \/ UNCHANGED vars
    BY <1>5 DEF GracePasses, vars, pool
  <1> QED
    BY <1>1, <1>2, <1>3, <1>4, <1>5 DEF Next

\* The object of a package that a protected release holds is no victim's alone.
LEMMA ProtectedObjectsStay ==
  ASSUME RetentionInv, [Next]_vars, NEW r \in Ring, NEW i \in Protected(r), NEW p \in held[i],
         Meta[p].key \in objects
  PROVE  Meta[p].key \in objects'
  <1>1. ASSUME NEW v \in Pkg, GcObject(v) PROVE Meta[p].key \in objects'
    <2>1. gc.pc = "victims" /\ v \in gc.victims
      BY <1>1 DEF GcObject
    <2>2. p # v /\ p \in packages
      BY <2>1 DEF RetentionInv, VictimsFree, Indexed
    <2>3. Meta[p].key = Meta[v].key => Shared(v)
      BY <2>2 DEF Shared
    <2> QED
      BY <1>1, <2>3 DEF GcObject
  <1>2. CASE \A v \in Pkg : ~GcObject(v)
    BY <1>2, ObjectsStay
  <1> QED
    BY <1>1, <1>2

-----------------------------------------------------------------------------
\* Everything a rollback inside retention needs: while the retention job runs
\* or dies between any two of its statements, each of a ring's last releases
\* can be rebuilt, comes out as it was made, and its packages are indexed.
THEOREM RetainedAreIntact ==
  ASSUME Serial
  PROVE  Spec => []RetainedIntact
  <1>1. RetentionInv /\ [Next]_vars => RetentionInv'
    BY StepKeepsRetention
  <1> QED
    BY <1>1, InitRetention, ProtectedAreExact, PTL DEF Spec

\* No step takes the object of a package that such a release holds, although
\* objects go by keys that several index rows may name.
THEOREM RetainedObjectsAreKept ==
  ASSUME Serial
  PROVE  Spec => RetainedObjectsKept
  <1>1. RetentionInv /\ [Next]_vars => RetentionInv'
    BY StepKeepsRetention
  <1>2. RetentionInv /\ [Next]_vars
          => [\A r \in Ring : \A i \in Protected(r) : \A p \in held[i] :
                Meta[p].key \in objects => Meta[p].key \in objects']_vars
    BY ProtectedObjectsStay
  <1> QED
    BY <1>1, <1>2, InitRetention, PTL DEF Spec, RetainedObjectsKept

\* Without the retention job, every release ever made can be rebuilt, and
\* whatever checkpoints were written in between, it comes out as it was made.
THEOREM EveryReleaseRebuilds ==
  ASSUME Serial, "gc" \notin Work
  PROVE  Spec => []RebuildExact
  <1>1. RetentionInv /\ [Next]_vars => RetentionInv'
    BY StepKeepsRetention
  <1>2. ASSUME RetentionInv PROVE RebuildExact
    <2> SUFFICES ASSUME NEW i \in Made PROVE Rebuilt[i] = held[i]
      BY DEF RebuildExact
    <2>1. PICK r \in Ring : i \in OfRing(r)
      BY <1>2 DEF OfRing, RetentionInv, HistoryInv, Linked
    <2>2. PICK b \in Id : Sound(r, b)
      BY <1>2, <2>1 DEF RetentionInv, Based
    <2>3. b <= i
      BY <2>1, <2>2 DEF Sound
    <2> QED
      BY <1>2, <2>1, <2>2, <2>3, SoundRebuilds DEF RetentionInv
  <1> QED
    BY <1>1, <1>2, InitRetention, PTL DEF Spec

-----------------------------------------------------------------------------
(* One invocation at a time and no retention: what a reader selects is the *)
(* release it was asked for.                                               *)

\* One invocation at a time.
Alone == \A p, q \in Proc : p = q

\* The awaits of ensureCheckpoint.
Rebuilds == {"start", "walk", "unwind", "replay", "save"}

\* The release that a request starts from.
SourceOf(q) ==
    IF RollsBack(q) THEN q.fromRelease ELSE IF Promotes(q) THEN ringHeads[q.fromRing] ELSE 0

\* The selection that the batch will read is that of its source.
BaseFound(l) ==
    IF l.source # 0 /\ l.source # l.parent
    THEN IF l.live = None THEN l.goal = l.source /\ releases[l.goal].checkpoint
                          ELSE l.live \in Ring /\ ringHeads[l.live] = l.source
    ELSE l.goal = 0 /\ l.live = (IF l.parent # 0 THEN l.req.ring ELSE None)

\* Of a render job: its release is still what the ring serves, and of every
\* source it has yet to write it has all the rows.
Rendering(label, l) ==
    /\ l.work = "render" => ringHeads[releases[l.goal].ring] = l.goal
    /\ label = "put" => /\ l.work = "render" /\ l.rows \subseteq held[l.goal]
                        /\ \A x \in l.rows, y \in held[l.goal] :
                             Meta[y].arch = l.arch /\ Meta[y].source = Meta[x].source => y \in l.rows

\* What a lone invocation has found out, at each await.
Reads(label, l) ==
    /\ l.work = "create" => /\ l.source = SourceOf(l.req)
                            /\ RollsBack(l.req) \/ Promotes(l.req) => l.source # 0
    /\ label \in {"parent", "seq", "base", "members"} \/ label \in Rebuilds => l.live = None
    /\ label \in {"parent", "seq", "base"} => l.goal = 0
    /\ label \in {"last", "batch"} => BaseFound(l)
    /\ label \in OnMembers => l.work # "none" /\ Rendering(label, l)
    /\ label \in OnMembers /\ l.work = "create" =>
         label \in Rebuilds /\ l.goal = l.source /\ l.source # 0 /\ l.source # l.parent
    /\ label = "rows" => IF l.live = None THEN releases[l.goal].checkpoint
                         ELSE l.live \in Ring /\ ringHeads[l.live] = l.goal
    /\ label = "answered" => l.rows = held[l.goal]

\* The invariant of the lone invocation: nothing is pruned, and it has found out
\* what is still true.
Whole == RetentionInv /\ packages = Pkg /\ \A p \in Proc : Reads(pc[p], my[p])

-----------------------------------------------------------------------------
\* Without the retention job every row of the store is exact.
LEMMA StoreIsExact ==
  ASSUME RetentionInv, "gc" \notin Work
  PROVE  /\ \A i \in Made : /\ releases[i].checkpoint => releasePackages[i] = held[i]
                            /\ CanRebuild[i] /\ Rebuilt[i] = held[i]
         /\ \A r \in Ring : ringHeads[r] # 0 => ringHeads[r] \in OfRing(r) /\ ringPackages[r] = held[ringHeads[r]]
         /\ \A r \in Ring : ringHeads[r] = 0 => ringPackages[r] = {}
  <1>1. ASSUME NEW i \in Made
        PROVE  /\ releases[i].checkpoint => releasePackages[i] = held[i]
               /\ CanRebuild[i] /\ Rebuilt[i] = held[i]
    <2>1. PICK r \in Ring : i \in OfRing(r)
      BY DEF OfRing, RetentionInv, HistoryInv, Linked
    <2>2. PICK b \in Id : Sound(r, b)
      BY <2>1 DEF RetentionInv, Based
    <2>3. b <= i
      BY <2>1, <2>2 DEF Sound
    <2>4. b \in Nat /\ i \in Nat
      BY <2>1, <2>2, OfRingOrdered DEF Sound, RetentionInv, HistoryInv
    <2>5. releases[i].checkpoint => releasePackages[i] = held[i]
      BY <2>1, <2>2, <2>3, <2>4 DEF Sound
    <2> QED
      BY <2>1, <2>2, <2>3, <2>5, SoundRebuilds DEF RetentionInv
  <1> QED
    BY <1>1 DEF RetentionInv, HistoryInv, Order, LiveIsHead

\* The rows read at a head or a checkpoint are those of the release.
LEMMA RowsAreHeld ==
  ASSUME Whole, "gc" \notin Work, NEW live, NEW goal \in Made,
         IF live = None THEN releases[goal].checkpoint ELSE live \in Ring /\ ringHeads[live] = goal
  PROVE  Rows(live, goal) = held[goal]
  <1>1. packages = Pkg /\ held[goal] \subseteq Pkg /\ goal # 0 /\ None \notin Ring
    BY StoreAssumption DEF Whole, RetentionInv, HistoryInv, Order, Types, TypeOK, TablesOK, Made, Id, Id0
  <1>2. CASE live = None
    BY <1>1, <1>2, StoreIsExact DEF Rows, Whole
  <1>3. CASE live # None
    BY <1>1, <1>3, StoreIsExact DEF Rows, Whole
  <1> QED
    BY <1>2, <1>3

\* What an invocation knows of its release stays true while no head moves.
LEMMA ReadsStay ==
  ASSUME HistoryInv, NEW label, NEW l, Reads(label, l), l.work = "create" => l.source \in Made \cup {0},
         label \in OnMembers => l.goal \in Made,
         UNCHANGED <<ringHeads, held>>,
         \A i \in Made : /\ releases'[i].ring = releases[i].ring
                         /\ releases[i].checkpoint => releases'[i].checkpoint,
         label \in {"last", "batch"} => l.work = "create"
  PROVE  Reads(label, l)'
  <1>1. SourceOf(l.req)' = SourceOf(l.req)
    BY DEF SourceOf
  <1>2. ASSUME label \in {"last", "batch"} PROVE BaseFound(l)'
    BY <1>2 DEF BaseFound, Reads
  <1>3. ASSUME label \in OnMembers PROVE Rendering(label, l)'
    BY <1>3 DEF Rendering, Reads
  <1>4. ASSUME label = "rows"
        PROVE  IF l.live = None THEN releases'[l.goal].checkpoint ELSE l.live \in Ring /\ ringHeads'[l.live] = l.goal
    BY <1>4 DEF Reads, OnMembers
  <1> QED
    BY <1>1, <1>2, <1>3, <1>4 DEF Reads

\* Where the steps of a lone invocation lead it.
LEMMA CreateReads ==
  ASSUME Whole, "gc" \notin Work, NEW p \in Proc, made' = made, Create(p)
  PROVE  \E l, label : Go(p, l, label) /\ Reads(label, l)
  <1> DEFINE Goal == \E l, label : Go(p, l, label) /\ Reads(label, l)
  <1> SUFFICES Goal
    OBVIOUS
  <1>a. /\ my[p] \in Local /\ Reads(pc[p], my[p]) /\ Suits(pc[p], my[p])
        /\ pc[p] \in BeforeBatch => my[p].work = "create"
        /\ \A r \in Ring : ringHeads[r] \in Id0
        /\ my[p].work = "create" => my[p].req \in Requests /\ my[p].req.ring \in Ring
        /\ None \notin Ring
    BY StoreAssumption
       DEF Whole, RetentionInv, HistoryInv, Scheduled, Order, Types, TypeOK, TablesOK, Control, Request
  <1>b. ASSUME Finish(p) PROVE Goal
    <2>1. Reads("idle", Blank)
      BY DEF Reads, Blank, OnMembers, Rebuilds
    <2> QED
      BY <1>b, <2>1 DEF Finish
  <1>1. ASSUME NEW q \in Requests, StartCreate(p, q) PROVE Goal
    <2>1. PICK l : l = [Blank EXCEPT !.work = "create", !.req = q, !.source = SourceOf(q)]
      OBVIOUS
    <2>2. Go(p, l, "parent")
      BY <1>1, <2>1 DEF StartCreate, SourceOf
    <2>3. /\ l.work = "create" /\ l.req = q /\ l.source = SourceOf(q) /\ l.live = None /\ l.goal = 0
      BY <2>1 DEF Blank
    <2>4. RollsBack(q) \/ Promotes(q) => SourceOf(q) # 0
      BY <1>1 DEF StartCreate, SourceOf, RollsBack
    <2> HIDE DEF Goal
    <2>5. Reads("parent", l)
      BY <2>3, <2>4 DEF Reads, OnMembers, Rebuilds
    <2> QED
      BY <2>2, <2>5 DEF Goal
  <1>2. CASE ReadParent(p)
    <2>1. PICK l : l = [my[p] EXCEPT !.parent = ringHeads[my[p].req.ring]]
      OBVIOUS
    <2>2. l.work = my[p].work /\ l.req = my[p].req /\ l.source = my[p].source /\ l.live = my[p].live /\ l.goal = my[p].goal
      BY <1>a, <2>1 DEF Local
    <2>3. Go(p, l, "seq") /\ pc[p] = "parent"
      BY <1>2, <2>1 DEF ReadParent
    <2>4. Reads("seq", l)
      BY <1>a, <2>2, <2>3 DEF Reads, OnMembers, Rebuilds
    <2> QED
      BY <2>3, <2>4
  <1>3. CASE ReadSeq(p)
    <2>1. ASSUME NEW s \in 1 .. made + 1, Go(p, [my[p] EXCEPT !.seq = s], "base") PROVE Goal
      <3>1. PICK l : l = [my[p] EXCEPT !.seq = s]
        OBVIOUS
      <3>2. l.work = my[p].work /\ l.req = my[p].req /\ l.source = my[p].source /\ l.live = my[p].live /\ l.goal = my[p].goal
        BY <1>a, <3>1 DEF Local
      <3>3. Go(p, l, "base") /\ pc[p] = "seq"
        BY <1>3, <2>1, <3>1 DEF ReadSeq
      <3>4. Reads("base", l)
        BY <1>a, <3>2, <3>3 DEF Reads, OnMembers, Rebuilds
      <3> QED
        BY <3>3, <3>4
    <2> QED
      BY <1>3, <1>b, <2>1 DEF ReadSeq
  <1>4. CASE ChooseBase(p)
    <2>1. pc[p] = "base" /\ my[p].work = "create" /\ my[p].goal = 0 /\ my[p].live = None
      BY <1>4, <1>a DEF ChooseBase, Reads, BeforeBatch
    <2>2. CASE my[p].source # 0 /\ my[p].source # my[p].parent /\ IsHead(my[p].source)
      <3>1. PICK r \in Ring : r = HeadRing(my[p].source) /\ ringHeads[r] = my[p].source
        BY <2>2 DEF IsHead, HeadRing
      <3>2. PICK l : l = [my[p] EXCEPT !.live = r]
        OBVIOUS
      <3>3. l.work = my[p].work /\ l.req = my[p].req /\ l.source = my[p].source /\ l.live = r /\ l.parent = my[p].parent
        BY <1>a, <3>2 DEF Local
      <3>4. Go(p, l, "last")
        BY <1>4, <2>2, <3>1, <3>2 DEF ChooseBase
      <3>5. BaseFound(l)
        BY <1>a, <2>2, <3>1, <3>3 DEF BaseFound
      <3>6. Reads("last", l)
        BY <1>a, <2>1, <3>3, <3>5 DEF Reads, OnMembers, Rebuilds
      <3> QED
        BY <3>4, <3>6
    <2>3. CASE my[p].source # 0 /\ my[p].source # my[p].parent /\ ~IsHead(my[p].source)
      <3>2. PICK l : l = [my[p] EXCEPT !.goal = my[p].source]
        OBVIOUS
      <3>3. /\ l.work = my[p].work /\ l.req = my[p].req /\ l.source = my[p].source /\ l.live = None
            /\ l.parent = my[p].parent /\ l.goal = my[p].source
        BY <1>a, <2>1, <3>2 DEF Local
      <3>4. Go(p, l, "start")
        BY <1>4, <2>3, <3>2 DEF ChooseBase
      <3>5. Rendering("start", l)
        BY <2>1, <3>3 DEF Rendering
      <3>6. Reads("start", l)
        BY <1>a, <2>1, <2>3, <3>3, <3>5 DEF Reads, OnMembers, Rebuilds
      <3> QED
        BY <3>4, <3>6
    <2>4. CASE ~(my[p].source # 0 /\ my[p].source # my[p].parent)
      <3>1. PICK r : r = IF my[p].parent # 0 THEN my[p].req.ring ELSE None
        OBVIOUS
      <3>2. PICK l : l = [my[p] EXCEPT !.live = r]
        OBVIOUS
      <3>3. /\ l.work = my[p].work /\ l.req = my[p].req /\ l.source = my[p].source /\ l.live = r
            /\ l.parent = my[p].parent /\ l.goal = 0
        BY <1>a, <2>1, <3>2 DEF Local
      <3>4. Go(p, l, "last")
        BY <1>4, <2>4, <3>1, <3>2 DEF ChooseBase
      <3>5. BaseFound(l)
        BY <2>4, <3>1, <3>3 DEF BaseFound
      <3>6. Reads("last", l)
        BY <1>a, <2>1, <3>3, <3>5 DEF Reads, OnMembers, Rebuilds
      <3> QED
        BY <3>4, <3>6
    <2> QED
      BY <2>2, <2>3, <2>4
  <1>5. CASE ReadLastCheckpoint(p)
    <2>1. PICK l : l = [my[p] EXCEPT !.due = Due(my[p])]
      OBVIOUS
    <2>2. /\ l.work = my[p].work /\ l.req = my[p].req /\ l.source = my[p].source /\ l.live = my[p].live
          /\ l.parent = my[p].parent /\ l.goal = my[p].goal
      BY <1>a, <2>1 DEF Local
    <2>3. Go(p, l, "batch") /\ pc[p] = "last"
      BY <1>5, <2>1 DEF ReadLastCheckpoint
    <2>4. BaseFound(l)
      BY <1>a, <2>2, <2>3 DEF Reads, BaseFound
    <2>5. Reads("batch", l)
      BY <1>a, <2>2, <2>3, <2>4 DEF Reads, OnMembers, Rebuilds
    <2> QED
      BY <2>3, <2>5
  <1>6. CASE Batch(p)
    <2>1. made \in Nat
      BY StoreAssumption DEF Whole, RetentionInv, HistoryInv, Order, Types, TypeOK, TablesOK, Id0
    <2> QED
      BY <1>6, <1>b, <2>1 DEF Batch
  <1> QED
    BY <1>1, <1>2, <1>3, <1>4, <1>5, <1>6 DEF Create

\* Where releaseMembers, ensureCheckpoint and releaseSummary lead it.
LEMMA MembershipReads ==
  ASSUME Whole, "gc" \notin Work, NEW p \in Proc, Membership(p), ~SaveCheckpoint(p)
  PROVE  \E l, label : Go(p, l, label) /\ Reads(label, l)
  <1> DEFINE Goal == \E l, label : Go(p, l, label) /\ Reads(label, l)
  <1> SUFFICES Goal
    OBVIOUS
  <1>a. /\ my[p] \in Local /\ Reads(pc[p], my[p]) /\ Suits(pc[p], my[p]) /\ Ready(pc[p], my[p])
        /\ pc[p] \in OnMembers => my[p].goal \in Made
        /\ None \notin Ring /\ releases \in [Id -> Release] /\ held \in [Id -> SUBSET Pkg] /\ Made \subseteq Id
    BY StoreAssumption, OfRingOrdered
       DEF Whole, RetentionInv, HistoryInv, Scheduled, Order, Types, TypeOK, TablesOK, Control, Suits, Made, Id, Id0
  <1>b. ASSUME Finish(p) PROVE Goal
    <2>1. Reads("idle", Blank)
      BY DEF Reads, Blank, OnMembers, Rebuilds
    <2> QED
      BY <1>b, <2>1 DEF Finish
  \* On among the steps that rebuild, or the first of them.
  <1>c. ASSUME NEW l, NEW label, Go(p, l, label), label \in Rebuilds,
               pc[p] = "members" \/ pc[p] \in Rebuilds,
               l.work = my[p].work, l.req = my[p].req, l.source = my[p].source, l.parent = my[p].parent,
               l.live = my[p].live, l.goal = my[p].goal
        PROVE  Goal
    <2>1. pc[p] \in OnMembers
      BY <1>c DEF OnMembers, Rebuilds
    <2>2. Rendering(label, l)
      BY <1>a, <1>c, <2>1 DEF Reads, Rendering, Rebuilds
    <2>3. Reads(label, l)
      BY <1>a, <1>c, <2>1, <2>2 DEF Reads, Rebuilds
    <2> QED
      BY <1>c, <2>3
  <1>1. CASE Members(p)
    <2>1. pc[p] = "members" /\ my[p].live = None /\ my[p].work # "create" /\ my[p].work # "none"
      BY <1>1, <1>a DEF Members, Reads, OnMembers, Rebuilds
    <2>2. CASE Go(p, my[p], "start")
      BY <1>c, <2>1, <2>2 DEF Rebuilds
    <2>3. CASE IsHead(my[p].goal) /\ Go(p, [my[p] EXCEPT !.live = HeadRing(my[p].goal)], "rows")
      <3>1. PICK r \in Ring : r = HeadRing(my[p].goal) /\ ringHeads[r] = my[p].goal
        BY <2>3 DEF IsHead, HeadRing
      <3>2. PICK l : l = [my[p] EXCEPT !.live = r]
        OBVIOUS
      <3>3. l.work = my[p].work /\ l.req = my[p].req /\ l.source = my[p].source /\ l.live = r /\ l.goal = my[p].goal
        BY <1>a, <3>2 DEF Local
      <3>4. Rendering("rows", l)
        BY <1>a, <2>1, <3>3 DEF Reads, Rendering, OnMembers
      <3>5. Reads("rows", l)
        BY <1>a, <2>1, <3>1, <3>3, <3>4 DEF Reads, Rebuilds
      <3> QED
        BY <2>3, <3>1, <3>2, <3>5
    <2> QED
      BY <1>1, <1>b, <2>2, <2>3 DEF Members
  <1>2. CASE ReadStart(p)
    <2>1. pc[p] = "start" /\ my[p].live = None /\ my[p].work # "none" /\ my[p].goal \in Made
      BY <1>2, <1>a DEF ReadStart, Reads, OnMembers, Rebuilds
    <2>2. CASE ~releases[my[p].goal].checkpoint
      <3>1. PICK l : l = [my[p] EXCEPT !.chain = <<my[p].goal>>]
        OBVIOUS
      <3>2. /\ l.work = my[p].work /\ l.req = my[p].req /\ l.source = my[p].source /\ l.parent = my[p].parent
            /\ l.live = my[p].live /\ l.goal = my[p].goal
        BY <1>a, <3>1 DEF Local
      <3>3. Go(p, l, "walk")
        BY <1>2, <2>2, <3>1 DEF ReadStart
      <3> QED
        BY <1>c, <2>1, <3>2, <3>3 DEF Rebuilds
    <2>3. CASE releases[my[p].goal].checkpoint /\ my[p].work = "create"
      <3>1. Go(p, my[p], "last")
        BY <1>2, <2>3 DEF ReadStart, AfterEnsure
      <3>2. BaseFound(my[p])
        BY <1>a, <2>1, <2>3 DEF Reads, BaseFound, OnMembers
      <3>3. Reads("last", my[p])
        BY <1>a, <2>3, <3>2 DEF Reads, OnMembers, Rebuilds
      <3> QED
        BY <3>1, <3>3
    <2>4. CASE releases[my[p].goal].checkpoint /\ my[p].work # "create"
      <3>1. Go(p, my[p], "rows")
        BY <1>2, <2>4 DEF ReadStart, AfterEnsure
      <3>2. Rendering("rows", my[p])
        BY <1>a, <2>1 DEF Reads, Rendering, OnMembers
      <3>3. Reads("rows", my[p])
        BY <1>a, <2>1, <2>4, <3>2 DEF Reads, OnMembers, Rebuilds
      <3> QED
        BY <3>1, <3>3
    <2> QED
      BY <2>2, <2>3, <2>4
  <1>3. CASE Walk(p) \/ ReadCheckpointRows(p) \/ Replay(p)
    <2>1. pc[p] \in Rebuilds
      BY <1>3 DEF Walk, ReadCheckpointRows, Replay, Rebuilds
    <2>2. \/ Finish(p)
          \/ \E s, c, l, label :
               /\ l = [my[p] EXCEPT !.chain = c] \/ l = [my[p] EXCEPT !.rows = s, !.chain = c]
               /\ Go(p, l, label) /\ label \in Rebuilds
      BY <1>3 DEF Walk, ReadCheckpointRows, Replay, Rebuilds
    <2>3. ASSUME NEW s, NEW c, NEW l, NEW label,
                 l = [my[p] EXCEPT !.chain = c] \/ l = [my[p] EXCEPT !.rows = s, !.chain = c],
                 Go(p, l, label), label \in Rebuilds
          PROVE  Goal
      <3>1. /\ l.work = my[p].work /\ l.req = my[p].req /\ l.source = my[p].source /\ l.parent = my[p].parent
            /\ l.live = my[p].live /\ l.goal = my[p].goal
        BY <1>a, <2>3 DEF Local
      <3> QED
        BY <1>c, <2>1, <2>3, <3>1
    <2> HIDE DEF Goal
    <2> QED
      BY <1>b, <2>2, <2>3
  <1>4. CASE ReadRows(p)
    <2>1. /\ pc[p] = "rows" /\ my[p].goal \in Made /\ my[p].work \notin {"none", "create"}
          /\ Rendering("rows", my[p])
      BY <1>4, <1>a DEF ReadRows, Reads, OnMembers, Rebuilds
    <2>2. Rows(my[p].live, my[p].goal) = held[my[p].goal]
      BY <1>a, <2>1, RowsAreHeld DEF Reads
    <2>3. my[p].work \in {"summary", "read", "render"}
      BY <1>a, <2>1 DEF Local
    <2>4. CASE my[p].work = "summary"
      BY <1>4, <1>b, <2>4 DEF ReadRows
    <2>5. CASE my[p].work = "read"
      <3>1. PICK l : l = [my[p] EXCEPT !.rows = held[my[p].goal]]
        OBVIOUS
      <3>2. l.work = "read" /\ l.goal = my[p].goal /\ l.rows = held[l.goal]
        BY <1>a, <2>5, <3>1 DEF Local
      <3>3. Go(p, l, "answered")
        BY <1>4, <2>2, <2>5, <3>1 DEF ReadRows
      <3>4. Rendering("answered", l)
        BY <3>2 DEF Rendering
      <3>5. Reads("answered", l)
        BY <3>2, <3>4 DEF Reads, OnMembers, Rebuilds
      <3> QED
        BY <3>3, <3>5
    <2>6. CASE my[p].work = "render"
      <3>1. PICK l : l = [my[p] EXCEPT !.rows = InArch(held[my[p].goal], my[p].arch)]
        OBVIOUS
      <3>2. /\ l.work = "render" /\ l.goal = my[p].goal /\ l.arch = my[p].arch
            /\ l.rows = InArch(held[my[p].goal], my[p].arch)
        BY <1>a, <2>6, <3>1 DEF Local
      <3>3. Go(p, l, "put")
        BY <1>4, <2>2, <2>6, <3>1 DEF ReadRows
      <3>4. Rendering("put", l)
        BY <2>1, <2>6, <3>2 DEF Rendering, InArch
      <3>5. Reads("put", l)
        BY <3>2, <3>4 DEF Reads, OnMembers, Rebuilds
      <3> QED
        BY <3>3, <3>5
    <2> QED
      BY <2>3, <2>4, <2>5, <2>6
  <1> QED
    BY <1>1, <1>2, <1>3, <1>4 DEF Membership

\* Where a reader's and a render job's own steps lead it.
LEMMA OthersRead ==
  ASSUME Whole, "gc" \notin Work, NEW p \in Proc, Read(p) \/ Render(p) \/ End(p)
  PROVE  \E l, label : Go(p, l, label) /\ Reads(label, l)
  <1> DEFINE Goal == \E l, label : Go(p, l, label) /\ Reads(label, l)
  <1> SUFFICES Goal
    OBVIOUS
  <1>a. /\ my[p] \in Local /\ Reads(pc[p], my[p])
        /\ \A r \in Ring : ringHeads[r] # 0 => ringHeads[r] \in OfRing(r)
    BY DEF Whole, RetentionInv, HistoryInv, Order, LiveIsHead, Types, TypeOK
  <1>1. ASSUME NEW i \in Made, StartRead(p, i) PROVE Goal
    <2>1. PICK l : l = [Blank EXCEPT !.work = "read", !.goal = i]
      OBVIOUS
    <2>2. l.work = "read" /\ l.live = None
      BY <2>1 DEF Blank
    <2>3. Reads("members", l)
      BY <2>2 DEF Reads, Rendering, OnMembers, Rebuilds
    <2> QED
      BY <1>1, <2>1, <2>3 DEF StartRead
  <1>2. ASSUME NEW r \in Ring, NEW a \in Arch, StartRender(p, r, a) PROVE Goal
    <2>1. PICK l : l = [Blank EXCEPT !.work = "render", !.goal = ringHeads[r], !.arch = a]
      OBVIOUS
    <2>2. l.work = "render" /\ l.live = None /\ l.goal = ringHeads[r]
      BY <2>1 DEF Blank
    <2>3. ringHeads[releases[l.goal].ring] = l.goal
      BY <1>2, <1>a, <2>2 DEF StartRender, OfRing
    <2>4. Reads("members", l)
      BY <2>2, <2>3 DEF Reads, Rendering, OnMembers, Rebuilds
    <2> QED
      BY <1>2, <2>1, <2>4 DEF StartRender
  <1>3. CASE Answer(p)
    <2>1. PICK l : l = [my[p] EXCEPT !.work = "summary", !.live = None, !.rows = {}]
      OBVIOUS
    <2>2. l.work = "summary" /\ l.live = None
      BY <1>a, <2>1 DEF Local
    <2>3. Reads("members", l)
      BY <2>2 DEF Reads, Rendering, OnMembers, Rebuilds
    <2> QED
      BY <1>3, <2>1, <2>3 DEF Answer
  <1>4. ASSUME NEW s \in Source, PutDatabase(p, s) PROVE Goal
    <2>1. PICK l : l = [my[p] EXCEPT !.rows = my[p].rows \ {x \in my[p].rows : Meta[x].source = s}]
      OBVIOUS
    <2>2. /\ l.work = my[p].work /\ l.goal = my[p].goal /\ l.arch = my[p].arch
          /\ l.rows = {x \in my[p].rows : Meta[x].source # s}
      BY <1>a, <2>1 DEF Local
    <2>3. pc[p] = "put" /\ Go(p, l, "put")
      BY <1>4, <1>a, <2>1 DEF PutDatabase, Local
    <2>4. Rendering("put", my[p])
      BY <1>a, <2>3 DEF Reads, OnMembers
    <2>5. Rendering("put", l)
      BY <2>2, <2>4 DEF Rendering
    <2>6. Reads("put", l)
      BY <2>2, <2>4, <2>5 DEF Reads, Rendering, OnMembers, Rebuilds
    <2> QED
      BY <2>3, <2>6
  <1>5. CASE End(p)
    <2>1. Reads("idle", Blank)
      BY DEF Reads, Blank, OnMembers, Rebuilds
    <2> QED
      BY <1>5, <2>1 DEF End, Finish
  <1> QED
    BY <1>1, <1>2, <1>3, <1>4, <1>5 DEF Read, Render

\* After its checkpoint is saved, the release is read from it.
LEMMA SaveReads ==
  ASSUME Whole, "gc" \notin Work, NEW p \in Proc, SaveCheckpoint(p),
         UNCHANGED <<ringHeads, held>>, \A i \in Id : releases'[i].ring = releases[i].ring
  PROVE  \E l, label : Go(p, l, label) /\ Reads(label, l)'
  <1> DEFINE Goal == \E l, label : Go(p, l, label) /\ Reads(label, l)'
  <1> SUFFICES Goal
    OBVIOUS
  <1>a. /\ my[p] \in Local /\ Reads("save", my[p]) /\ pc[p] = "save" /\ my[p].goal \in Made /\ my[p].goal \in Id
        /\ releases \in [Id -> Release] /\ None \notin Ring
    BY StoreAssumption, OfRingOrdered
       DEF Whole, RetentionInv, HistoryInv, Scheduled, Order, Types, TypeOK, TablesOK, Control, Suits,
           SaveCheckpoint, OnMembers
  <1>1. CASE Finish(p)
    <2>1. Reads("idle", Blank)'
      BY DEF Reads, Blank, OnMembers, Rebuilds
    <2> QED
      BY <1>1, <2>1 DEF Finish
  <1>2. CASE ~Finish(p)
    <2>1. PICK l : l = [my[p] EXCEPT !.rows = {}]
      OBVIOUS
    <2>2. /\ l.work = my[p].work /\ l.req = my[p].req /\ l.source = my[p].source /\ l.parent = my[p].parent
          /\ l.live = None /\ l.goal = my[p].goal /\ l.work # "none"
      <3>1. my[p].live = None /\ my[p].work # "none"
        BY <1>a DEF Reads, OnMembers, Rebuilds
      <3> QED
        BY <1>a, <2>1, <3>1 DEF Local
    <2>3. Go(p, l, AfterEnsure(l))
      <3>1. Go(p, l, AfterEnsure(my[p]))
        BY <1>2, <2>1 DEF SaveCheckpoint
      <3> QED
        BY <2>2, <3>1 DEF AfterEnsure
    <2>4. releases'[l.goal].checkpoint
      <3>1. releases' = [releases EXCEPT ![my[p].goal].checkpoint = TRUE]
        BY <1>2 DEF SaveCheckpoint
      <3> QED
        BY <1>a, <2>2, <3>1 DEF Release
    <2>5. SourceOf(l.req)' = SourceOf(l.req)
      BY DEF SourceOf
    <2>6. CASE l.work = "create"
      <3>1. l.goal = l.source /\ l.source # 0 /\ l.source # l.parent /\ l.source = SourceOf(l.req)
        BY <1>a, <2>2, <2>6 DEF Reads, OnMembers, Rebuilds
      <3>2. BaseFound(l)'
        BY <2>2, <2>4, <3>1 DEF BaseFound
      <3>3. Reads("last", l)'
        BY <2>5, <2>6, <3>1, <3>2 DEF Reads, OnMembers, Rebuilds
      <3> QED
        BY <2>3, <2>6, <3>3 DEF AfterEnsure
    <2>7. CASE l.work # "create"
      <3>1. l.work = "render" => ringHeads[releases[l.goal].ring] = l.goal
        BY <1>a, <2>2 DEF Reads, Rendering, OnMembers
      <3>2. Rendering("rows", l)'
        BY <1>a, <2>2, <3>1 DEF Rendering
      <3>3. Reads("rows", l)'
        BY <2>2, <2>4, <2>7, <3>2 DEF Reads, OnMembers, Rebuilds
      <3> QED
        BY <2>3, <2>7, <3>3 DEF AfterEnsure
    <2> QED
      BY <2>6, <2>7
  <1> QED
    BY <1>1, <1>2

\* Without the job no package leaves the index.
LEMMA PackagesStay ==
  ASSUME RetentionInv, "gc" \notin Work, [Next]_vars
  PROVE  packages' = packages /\ ~GcStep /\ ~GracePasses
  <1>1. ~GcStep /\ ~GracePasses
    BY DEF RetentionInv, HistoryInv, Scheduled, GcStep, GcStart, GcRetain, GcSelect, GcRows, GcFlags, GcDeltas,
           GcObject, GcRow, GcEnd, GracePasses
  <1>2. CASE made' # made
    <2>1. PICK p \in Proc : Batch(p)
      BY <1>2, OnlyBatchesMake DEF RetentionInv, HistoryInv
    <2> QED
      BY <1>1, <2>1 DEF Batch, pool
  <1>3. CASE made' = made
    BY <1>1, <1>3, QuietRows DEF Next, vars, pool, RetentionInv
  <1> QED
    BY <1>1, <1>2, <1>3

\* The invariant of the lone invocation over every step, and initially.
LEMMA StepKeepsWhole ==
  ASSUME Whole, Serial, "gc" \notin Work, Alone, [Next]_vars
  PROVE  Whole'
  <1>0. RetentionInv' /\ packages' = Pkg /\ RetentionInv /\ HistoryInv /\ Order /\ TypeOK
    BY StepKeepsRetention, PackagesStay DEF Whole, RetentionInv, HistoryInv, Order, Types
  <1> SUFFICES ASSUME NEW p \in Proc PROVE Reads(pc[p], my[p])'
    BY <1>0 DEF Whole
  <1>1. Reads(pc[p], my[p]) /\ \A q \in Proc : q = p
    BY DEF Whole, Alone
  <1>2. CASE made' = made
    <2>1. /\ UNCHANGED <<made, ringHeads, held>>
          /\ \A i \in Id : releases'[i].ring = releases[i].ring
      BY <1>0, <1>2, QuietSteps
    <2>2. ASSUME NEW l, NEW label, Go(p, l, label), Reads(label, l)'
          PROVE  Reads(pc[p], my[p])'
      <3>1. my'[p] = l /\ pc'[p] = label
        BY <1>0, <2>2 DEF Go, TypeOK
      <3> QED
        BY <2>2, <3>1 DEF Reads, Rendering, BaseFound, SourceOf
    <2>3. CASE SaveCheckpoint(p)
      BY <2>1, <2>2, <2>3, SaveReads
    <2>4. ASSUME Create(p) \/ (Membership(p) /\ ~SaveCheckpoint(p)) \/ Read(p) \/ Render(p) \/ End(p)
          PROVE  Reads(pc[p], my[p])'
      <3>1. PICK l, label : Go(p, l, label) /\ Reads(label, l)
        BY <1>2, <2>4, CreateReads, MembershipReads, OthersRead
      <3>2. my'[p] = l /\ pc'[p] = label
        BY <1>0, <3>1 DEF Go, TypeOK
      <3>3. Suits(label, l)' /\ (label \in BeforeBatch => l.work = "create")
        <4>1. Suits(pc[p], my[p])' /\ (pc'[p] \in BeforeBatch => my'[p].work = "create")
          BY <1>0 DEF RetentionInv, HistoryInv, Scheduled, Order, Types, Control
        <4> QED
          BY <3>2, <4>1 DEF Suits
      <3>4. Made' = Made /\ Made \subseteq Id
        <4>1. Made' = Made
          BY <2>1 DEF Made
        <4> QED
          BY <1>0, <4>1, StoreAssumption DEF Made, Id, Id0, TypeOK, TablesOK
      <3>5. \A i \in Made : releases[i].checkpoint => releases'[i].checkpoint
        BY <1>0, <1>2, <2>4, <3>4, QuietRows
      <3>6. Reads(label, l)'
        BY <1>0, <2>1, <3>1, <3>3, <3>4, <3>5, ReadsStay DEF Suits, BeforeBatch
      <3> QED
        BY <2>2, <3>1, <3>6
    <2>5. CASE UNCHANGED vars
      BY <1>1, <2>5 DEF vars, store, Reads, Rendering, BaseFound, SourceOf
    <2> QED
      BY <1>0, <1>1, <2>3, <2>4, <2>5, PackagesStay DEF Next
  <1>3. CASE made' # made
    <2>1. Batch(p)
      BY <1>0, <1>1, <1>3, OnlyBatchesMake
    <2>2. PICK l : l = [my[p] EXCEPT !.work = "summary", !.live = None, !.goal = made + 1]
      OBVIOUS
    <2>3. l.work = "summary" /\ l.live = None
      BY <1>0, <2>2 DEF TypeOK, Local
    <2>4. Go(p, l, "members")
      BY <1>3, <2>1, <2>2 DEF Batch, store
    <2>5. my'[p] = l /\ pc'[p] = "members"
      BY <1>0, <2>4 DEF Go, TypeOK
    <2>6. Reads(pc[p], my[p])'
      BY <2>3, <2>5 DEF Reads, Rendering, OnMembers, Rebuilds
    <2> QED
      BY <2>6
  <1> QED
    BY <1>2, <1>3

LEMMA InitWhole == Init => Whole
  <1> SUFFICES ASSUME Init PROVE Whole
    OBVIOUS
  <1>1. \A p \in Proc : Reads(pc[p], my[p])
    BY DEF Init, Reads, Blank, OnMembers, Rebuilds
  <1> QED
    BY <1>1, InitRetention DEF Init, Whole

\* A lone reader of a release gets what the release was made to hold, from
\* whatever it is read: the live rows, a checkpoint, or a replay of deltas.
THEOREM ReadersGetTheRelease ==
  ASSUME Serial, "gc" \notin Work, Alone
  PROVE  Spec => []ReadExact
  <1>1. Whole /\ [Next]_vars => Whole'
    BY StepKeepsWhole
  <1>2. Whole => ReadExact
    BY DEF Whole, Reads, ReadExact
  <1> QED
    BY <1>1, <1>2, InitWhole, PTL DEF Spec

-----------------------------------------------------------------------------
\* A step stores no summary but that of the release's own selection.
LEMMA SummariesAre ==
  ASSUME Whole, "gc" \notin Work, [Next]_vars, made' = made
  PROVE  \A i \in Made : releases'[i].summary = releases[i].summary \/ releases'[i].summary = held[i]
  <1>0. /\ RetentionInv /\ HistoryInv /\ TypeOK /\ releases \in [Id -> Release] /\ made \in Nat /\ Made \subseteq Id
        /\ \A p \in Proc : /\ Reads(pc[p], my[p])
                           /\ pc[p] \in OnMembers => my[p].goal \in Made
    BY StoreAssumption
       DEF Whole, RetentionInv, HistoryInv, Order, Types, TypeOK, TablesOK, Scheduled, Suits, Made, Id, Id0
  <1>1. ASSUME NEW p \in Proc, Create(p) PROVE UNCHANGED releases
    <2>1. CASE Batch(p)
      BY <1>0, <2>1 DEF Batch, store
    <2>2. CASE ~Batch(p)
      BY <1>1, <2>2 DEF Create, StartCreate, ReadParent, ReadSeq, ChooseBase, ReadLastCheckpoint, store
    <2> QED
      BY <2>1, <2>2
  <1>2. ASSUME NEW p \in Proc, ReadRows(p)
        PROVE  \A i \in Made : releases'[i].summary = releases[i].summary \/ releases'[i].summary = held[i]
    <2>1. pc[p] = "rows" /\ my[p].goal \in Made /\ Rows(my[p].live, my[p].goal) = held[my[p].goal]
      BY <1>0, <1>2, RowsAreHeld DEF ReadRows, OnMembers, Reads
    <2>2. releases' = releases \/ releases' = [releases EXCEPT ![my[p].goal].summary = held[my[p].goal]]
      BY <1>2, <2>1 DEF ReadRows
    <2> QED
      BY <1>0, <2>1, <2>2 DEF Release
  <1>3. ASSUME NEW p \in Proc, SaveCheckpoint(p)
        PROVE  \A i \in Made : releases'[i].summary = releases[i].summary
    <2>1. releases' = releases \/ releases' = [releases EXCEPT ![my[p].goal].checkpoint = TRUE]
      BY <1>3 DEF SaveCheckpoint
    <2> QED
      BY <1>0, <2>1 DEF Release
  <1>4. ASSUME NEW p \in Proc,
               Members(p) \/ ReadStart(p) \/ Walk(p) \/ ReadCheckpointRows(p) \/ Replay(p)
                 \/ Read(p) \/ Render(p) \/ End(p)
        PROVE  UNCHANGED releases
    BY <1>4 DEF Members, ReadStart, Walk, ReadCheckpointRows, Replay, Read, Render, StartRead,
                Answer, StartRender, PutDatabase, End, store
  <1>5. CASE UNCHANGED vars
    BY <1>5 DEF vars, store
  <1> QED
    BY <1>0, <1>1, <1>2, <1>3, <1>4, <1>5, PackagesStay DEF Next, Membership

\* The summary that a release row keeps is that of its own selection, however
\* and whenever it was computed.
THEOREM SummariesAreTheReleases ==
  ASSUME Serial, "gc" \notin Work, Alone
  PROVE  Spec => []SummaryExact
  <1>1. Whole /\ [Next]_vars => Whole'
    BY StepKeepsWhole
  <1>2. ASSUME Whole, SummaryExact, [Next]_vars PROVE SummaryExact'
    <2>0. Order /\ HistoryInv /\ RetentionInv
      BY <1>2 DEF Whole, RetentionInv, HistoryInv
    <2>1. CASE made' = made
      <3>1. UNCHANGED <<made, held>> /\ Made' = Made
        BY <1>2, <2>0, <2>1, QuietSteps DEF Made
      <3>2. \A i \in Made : releases'[i].summary = releases[i].summary \/ releases'[i].summary = held[i]
        BY <1>2, <2>1, SummariesAre
      <3> QED
        BY <1>2, <3>1, <3>2 DEF SummaryExact
    <2>2. CASE made' # made
      <3>1. PICK p \in Proc : Batch(p)
        BY <1>2, <2>0, <2>2, OnlyBatchesMake
      <3>2. /\ made' = made + 1 /\ made \in Nat
            /\ \A i \in Made : releases'[i] = releases[i] /\ held'[i] = held[i]
        BY <2>0, <2>2, <3>1, BatchAppends
      <3>3. releases'[made + 1].summary = None
        BY <2>0, <2>2, <3>1, BatchMakes
      <3>4. \A i \in Made' : i \in Made \/ i = made + 1
        BY <3>2 DEF Made
      <3> QED
        BY <1>2, <3>2, <3>3, <3>4 DEF SummaryExact
    <2> QED
      BY <2>1, <2>2
  <1>3. Init => SummaryExact
    BY DEF Init, SummaryExact, Made
  <1>4. Whole /\ SummaryExact /\ [Next]_vars => (Whole /\ SummaryExact)'
    BY <1>1, <1>2
  <1> QED
    BY <1>3, <1>4, InitWhole, PTL DEF Spec

-----------------------------------------------------------------------------
(* What the batch of a lone writer makes: the edit of its source.          *)

\* What it reads is the source's selection, or the ring's own.
LEMMA BaseIs ==
  ASSUME Whole, "gc" \notin Work, NEW p \in Proc, Batch(p)
  PROVE  LET l     == my[p]
             ring  == l.req.ring
             from  == IF l.source = 0 THEN IF l.parent = 0 THEN {} ELSE held[l.parent] ELSE held[l.source]
         IN  /\ ringPackages[ring] = (IF l.parent = 0 THEN {} ELSE held[l.parent])
             /\ l.parent = ringHeads[ring] /\ ring \in Ring /\ l.req \in Requests
             /\ l.source \in Made \cup {0} /\ l.parent \in Made \cup {0}
             /\ Rows(l.live, l.goal) = from
  <1> DEFINE l == my[p]
             ring == l.req.ring
  <1>1. /\ l.work = "create" /\ l.req \in Requests /\ ring \in Ring /\ pc[p] = "batch"
        /\ l.parent = ringHeads[ring] /\ l.source \in Made \cup {0} /\ BaseFound(l)
        /\ packages = Pkg /\ None \notin Ring
    BY StoreAssumption
       DEF Whole, RetentionInv, HistoryInv, Scheduled, Suits, Order, Types, Control, Batch, BeforeBatch, Reads, Request
  <1>2. ringHeads[ring] # 0 => ringHeads[ring] \in Made
    BY <1>1 DEF Whole, RetentionInv, HistoryInv, Order, LiveIsHead, OfRing
  <1>3. ringPackages[ring] = (IF l.parent = 0 THEN {} ELSE held[l.parent])
    <2>1. /\ ringHeads[ring] # 0 => ringPackages[ring] = held[ringHeads[ring]]
          /\ ringHeads[ring] = 0 => ringPackages[ring] = {}
      <3> HIDE DEF ring
      <3> QED
        BY <1>1, StoreIsExact DEF Whole
    <2> HIDE DEF l, ring
    <2> QED
      BY <1>1, <2>1
  <1>4. CASE l.source # 0 /\ l.source # l.parent
    <2>1. l.source \in Made
      BY <1>1, <1>4
    <2>2. l.live = None => l.goal = l.source
      BY <1>1, <1>4 DEF BaseFound
    <2>3. Rows(l.live, l.source) = held[l.source]
      BY <1>1, <1>4, <2>1, RowsAreHeld DEF BaseFound
    <2>4. Rows(l.live, l.goal) = Rows(l.live, l.source)
      BY <2>2 DEF Rows
    <2> HIDE DEF l
    <2>5. Rows(l.live, l.goal) = held[l.source]
      BY <2>3, <2>4
    <2> QED
      BY <1>1, <1>2, <1>3, <1>4, <2>5 DEF l
  <1>5. CASE ~(l.source # 0 /\ l.source # l.parent)
    <2>1. l.goal = 0 /\ l.live = IF l.parent # 0 THEN ring ELSE None
      BY <1>1, <1>5 DEF BaseFound
    <2>2. CASE l.parent = 0
      <3>1. Rows(l.live, l.goal) = {}
        BY <1>1, <2>1, <2>2 DEF Rows
      <3> QED
        BY <1>1, <1>2, <1>3, <1>5, <2>2, <3>1
    <2>3. CASE l.parent # 0
      <3>1. Rows(ring, l.parent) = held[l.parent]
        BY <1>1, <1>2, <2>3, RowsAreHeld
      <3>2. Rows(l.live, l.goal) = Rows(ring, l.parent)
        BY <1>1, <2>1, <2>3 DEF Rows
      <3> HIDE DEF l
      <3>3. Rows(l.live, l.goal) = held[l.parent]
        BY <3>1, <3>2
      <3> QED
        BY <1>1, <1>2, <1>3, <1>5, <2>3, <3>3 DEF l
    <2> QED
      BY <2>2, <2>3
  <1> QED
    BY <1>4, <1>5

\* The architectures whose artifact rows a release takes from its parent are
\* those of which it holds what its parent held.
LEMMA UnchangedIsUnchanged ==
  ASSUME Whole, "gc" \notin Work, NEW p \in Proc, Batch(p), my[p].parent # 0, NEW a \in Unchanged(my[p]), NEW x,
         Meta[x].arch = a, x \in Pkg
  PROVE  x \in Target(my[p].req, Base(my[p])) <=> x \in held[my[p].parent]
  <1> DEFINE l == my[p]
             q == l.req
             T == Target(q, Base(l))
  <1>1. /\ q \in Requests /\ ringPackages[q.ring] = held[l.parent]
        /\ Rows(l.live, l.goal) = IF l.source = 0 THEN held[l.parent] ELSE held[l.source]
        /\ Scoped(l) # None /\ a # Scoped(l)
        /\ q.arch # None => Promotes(q) \/ RollsBack(q)
        /\ q.removeArch # None => \A y \in q.add : Meta[y].arch = q.removeArch
        /\ Promotes(q) \/ RollsBack(q) => l.source # 0
    <2>1. l.work = "create" /\ Reads("batch", l)
      BY DEF Whole, RetentionInv, HistoryInv, Order, Types, Control, Batch, BeforeBatch
    <2>2. Promotes(q) \/ RollsBack(q) => l.source # 0
      BY <2>1 DEF Reads
    <2>3. /\ q \in Requests /\ ringPackages[q.ring] = held[l.parent]
          /\ Rows(l.live, l.goal) = IF l.source = 0 THEN held[l.parent] ELSE held[l.source]
      BY BaseIs
    <2>4. Scoped(l) # None /\ a # Scoped(l)
      BY DEF Unchanged
    <2> HIDE DEF l, q
    <2> QED
      BY <2>2, <2>3, <2>4, RequestsAccepted
  <1>2. ASSUME q.removeArch # None, a # q.removeArch
        PROVE  x \in T <=> x \in Base(l)
    BY <1>1, <1>2 DEF Target, Removed, SameSlot
  <1>3. CASE l.source \in {0, l.parent}
    <2>1. Scoped(l) = q.removeArch
      BY <1>3 DEF Scoped
    <2>2. x \in T <=> x \in Base(l)
      BY <1>1, <1>2, <2>1
    <2>3. Base(l) = held[l.parent]
      <3>1. CASE l.source = l.parent
        BY <1>1, <3>1 DEF Base
      <3>2. CASE l.source = 0
        BY <1>1, <3>2 DEF Base
      <3> QED
        BY <1>3, <3>1, <3>2
    <2> QED
      BY <2>2, <2>3
  <1>4. CASE l.source \notin {0, l.parent}
    <2>1. q.arch # None /\ Scoped(l) = q.arch
          /\ ((q.remove = {} /\ q.removeFrom = {} /\ q.add = {}) \/ q.removeArch = q.arch)
      BY <1>1, <1>4 DEF Scoped
    <2>2. x \in T <=> x \in Base(l)
      <3>1. CASE q.remove = {} /\ q.removeFrom = {} /\ q.add = {}
        BY <3>1 DEF Target, Removed
      <3>2. CASE q.removeArch = q.arch
        BY <1>1, <1>2, <2>1, <3>2
      <3> QED
        BY <2>1, <3>1, <3>2
    <2>3. Base(l) = InArch(Rows(l.live, l.goal), q.arch) \cup (ringPackages[q.ring] \ InArch(Pkg, q.arch))
      BY <1>4, <2>1 DEF Base
    <2>4. x \in Base(l) <=> x \in held[l.parent]
      BY <1>1, <2>1, <2>3 DEF InArch
    <2> QED
      BY <2>2, <2>4
  <1> QED
    BY <1>3, <1>4

\* Only a render job's write touches the databases and their rows.
LEMMA ArtifactsStay ==
  ASSUME TypeOK, [Next]_vars, made' = made, \A p \in Proc, s \in Source : ~PutDatabase(p, s)
  PROVE  UNCHANGED <<artifacts, databases>>
  <1>0. made \in Nat
    BY StoreAssumption DEF TypeOK, TablesOK, Id0
  <1>1. ASSUME NEW p \in Proc, Create(p) PROVE UNCHANGED <<artifacts, databases>>
    <2>1. CASE Batch(p)
      BY <1>0, <2>1 DEF Batch, store
    <2>2. CASE ~Batch(p)
      BY <1>1, <2>2 DEF Create, StartCreate, ReadParent, ReadSeq, ChooseBase, ReadLastCheckpoint, store
    <2> QED
      BY <2>1, <2>2
  <1>2. ASSUME NEW p \in Proc, Membership(p) PROVE UNCHANGED <<artifacts, databases>>
    BY <1>2 DEF Membership, Members, ReadStart, Walk, ReadCheckpointRows, Replay, SaveCheckpoint, ReadRows, store
  <1>3. ASSUME NEW p \in Proc, Read(p) \/ Render(p) \/ End(p) PROVE UNCHANGED <<artifacts, databases>>
    BY <1>3 DEF Read, StartRead, Answer, Render, StartRender, End, store
  <1>4. CASE GcStep
    BY <1>4 DEF GcStep, GcStart, GcRetain, GcSelect, GcRows, GcFlags, GcDeltas, GcObject, GcRow, GcEnd, store
  <1>5. CASE GracePasses \/ UNCHANGED vars
    BY <1>5 DEF GracePasses, vars, store
  <1> QED
    BY <1>1, <1>2, <1>3, <1>4, <1>5 DEF Next

\* What an artifact row vouches for.
Listed(S, a) == {x \in S : Meta[x].source = a[1] /\ Meta[x].arch = a[2]}

\* What the job writes lists all that the head holds of the source.
LEMMA PutKeepsArtifacts ==
  ASSUME Whole, ArtifactsCurrent, "gc" \notin Work, NEW p \in Proc, NEW s \in Source, PutDatabase(p, s)
  PROVE  ArtifactsCurrent'
  <1> DEFINE l == my[p]
  <1>0. /\ TypeOK /\ LiveIsHead /\ Reads("put", l) /\ Ready("put", l) /\ l.goal \in Made /\ pc[p] = "put"
        /\ \A i \in Made : i \in Id /\ releases[i].ring \in Ring
        /\ artifacts \in [Id -> SUBSET (Source \X Arch)]
        /\ databases \in [Ring \X Source \X Arch -> SUBSET Pkg]
        /\ held \in [Id -> SUBSET Pkg]
        /\ UNCHANGED <<held, ringHeads>>
    <2>1. /\ RetentionInv /\ Order /\ TypeOK /\ Control /\ Linked /\ (\A c \in Proc : Suits(pc[c], my[c]))
          /\ LiveIsHead /\ Reads(pc[p], l)
      BY DEF Whole, RetentionInv, HistoryInv, Order, Types, Scheduled
    <2>2. pc[p] = "put" /\ UNCHANGED <<held, ringHeads>>
      BY DEF PutDatabase
    <2>3. l.goal \in Made /\ Ready("put", l)
      <3> HIDE DEF l
      <3> QED
        BY <2>1, <2>2 DEF Suits, OnMembers, Control, l
    <2>4. Made \subseteq Id
      BY <2>1, StoreAssumption DEF TypeOK, TablesOK, Made, Id, Id0
    <2> HIDE DEF l
    <2> QED
      BY <2>1, <2>2, <2>3, <2>4 DEF TypeOK, TablesOK, Linked
  <1>1. PICK r \in Ring : r = releases[l.goal].ring /\ ringHeads[r] = l.goal
    BY <1>0 DEF Reads, Rendering, OnMembers
  <1>2. PICK ofSrc : ofSrc = {x \in l.rows : Meta[x].source = s}
    OBVIOUS
  <1>3. /\ ofSrc # {}
        /\ databases' = [databases EXCEPT ![<<r, s, l.arch>>] = ofSrc]
        /\ artifacts' = [artifacts EXCEPT ![l.goal] = @ \cup {<<s, l.arch>>}]
    BY <1>1, <1>2 DEF PutDatabase
  <1>4. l.arch \in Arch /\ <<r, s, l.arch>> \in Ring \X Source \X Arch
    <2>1. PICK x \in l.rows : x \in ofSrc
      BY <1>2, <1>3
    <2>2. x \in Pkg /\ Meta[x].arch = l.arch
      BY <1>0, <2>1 DEF Reads, Rendering, OnMembers, Ready
    <2> QED
      BY <2>2 DEF Arch
  <1>5. ofSrc = Listed(held[l.goal], <<s, l.arch>>)
    <2>1. l.rows \subseteq held[l.goal] /\ \A x \in l.rows : Meta[x].arch = l.arch
      BY <1>0 DEF Reads, Rendering, OnMembers, Ready
    <2>2. \A x \in l.rows, y \in held[l.goal] : Meta[y].arch = l.arch /\ Meta[y].source = Meta[x].source => y \in l.rows
      BY <1>0 DEF Reads, Rendering, OnMembers
    <2>3. PICK x \in l.rows : Meta[x].source = s
      BY <1>2, <1>3
    <2> HIDE DEF l
    <2>4. \A y \in held[l.goal] : Meta[y].arch = l.arch /\ Meta[y].source = s => y \in l.rows
      BY <2>2, <2>3
    <2> QED
      BY <1>2, <2>1, <2>4 DEF Listed
  <1> SUFFICES ASSUME NEW c \in Ring, ringHeads[c] # 0, NEW a \in artifacts'[ringHeads[c]]
               PROVE  databases'[<<c, a[1], a[2]>>] = Listed(held[ringHeads[c]], a)
    BY <1>0 DEF ArtifactsCurrent, Listed
  <1>6. ringHeads[c] \in Id /\ releases[ringHeads[c]].ring = c
    BY <1>0 DEF LiveIsHead, OfRing
  <1>7. ASSUME a \in artifacts[ringHeads[c]], <<c, a[1], a[2]>> # <<r, s, l.arch>>
        PROVE  databases'[<<c, a[1], a[2]>>] = Listed(held[ringHeads[c]], a)
    <2>1. databases[<<c, a[1], a[2]>>] = Listed(held[ringHeads[c]], a)
      BY <1>7 DEF ArtifactsCurrent, Listed
    <2>2. <<c, a[1], a[2]>> \in Ring \X Source \X Arch
      BY <1>0, <1>6, <1>7
    <2> QED
      BY <1>0, <1>3, <1>7, <2>1, <2>2
  <1>8. CASE c # r
    <2>1. ringHeads[c] # l.goal
      BY <1>1, <1>6, <1>8
    <2>2. artifacts'[ringHeads[c]] = artifacts[ringHeads[c]]
      BY <1>0, <1>3, <1>6, <2>1
    <2> QED
      BY <1>7, <1>8, <2>2
  <1>9. CASE c = r
    <2>1. a \in artifacts[l.goal] \/ a = <<s, l.arch>>
      BY <1>0, <1>1, <1>3, <1>6, <1>9
    <2>2. CASE <<c, a[1], a[2]>> = <<r, s, l.arch>>
      <3>1. databases'[<<r, s, l.arch>>] = ofSrc
        BY <1>0, <1>3, <1>4
      <3>2. a[1] = s /\ a[2] = l.arch
        BY <2>2
      <3>3. Listed(held[l.goal], a) = Listed(held[l.goal], <<s, l.arch>>)
        BY <3>2 DEF Listed
      <3> QED
        BY <1>1, <1>5, <1>9, <2>2, <3>1, <3>3
    <2>3. CASE <<c, a[1], a[2]>> # <<r, s, l.arch>>
      <3>1. a # <<s, l.arch>>
        BY <1>9, <2>3
      <3> QED
        BY <1>1, <1>7, <1>9, <2>1, <2>3, <3>1
    <2> QED
      BY <2>2, <2>3
  <1> QED
    BY <1>8, <1>9

\* The rows that a new head takes from its parent vouch for the same lists.
LEMMA BatchKeepsArtifacts ==
  ASSUME Whole, ArtifactsCurrent, "gc" \notin Work, NEW p \in Proc, Batch(p), made' # made
  PROVE  ArtifactsCurrent'
  <1> DEFINE l == my[p]
  <1>0. RetentionInv /\ HistoryInv /\ Order /\ TypeOK /\ LiveIsHead
    BY DEF Whole, RetentionInv, HistoryInv, Order, Types
  <1>1. PICK ring \in Ring, id \in Id : ring = l.req.ring /\ id = made + 1
    BY <1>0, BatchAppends
  <1>2. /\ made \in Nat /\ ringHeads' = [ringHeads EXCEPT ![ring] = id]
        /\ \A i \in Made : held'[i] = held[i]
        /\ held'[id] = Target(l.req, Base(l))
        /\ UNCHANGED databases
        /\ l.parent = ringHeads[ring] /\ l.parent \in Made \cup {0}
        /\ \A i \in Made : i # id /\ i \in Id
        /\ held'[id] \subseteq Pkg
    <2>1. /\ made \in Nat /\ ringHeads' = [ringHeads EXCEPT ![ring] = id]
          /\ \A i \in Made : held'[i] = held[i]
      BY <1>0, <1>1, BatchAppends
    <2>2. /\ held'[id] = Target(l.req, Base(l)) /\ held'[id] \subseteq packages /\ UNCHANGED databases
      BY <1>0, <1>1, BatchMakes
    <2>3. l.parent = ringHeads[ring] /\ l.parent \in Made \cup {0}
      BY <1>1, BaseIs
    <2>4. \A i \in Made : i # id /\ i \in Id
      <3>1. MaxReleases \in Nat /\ id \in 1 .. MaxReleases /\ id = made + 1
        BY <1>1, StoreAssumption DEF Id
      <3> HIDE DEF l
      <3> QED
        BY <2>1, <3>1 DEF Made, Id
    <2> HIDE DEF l
    <2> QED
      BY <2>1, <2>2, <2>3, <2>4 DEF Whole
  <1>3. artifacts' = [artifacts EXCEPT ![id] = IF l.parent = 0 THEN {} ELSE {a \in artifacts[l.parent] : a[2] \in Unchanged(l)}]
    BY <1>1 DEF Batch, store
  <1>4. /\ artifacts \in [Id -> SUBSET (Source \X Arch)] /\ ringHeads \in [Ring -> Id0] /\ held \in [Id -> SUBSET Pkg]
        /\ \A r \in Ring : ringHeads[r] # 0 => ringHeads[r] \in Made
    BY <1>0 DEF TypeOK, TablesOK, LiveIsHead, OfRing
  <1> SUFFICES ASSUME NEW c \in Ring, ringHeads'[c] # 0, NEW a \in artifacts'[ringHeads'[c]]
               PROVE  databases[<<c, a[1], a[2]>>] = Listed(held'[ringHeads'[c]], a)
    BY <1>2 DEF ArtifactsCurrent, Listed
  <1>5. CASE c # ring
    <2>1. ringHeads'[c] = ringHeads[c] /\ ringHeads[c] \in Made /\ ringHeads[c] \in Id /\ ringHeads[c] # id
      BY <1>2, <1>4, <1>5
    <2>2. artifacts'[ringHeads[c]] = artifacts[ringHeads[c]] /\ held'[ringHeads[c]] = held[ringHeads[c]]
      BY <1>2, <1>3, <1>4, <2>1
    <2> HIDE DEF l
    <2> QED
      BY <2>1, <2>2 DEF ArtifactsCurrent, Listed
  <1>6. CASE c = ring
    <2>1. ringHeads'[c] = id
      BY <1>2, <1>4, <1>6
    <2>2. l.parent # 0 /\ a \in artifacts[l.parent] /\ a[2] \in Unchanged(l)
      BY <1>3, <1>4, <2>1
    <2>3. databases[<<c, a[1], a[2]>>] = Listed(held[l.parent], a)
      BY <1>2, <1>6, <2>2 DEF ArtifactsCurrent, Listed
    <2>4. ASSUME NEW x \in Pkg, Meta[x].arch = a[2] PROVE x \in held'[id] <=> x \in held[l.parent]
      BY <1>2, <2>2, <2>4, UnchangedIsUnchanged
    <2>5. held[l.parent] \subseteq Pkg
      BY <1>2, <1>4, <2>2
    <2> HIDE DEF l
    <2>6. Listed(held'[id], a) = Listed(held[l.parent], a)
      BY <1>2, <2>4, <2>5 DEF Listed
    <2> QED
      BY <2>1, <2>3, <2>6
  <1> QED
    BY <1>5, <1>6

\* The database at a ring's live key lists what the ring's head holds of that
\* source and architecture whenever the head has an artifact row for it, its
\* own or one carried over along any chain of parents.
THEOREM ArtifactsAreCurrent ==
  ASSUME Serial, "gc" \notin Work, Alone
  PROVE  Spec => []ArtifactsCurrent
  <1>1. Whole /\ [Next]_vars => Whole'
    BY StepKeepsWhole
  <1>2. ASSUME Whole, ArtifactsCurrent, [Next]_vars PROVE ArtifactsCurrent'
    <2>0. Order /\ HistoryInv /\ RetentionInv /\ TypeOK
      BY <1>2 DEF Whole, RetentionInv, HistoryInv, Order, Types
    <2>1. CASE \E p \in Proc, s \in Source : PutDatabase(p, s)
      BY <1>2, <2>1, PutKeepsArtifacts
    <2>2. CASE made' = made /\ ~(\E p \in Proc, s \in Source : PutDatabase(p, s))
      <3>1. UNCHANGED <<held, ringHeads, artifacts, databases>>
        BY <1>2, <2>0, <2>2, QuietSteps, ArtifactsStay
      <3> QED
        BY <1>2, <3>1 DEF ArtifactsCurrent
    <2>3. CASE made' # made
      BY <1>2, <2>0, <2>3, OnlyBatchesMake, BatchKeepsArtifacts
    <2> QED
      BY <2>1, <2>2, <2>3
  <1>3. Init => ArtifactsCurrent
    BY DEF Init, ArtifactsCurrent
  <1>4. Whole /\ ArtifactsCurrent /\ [Next]_vars => (Whole /\ ArtifactsCurrent)'
    BY <1>1, <1>2
  <1> QED
    BY <1>3, <1>4, InitWhole, PTL DEF Spec

-----------------------------------------------------------------------------
(* The refinement: what the rows record is the history of full copies.     *)

\* What the rows record of a release is what it was made to hold.
LEMMA RecordedIsHeld ==
  ASSUME Whole, "gc" \notin Work, NEW i \in Made
  PROVE  Recorded(i) = held[i]
  <1>1. CASE IsHead(i)
    <2>1. HeadRing(i) \in Ring /\ ringHeads[HeadRing(i)] = i
      BY <1>1 DEF IsHead, HeadRing
    <2>2. i # 0
      BY DEF Made
    <2> QED
      BY <1>1, <2>1, <2>2, StoreIsExact DEF Recorded, Whole
  <1>2. CASE ~IsHead(i)
    BY <1>2, StoreIsExact DEF Recorded, Whole
  <1> QED
    BY <1>1, <1>2

\* So the selections are the sequence of what the releases hold.
Copies == [i \in Made |-> held[i]]

\* The recorded history is that sequence.
Copied ==
    /\ [i \in Made |-> Recorded(i)] = Copies
    /\ Copies \in Seq(SUBSET Pkg) /\ Len(Copies) = made /\ made \in Nat
    /\ \A i \in Made : Copies[i] = held[i]

\* It is, under the invariant.
LEMMA CopiesAre ==
  ASSUME Whole, "gc" \notin Work
  PROVE  Copied
  <1>1. made \in Nat /\ \A i \in Made : held[i] \in SUBSET Pkg
    BY StoreAssumption
       DEF Whole, RetentionInv, HistoryInv, Order, Types, TypeOK, TablesOK, Made, Id, Id0
  <1>2. Copies \in [1 .. made -> SUBSET Pkg] /\ \A i \in Made : Copies[i] = held[i]
    BY <1>1 DEF Copies, Made
  <1>3. Copies \in Seq(SUBSET Pkg) /\ Len(Copies) = made
    BY <1>1, <1>2
  <1> QED
    BY <1>1, <1>2, <1>3, RecordedIsHeld DEF Copies, Copied

\* The batch's target is the edit of the abstract store.
LEMMA EditIs ==
  ASSUME NEW q \in Requests, NEW S \in SUBSET Pkg
  PROVE  Promise!Edit(q, S) = Target(q, S)
  <1>1. q.add \subseteq Pkg /\ Meta \in [Pkg -> [name : Name, source : Source, arch : Arch, key : Key]]
    BY StoreAssumption DEF Request
  <1>2. ASSUME NEW p \in Pkg, NEW a \in Pkg
        PROVE  [Meta[a] EXCEPT !.key = Meta[p].key] = Meta[p] <=> SameSlot(a, p)
    BY <1>1, <1>2 DEF SameSlot
  <1>3. ASSUME NEW p \in Pkg
        PROVE  Removed(q, p) <=> /\ Meta[p].name \in q.remove \/ <<Meta[p].source, Meta[p].name>> \in q.removeFrom
                                 /\ q.removeArch \in {None, Meta[p].arch}
    BY DEF Removed
  <1> QED
    BY <1>1, <1>2, <1>3 DEF Target, Promise!Edit

\* It edits what the abstract store starts from.
LEMMA BaseIsTheSource ==
  ASSUME Whole, "gc" \notin Work, NEW p \in Proc, Batch(p)
  PROVE  /\ Promise!StartsFrom(my[p].req) = Base(my[p])
         /\ Base(my[p]) \in SUBSET Pkg
         /\ my[p].req.fromRelease <= made
         /\ my[p].req.fromRelease = 0 /\ my[p].req.fromRing # None => ringHeads[my[p].req.fromRing] # 0
  <1> DEFINE l == my[p]
             q == l.req
             Sel(i) == IF i = 0 THEN {} ELSE Copies[i]
  <1>1. /\ q \in Requests /\ q.ring \in Ring /\ l.parent = ringHeads[q.ring]
        /\ ringPackages[q.ring] = (IF l.parent = 0 THEN {} ELSE held[l.parent])
        /\ l.source \in Made \cup {0} /\ l.parent \in Made \cup {0}
        /\ Rows(l.live, l.goal) = IF l.source = 0 THEN IF l.parent = 0 THEN {} ELSE held[l.parent] ELSE held[l.source]
    BY BaseIs
  <1>2. /\ l.source = SourceOf(q) /\ (RollsBack(q) \/ Promotes(q) => l.source # 0)
    <2>1. l.work = "create" /\ Reads("batch", l)
      BY DEF Whole, RetentionInv, HistoryInv, Order, Types, Control, Batch, BeforeBatch
    <2> HIDE DEF l, q
    <2> QED
      BY <2>1 DEF Reads, l, q
  <1>3. /\ made \in Nat /\ \A i \in Made : held[i] \subseteq Pkg /\ i <= made /\ i # 0
        /\ q.fromRelease \in Nat
        /\ q.arch # None => Promotes(q) \/ RollsBack(q)
    <2>1. made \in Nat /\ held \in [Id -> SUBSET Pkg] /\ Made \subseteq Id
      BY StoreAssumption
         DEF Whole, RetentionInv, HistoryInv, Order, Types, TypeOK, TablesOK, Made, Id, Id0
    <2>2. q.fromRelease \in Nat
      BY <1>1, StoreAssumption DEF Request, Id0
    <2> HIDE DEF l, q
    <2> QED
      BY <1>1, <2>1, <2>2, RequestsAccepted DEF Made
  <1>4. \A i \in Made \cup {0} : Sel(i) = IF i = 0 THEN {} ELSE held[i]
    BY CopiesAre DEF Copied
  <1>a. ASSUME NEW i PROVE Promise!Selection(i) = Sel(i)
    BY CopiesAre DEF Copied, Promise!Selection
  <1>5. Promise!StartsFrom(q) =
          LET own  == Sel(l.parent)
              from == Sel(IF q.fromRelease # 0 THEN q.fromRelease ELSE ringHeads[q.fromRing])
          IN  IF q.fromRelease = 0 /\ q.fromRing = None THEN own
              ELSE IF q.arch # None /\ l.parent # 0
                   THEN InArch(from, q.arch) \cup (own \ InArch(own, q.arch))
                   ELSE from
    <2> HIDE DEF Sel
    <2> QED
      BY <1>1, <1>a DEF Promise!StartsFrom, Promise!OfArch, InArch
  <1> DEFINE own == IF l.parent = 0 THEN {} ELSE held[l.parent]
  <1>6. own \subseteq Pkg /\ Sel(l.parent) = own /\ ringPackages[q.ring] = own
    BY <1>1, <1>3, <1>4
  <1>7. CASE l.source = 0
    <2>1. ~RollsBack(q) /\ ~Promotes(q) /\ q.arch = None
      BY <1>2, <1>3, <1>7
    <2>2. Promise!StartsFrom(q) = own
      BY <1>5, <1>6, <2>1 DEF RollsBack, Promotes
    <2>3. Base(l) = own
      BY <1>1, <1>7, <2>1 DEF Base
    <2> QED
      BY <1>3, <1>6, <2>1, <2>2, <2>3 DEF RollsBack, Promotes
  <1>8. CASE l.source # 0
    <2>1. l.source \in Made /\ held[l.source] \subseteq Pkg /\ Sel(l.source) = held[l.source]
      BY <1>1, <1>3, <1>4, <1>8
    <2>2. /\ RollsBack(q) \/ Promotes(q)
          /\ l.source = IF q.fromRelease # 0 THEN q.fromRelease ELSE ringHeads[q.fromRing]
      BY <1>2, <1>8 DEF SourceOf, RollsBack, Promotes
    <2>3. Promise!StartsFrom(q) =
            IF q.arch # None /\ l.parent # 0
            THEN InArch(held[l.source], q.arch) \cup (own \ InArch(own, q.arch))
            ELSE held[l.source]
      <3> HIDE DEF Sel, own
      <3> QED
        BY <1>5, <1>6, <2>1, <2>2 DEF RollsBack, Promotes
    <2>4. Base(l) =
            IF q.arch # None /\ l.parent # 0 /\ l.source # l.parent
            THEN InArch(held[l.source], q.arch) \cup (own \ InArch(Pkg, q.arch))
            ELSE held[l.source]
      BY <1>1, <1>6, <1>8 DEF Base
    <2>5. own \ InArch(Pkg, q.arch) = own \ InArch(own, q.arch)
      BY <1>6 DEF InArch
    <2>6. l.source = l.parent => InArch(held[l.source], q.arch) \cup (own \ InArch(own, q.arch)) = held[l.source]
      BY <1>8 DEF InArch
    <2>7. Promise!StartsFrom(q) = Base(l) /\ Base(l) \subseteq Pkg
      <3> HIDE DEF l, q, own
      <3>1. Promise!StartsFrom(q) = Base(l)
        BY <2>3, <2>4, <2>5, <2>6
      <3> QED
        BY <1>6, <2>1, <2>4, <3>1 DEF InArch
    <2>8. q.fromRelease <= made
      BY <1>2, <1>3, <2>1, <2>2
    <2>9. q.fromRelease = 0 /\ q.fromRing # None => ringHeads[q.fromRing] # 0
      BY <1>8, <2>2
    <2> QED
      BY <2>7, <2>8, <2>9
  <1> QED
    BY <1>7, <1>8

\* A batch that succeeds is a creation of the abstract store.
LEMMA BatchIsACreation ==
  ASSUME Whole, Copied, Copied', "gc" \notin Work, NEW p \in Proc, Batch(p), made' # made
  PROVE  Promise!CreateRelease(my[p].req)
  <1> DEFINE q == my[p].req
  <1>0. RetentionInv /\ HistoryInv /\ Order
    BY DEF Whole, RetentionInv, HistoryInv
  <1>1. /\ made' = made + 1 /\ made \in Nat /\ made < MaxReleases
        /\ \A i \in Made : held'[i] = held[i]
        /\ ringHeads' = [ringHeads EXCEPT ![q.ring] = made + 1]
    BY <1>0, BatchAppends DEF Batch
  <1>2. held'[made + 1] = Target(q, Base(my[p])) /\ q \in Requests
    BY <1>0, BatchMakes
  <1>3. held'[made + 1] = Promise!Edit(q, Promise!StartsFrom(q))
    BY <1>2, BaseIsTheSource, EditIs
  <1>4. [i \in Made |-> Recorded(i)] = Copies /\ [i \in Made |-> Recorded(i)]' = Copies'
    BY DEF Copied
  <1>5. Copies' = Append(Copies, held'[made + 1])
    <2>1. /\ Copies \in Seq(SUBSET Pkg) /\ Len(Copies) = made
          /\ Copies' \in Seq(SUBSET Pkg) /\ Len(Copies') = made + 1
          /\ \A i \in 1 .. made : Copies[i] = held[i]
          /\ \A i \in 1 .. (made + 1) : Copies'[i] = held'[i]
      BY <1>1 DEF Copied, Made
    <2>2. \A i \in 1 .. made : Copies'[i] = Copies[i]
      BY <1>1, <2>1 DEF Made
    <2>3. held'[made + 1] = Copies'[made + 1] /\ Copies'[made + 1] \in SUBSET Pkg
      BY <1>1, <2>1
    <2> HIDE DEF q
    <2> QED
      BY <1>1, <2>1, <2>2, <2>3
  <1>6. Len(Copies) = made
    BY DEF Copied
  <1> QED
    BY <1>1, <1>3, <1>4, <1>5, <1>6, BaseIsTheSource DEF Promise!CreateRelease

\* The store of deltas and checkpoints implements the store of full copies:
\* read back through its rows, the history of every ring is append-only, and
\* each release is exactly the edit that its request asked for, of exactly
\* the selection that the request names.
THEOREM StoreKeepsThePromise ==
  ASSUME Serial, "gc" \notin Work, Alone
  PROVE  Spec => History
  <1>1. Init => Promise!Init
    <2> SUFFICES ASSUME Init PROVE Promise!Init
      OBVIOUS
    <2>1. Whole /\ made = 0
      BY InitWhole DEF Init
    <2>2. [i \in Made |-> Recorded(i)] = Copies /\ Copies \in Seq(SUBSET Pkg) /\ Len(Copies) = 0
      BY <2>1, CopiesAre DEF Copied
    <2>3. Copies = <<>>
      BY <2>2
    <2> QED
      BY <2>2, <2>3 DEF Init, Promise!Init
  <1>2. Whole /\ [Next]_vars => Whole'
    BY StepKeepsWhole
  <1>c. Whole => Copied
    BY CopiesAre
  <1>3. ASSUME Whole, Copied, Copied', [Next]_vars
        PROVE  [Promise!Next]_(Promise!history)
    <2>0. Order
      BY <1>3 DEF Whole, RetentionInv, HistoryInv
    <2>1. CASE made' = made
      <3>1. UNCHANGED <<made, ringHeads, held>>
        BY <1>3, <2>0, <2>1, QuietSteps
      <3>2. Copies' = Copies
        BY <3>1 DEF Copies, Made
      <3>3. [i \in Made |-> Recorded(i)] = Copies /\ [i \in Made |-> Recorded(i)]' = Copies'
        BY <1>3 DEF Copied
      <3> QED
        BY <3>1, <3>2, <3>3 DEF Promise!history
    <2>2. CASE made' # made
      <3>1. PICK p \in Proc : Batch(p)
        BY <1>3, <2>0, <2>2, OnlyBatchesMake
      <3>2. Promise!CreateRelease(my[p].req) /\ my[p].req \in Requests
        BY <1>3, <2>2, <3>1, BatchIsACreation, BaseIs
      <3> QED
        BY <3>2 DEF Promise!Next
    <2> QED
      BY <2>1, <2>2
  <1>4. Whole /\ Copied /\ Copied' /\ [Next]_vars => [Promise!Next]_(Promise!history)
    BY <1>3
  <1> QED
    BY <1>1, <1>2, <1>c, <1>4, InitWhole, PTL DEF Spec, History, Promise!Spec

-----------------------------------------------------------------------------
(* Creations that overlap. A parent may be a release that is no longer the *)
(* head, or none at all; but whoever found none checkpoints its release.   *)

\* What an invocation has read of its ring's head, and what it makes of it.
Rooted(label, l) == l.parent \in 0 .. made /\ (label = "batch" /\ l.parent = 0 => l.due)

\* The invariant: a release without a parent is a checkpoint.
RootInv ==
    /\ Order /\ gc.pc = "idle"
    /\ \A i \in Id \ Made : releases[i].parent = 0
    /\ \A i \in Made : /\ releases[i].parent = 0 => releases[i].checkpoint
                       /\ releases[i].parent \in 0 .. i - 1
    /\ \A p \in Proc : Rooted(pc[p], my[p])

\* What an invocation that makes no release moves on with.
LEMMA CallsRooted ==
  ASSUME RootInv, NEW p \in Proc, made' = made,
         Create(p) \/ Membership(p) \/ Read(p) \/ Render(p) \/ End(p)
  PROVE  \E l, label : Go(p, l, label) /\ Rooted(label, l)
  <1> DEFINE Goal == \E l, label : Go(p, l, label) /\ Rooted(label, l)
  <1>a. my[p] \in Local /\ Rooted(pc[p], my[p]) /\ made \in Nat
    BY StoreAssumption DEF RootInv, Order, Types, TypeOK, TablesOK, Id0
  <1>b. ASSUME NEW l, NEW label, Go(p, l, label), l.parent \in 0 .. made, label # "batch"
        PROVE  Goal
    BY <1>b DEF Rooted
  <1>c. ASSUME NEW l, NEW label, Go(p, l, label), l.parent = my[p].parent, label # "batch"
        PROVE  Goal
    BY <1>a, <1>b, <1>c DEF Rooted
  <1>d. ASSUME NEW l, NEW label, Go(p, l, label), l.parent = Blank.parent, label # "batch"
        PROVE  Goal
    BY <1>a, <1>b, <1>d DEF Blank
  <1>e. ASSUME Finish(p) PROVE Goal
    BY <1>d, <1>e DEF Finish
  <1> SUFFICES Goal
    OBVIOUS
  <1> HIDE DEF Goal
  <1>1. CASE Create(p)
    <2>1. ASSUME NEW q \in Requests, StartCreate(p, q) PROVE Goal
      <3>1. PICK s : Go(p, [Blank EXCEPT !.work = "create", !.req = q, !.source = s], "parent")
        BY <2>1 DEF StartCreate
      <3> DEFINE l == [Blank EXCEPT !.work = "create", !.req = q, !.source = s]
      <3>2. l.parent = Blank.parent
        BY DEF Blank
      <3>3. Go(p, l, "parent")
        BY <3>1
      <3> HIDE DEF l
      <3> QED
        BY <1>d, <3>2, <3>3
    <2>2. CASE ReadParent(p)
      <3> DEFINE r == my[p].req.ring
                 l == [my[p] EXCEPT !.parent = ringHeads[r]]
      <3>1. r \in Ring
        BY <2>2, StoreAssumption DEF ReadParent, RootInv, Order, Types, Control, BeforeBatch, Request
      <3>2. ringHeads[r] \in 0 .. made
        BY <1>a, <3>1 DEF RootInv, Order, LiveIsHead, OfRing, Made
      <3>3. l.parent = ringHeads[r] /\ Go(p, l, "seq")
        BY <1>a, <2>2 DEF ReadParent, Local
      <3> HIDE DEF l, r
      <3> QED
        BY <1>b, <3>2, <3>3
    <2>3. CASE ReadSeq(p)
      <3>1. ASSUME NEW s, Go(p, [my[p] EXCEPT !.seq = s], "base") PROVE Goal
        BY <3>1, <1>a, <1>c DEF Local
      <3> QED
        BY <2>3, <3>1, <1>e DEF ReadSeq
    <2>4. CASE ChooseBase(p)
      <3>1. ASSUME NEW r, Go(p, [my[p] EXCEPT !.live = r], "last") PROVE Goal
        BY <3>1, <1>a, <1>c DEF Local
      <3>2. ASSUME Go(p, [my[p] EXCEPT !.goal = my[p].source], "start") PROVE Goal
        BY <3>2, <1>a, <1>c DEF Local
      <3> QED
        BY <2>4, <3>1, <3>2 DEF ChooseBase
    <2>5. CASE ReadLastCheckpoint(p)
      <3> DEFINE l == [my[p] EXCEPT !.due = Due(my[p])]
      <3>1. l.parent = my[p].parent /\ l.due = Due(my[p]) /\ Go(p, l, "batch")
        BY <1>a, <2>5 DEF ReadLastCheckpoint, Local
      <3>2. my[p].parent = 0 => Due(my[p])
        BY DEF Due
      <3> HIDE DEF l
      <3> QED
        BY <1>a, <3>1, <3>2 DEF Rooted, Goal
    <2>6. CASE Batch(p)
      BY <1>a, <1>e, <2>6 DEF Batch
    <2> QED
      BY <1>1, <2>1, <2>2, <2>3, <2>4, <2>5, <2>6 DEF Create
  <1>2. CASE Membership(p)
    <2>1. CASE Members(p)
      <3>1. ASSUME NEW r, Go(p, [my[p] EXCEPT !.live = r], "rows") PROVE Goal
        BY <3>1, <1>a, <1>c DEF Local
      <3>2. ASSUME Go(p, my[p], "start") PROVE Goal
        BY <3>2, <1>c
      <3> QED
        BY <2>1, <3>1, <3>2, <1>e DEF Members
    <2>2. CASE ReadStart(p)
      <3>1. ASSUME NEW c, Go(p, [my[p] EXCEPT !.chain = c], "walk") PROVE Goal
        BY <3>1, <1>a, <1>c DEF Local
      <3>2. ASSUME Go(p, my[p], AfterEnsure(my[p])) PROVE Goal
        BY <3>2, <1>c DEF AfterEnsure
      <3> QED
        BY <2>2, <3>1, <3>2 DEF ReadStart
    <2>3. CASE Walk(p)
      <3>1. ASSUME NEW c, NEW label \in {"walk", "unwind"}, Go(p, [my[p] EXCEPT !.chain = c], label) PROVE Goal
        BY <3>1, <1>a, <1>c DEF Local
      <3> QED
        BY <2>3, <3>1, <1>e DEF Walk
    <2>4. ASSUME NEW S, NEW c, NEW label \in {"replay", "save"}, Go(p, [my[p] EXCEPT !.rows = S, !.chain = c], label)
          PROVE  Goal
      BY <2>4, <1>a, <1>c DEF Local
    <2>5. CASE ReadCheckpointRows(p)
      BY <2>4, <2>5 DEF ReadCheckpointRows
    <2>6. CASE Replay(p)
      BY <2>4, <2>6 DEF Replay
    <2>7. ASSUME NEW S, NEW label \in {"last", "rows", "answered", "put"}, Go(p, [my[p] EXCEPT !.rows = S], label)
          PROVE  Goal
      BY <2>7, <1>a, <1>c DEF Local
    <2>8. CASE SaveCheckpoint(p)
      BY <2>7, <2>8, <1>e DEF SaveCheckpoint, AfterEnsure
    <2>9. CASE ReadRows(p)
      BY <2>7, <2>9, <1>e DEF ReadRows
    <2> QED
      BY <1>2, <2>1, <2>2, <2>3, <2>5, <2>6, <2>8, <2>9 DEF Membership
  <1>3. CASE Read(p)
    <2>1. ASSUME NEW i \in Made, StartRead(p, i) PROVE Goal
      BY <2>1, <1>d DEF StartRead, Blank
    <2>2. CASE Answer(p)
      BY <2>2, <1>a, <1>c DEF Answer, Local
    <2> QED
      BY <1>3, <2>1, <2>2 DEF Read
  <1>4. CASE Render(p)
    <2>1. ASSUME NEW r \in Ring, NEW a \in Arch, StartRender(p, r, a) PROVE Goal
      BY <2>1, <1>d DEF StartRender, Blank
    <2>2. ASSUME NEW s \in Source, PutDatabase(p, s) PROVE Goal
      BY <2>2, <1>a, <1>c DEF PutDatabase, Local
    <2> QED
      BY <1>4, <2>1, <2>2 DEF Render
  <1>5. CASE End(p)
    BY <1>5, <1>e DEF End
  <1> QED
    BY <1>1, <1>2, <1>3, <1>4, <1>5

\* Every step keeps the roots: the job never runs, so no flag is cleared, and
\* a release is made of what its invocation has read.
LEMMA StepKeepsRoots ==
  ASSUME RootInv, "gc" \notin Work, [Next]_vars
  PROVE  RootInv'
  <1>0. /\ Order /\ TypeOK /\ made \in Nat /\ gc.pc = "idle"
        /\ my \in [Proc -> Local] /\ pc \in [Proc -> Labels]
    BY StoreAssumption DEF RootInv, Order, Types, TypeOK, TablesOK, Id0
  <1>1. Order'
    BY <1>0, StepKeepsOrder
  <1>2. ~GcStep /\ ~GracePasses
    BY <1>0 DEF GcStep, GcStart, GcRetain, GcSelect, GcRows, GcFlags, GcDeltas, GcObject, GcRow, GcEnd, GracePasses
  <1>3. gc' = gc
    BY <1>2 DEF Next, Create, Membership, Read, Render, End, StartCreate, ReadParent, ReadSeq, ChooseBase,
                ReadLastCheckpoint, Batch, Members, ReadStart, Walk, ReadCheckpointRows, Replay, SaveCheckpoint,
                ReadRows, StartRead, Answer, StartRender, PutDatabase, vars
  <1>4. CASE made' = made
    <2>1. /\ \A i \in Id : /\ releases'[i].parent = releases[i].parent
                           /\ releases[i].checkpoint => releases'[i].checkpoint
          /\ Made' = Made /\ Made \subseteq Id
      BY <1>0, <1>2, <1>4, QuietParents, StoreAssumption DEF GcStep, Made, Id, TypeOK, TablesOK, Id0
    <2>2. ASSUME NEW p \in Proc, Create(p) \/ Membership(p) \/ Read(p) \/ Render(p) \/ End(p)
          PROVE  \A q \in Proc : Rooted(pc[q], my[q])'
      <3>1. PICK l, label : Go(p, l, label) /\ Rooted(label, l)
        BY <1>4, <2>2, CallsRooted
      <3>2. \A q \in Proc : \/ my'[q] = l /\ pc'[q] = label
                            \/ my'[q] = my[q] /\ pc'[q] = pc[q]
        BY <1>0, <3>1 DEF Go
      <3>3. \A q \in Proc : Rooted(pc[q], my[q])
        BY DEF RootInv
      <3> QED
        BY <1>4, <3>1, <3>2, <3>3 DEF Rooted
    <2>3. ASSUME UNCHANGED vars PROVE \A q \in Proc : Rooted(pc[q], my[q])'
      <3>1. \A q \in Proc : Rooted(pc[q], my[q])
        BY DEF RootInv
      <3>2. my' = my /\ pc' = pc
        BY <2>3 DEF vars
      <3> QED
        BY <1>4, <3>1, <3>2 DEF Rooted
    <2>4. \A q \in Proc : Rooted(pc[q], my[q])'
      BY <1>2, <2>2, <2>3 DEF Next
    <2> QED
      BY <1>0, <1>1, <1>3, <2>1, <2>4 DEF RootInv
  <1>5. CASE made' # made
    <2>1. PICK p \in Proc : Batch(p) /\ \A q \in Proc \ {p} : my'[q] = my[q] /\ pc'[q] = pc[q]
      BY <1>0, <1>5, OnlyBatchesMake
    <2> DEFINE l == my[p]
    <2>2. /\ l \in Local /\ Rooted("batch", l) /\ made' = made + 1 /\ made + 1 \in Id
          /\ releases \in [Id -> Release]
      BY <1>0, <1>5, <2>1, BatchAppends DEF RootInv, Batch, TypeOK, TablesOK
    <2>3. /\ releases' = [releases EXCEPT ![made + 1] =
                [ring |-> l.req.ring, seq |-> l.seq, parent |-> l.parent, source |-> l.source,
                 checkpoint |-> l.due, summary |-> None]]
          /\ Go(p, [l EXCEPT !.work = "summary", !.live = None, !.goal = made + 1], "members")
      BY <1>5, <2>1 DEF Batch, store
    <2>4. /\ releases'[made + 1].parent = l.parent /\ releases'[made + 1].checkpoint = l.due
          /\ \A i \in Id \ {made + 1} : releases'[i] = releases[i]
      BY <2>2, <2>3
    <2>5. my'[p].parent = l.parent /\ pc'[p] = "members"
      <3>1. PICK x : x = [l EXCEPT !.work = "summary", !.live = None, !.goal = made + 1]
        OBVIOUS
      <3>2. x.parent = l.parent
        BY <2>2, <3>1 DEF Local
      <3> QED
        BY <1>0, <2>3, <3>1, <3>2 DEF Go
    <2> HIDE DEF l
    <2>6. l.parent \in 0 .. made /\ (l.parent = 0 => l.due)
      BY <2>2 DEF Rooted
    <2>7. \A q \in Proc : Rooted(pc[q], my[q])'
      <3>1. ASSUME NEW q \in Proc PROVE my'[q].parent \in 0 .. made' /\ (pc'[q] = "batch" /\ my'[q].parent = 0 => my'[q].due)
        <4>1. CASE q = p
          BY <1>0, <2>2, <2>5, <2>6, <4>1
        <4>2. CASE q # p
          <5>1. my'[q] = my[q] /\ pc'[q] = pc[q] /\ Rooted(pc[q], my[q])
            BY <2>1, <4>2 DEF RootInv
          <5> QED
            BY <1>0, <2>2, <5>1 DEF Rooted
        <4> QED
          BY <4>1, <4>2
      <3> QED
        BY <3>1 DEF Rooted
    <2>8. Made' = Made \cup {made + 1} /\ Made \subseteq Nat /\ made + 1 \notin Made /\ Made \subseteq Id
      BY <1>0, <2>2, StoreAssumption DEF Made, Id
    <2>9. \A i \in Id \ Made' : releases'[i].parent = 0
      BY <2>4, <2>8 DEF RootInv
    <2>10. \A i \in Made' : /\ releases'[i].parent = 0 => releases'[i].checkpoint
                            /\ releases'[i].parent \in 0 .. i - 1
      <3> TAKE i \in Made'
      <3>1. CASE i = made + 1
        BY <1>0, <2>4, <2>6, <3>1
      <3>2. CASE i \in Made
        BY <2>4, <2>8, <3>2 DEF RootInv
      <3> QED
        BY <2>8, <3>1, <3>2
    <2> QED
      BY <1>0, <1>1, <1>3, <2>7, <2>9, <2>10 DEF RootInv
  <1> QED
    BY <1>4, <1>5

LEMMA InitRoots == Init => RootInv
  <1> SUFFICES ASSUME Init PROVE RootInv
    OBVIOUS
  <1>1. Order
    BY InitOrder
  <1>2. Made = {}
    BY DEF Init, Made
  <1> QED
    BY <1>1, <1>2 DEF Init, RootInv, Rooted, Blank, NoRelease, GcIdle

\* A release that had no checkpoint behind it would have a parent that has
\* none either, and the oldest such release has no parent.
LEMMA RootsRebuild ==
  ASSUME RootInv
  PROVE  AllCanRebuild
  <1> DEFINE Lost == {i \in Made : ~CanRebuild[i]}
  <1>0. TypeOK /\ made \in Nat /\ Made \subseteq Id /\ Made \subseteq Nat /\ Id \subseteq Nat
    BY StoreAssumption DEF RootInv, Order, Types, TypeOK, TablesOK, Made, Id, Id0
  <1>1. Backward
    <2>1. ASSUME NEW i \in Id PROVE releases[i].parent < i
      <3>1. i \in Nat /\ 0 < i
        BY <1>0 DEF Id
      <3>2. i \in Made => releases[i].parent \in 0 .. i - 1
        BY DEF RootInv
      <3>3. i \notin Made => releases[i].parent = 0
        BY DEF RootInv
      <3> QED
        BY <3>1, <3>2, <3>3
    <2> QED
      BY <2>1 DEF Backward
  <1>2. \A i \in Made : CanRebuild[i] = CanRebuildFrom(CanRebuild, i)
    BY <1>0, <1>1, CanRebuildIs
  <1>3. ASSUME Lost # {} PROVE FALSE
    <2>1. PICK m \in Lost : \A k \in Lost : m <= k
      BY <1>0, <1>3, LeastExists
    <2>2. m \in Made /\ m \in Nat /\ ~CanRebuildFrom(CanRebuild, m)
      BY <1>0, <1>2, <2>1
    <2>3. /\ ~releases[m].checkpoint
          /\ releases[m].parent = 0 \/ ~CanRebuild[releases[m].parent]
      BY <2>2 DEF CanRebuildFrom
    <2>4. releases[m].parent \in 1 .. m - 1
      BY <2>2, <2>3 DEF RootInv
    <2>5. releases[m].parent \in Made /\ releases[m].parent < m /\ releases[m].parent # 0
      BY <1>0, <2>2, <2>4 DEF Made
    <2>6. releases[m].parent \in Lost
      BY <2>3, <2>5
    <2>7. releases[m].parent \in Nat
      BY <1>0, <2>5
    <2> HIDE DEF Lost
    <2>8. m <= releases[m].parent
      BY <2>1, <2>6
    <2> QED
      BY <2>2, <2>5, <2>7, <2>8
  <1> QED
    BY <1>3 DEF AllCanRebuild

\* Without retention every release has a checkpoint behind it, however the
\* creations overlap: the one that finds no head to be its parent checkpoints
\* its release, whatever number it takes, and every other parent has one.
THEOREM EveryReleaseHasACheckpoint ==
  ASSUME "gc" \notin Work
  PROVE  Spec => []AllCanRebuild
  <1>1. RootInv /\ [Next]_vars => RootInv'
    BY StepKeepsRoots
  <1> QED
    BY <1>1, InitRoots, RootsRebuild, PTL DEF Spec

=============================================================================
