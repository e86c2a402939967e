------------------------- MODULE ReleaseStoreProofs -------------------------
(***************************************************************************)
(* Theorems about ReleaseStore, for every set of invocations, rings,       *)
(* packages and requests, every interleaving of their steps with each      *)
(* other and with the retention job, and every value of the bounds: types, *)
(* then the order of the releases.                                         *)
(***************************************************************************)
EXTENDS ReleaseStore, TLAPS

\* Where an invocation of handleCreateRelease stands before its batch, and
\* where any invocation works on the members of one release.
BeforeBatch == {"parent", "seq", "base", "last", "batch"}
OnMembers   == {"members", "start", "walk", "unwind", "replay", "save", "rows", "answered", "put"}

\* A chain holds a release to go on from and, before it is unwound, a delta to
\* replay as well; what a render job has left to write is of its architecture.
Ready(label, l) ==
    /\ label \in {"walk", "unwind", "replay"} => l.chain # <<>>
    /\ label = "unwind" => Tail(l.chain) # <<>>
    /\ label = "put" => \A x \in l.rows : Meta[x].arch = l.arch

\* What the local variables hold at each await: a creator has its request, a
\* reader of members its release, a walk the chain it has followed.
Control ==
    \A p \in Proc :
        /\ pc[p] \in BeforeBatch => my[p].work = "create"
        /\ my[p].work = "create" => my[p].req \in Requests
        /\ pc[p] \in OnMembers => my[p].goal \in Id
        /\ Ready(pc[p], my[p])

Types == TypeOK /\ Control

-----------------------------------------------------------------------------
LEMMA BlankIsLocal == Blank \in Local
  BY StoreAssumption DEF Blank, Local, Id0, Id

\* An invocation that moves on with a well-typed record stays well-typed.
LEMMA GoKeepsTypes ==
  ASSUME TypeOK, NEW p \in Proc, NEW l \in Local, NEW label \in Labels, Go(p, l, label)
  PROVE  my' \in [Proc -> Local] /\ pc' \in [Proc -> Labels]
  BY DEF TypeOK, Go

LEMMA GoKeepsControl ==
  ASSUME TypeOK, Control, NEW p \in Proc, NEW l \in Local, NEW label \in Labels, Go(p, l, label),
         label \in BeforeBatch => l.work = "create",
         l.work = "create" => l.req \in Requests,
         label \in OnMembers => l.goal \in Id,
         Ready(label, l)
  PROVE  Control'
  BY DEF TypeOK, Control, Go

LEMMA FinishKeepsTypes ==
  ASSUME TypeOK, Control, NEW p \in Proc, Finish(p)
  PROVE  my' \in [Proc -> Local] /\ pc' \in [Proc -> Labels] /\ Control'
  <1>1. Blank \in Local /\ "idle" \in Labels
    BY BlankIsLocal DEF Labels
  <1>2. Go(p, Blank, "idle")
    BY DEF Finish
  <1>3. "idle" \notin BeforeBatch \cup OnMembers /\ Blank.work # "create" /\ Ready("idle", Blank)
    BY DEF BeforeBatch, OnMembers, Blank, Ready
  <1> QED
    BY <1>1, <1>2, <1>3, GoKeepsTypes, GoKeepsControl

LEMMA InitTypes == Init => Types
  <1> SUFFICES ASSUME Init PROVE Types
    OBVIOUS
  <1>1. TypeOK
    BY StoreAssumption, BlankIsLocal
       DEF Init, TypeOK, TablesOK, Release, NoRelease, Labels, GcState, GcIdle, Id0, Id, Key
  <1>2. Control
    BY StoreAssumption DEF Init, Control, Blank, BeforeBatch, OnMembers, Ready
  <1> QED
    BY <1>1, <1>2 DEF Types

LEMMA TablesUnchanged ==
  ASSUME TablesOK, UNCHANGED <<store, pool, databases>>
  PROVE  TablesOK'
  BY DEF TablesOK, store, pool

\* The steps of a creation before its batch.
LEMMA CreateTypes ==
  ASSUME Types, NEW p \in Proc,
         \/ \E q \in Requests : StartCreate(p, q)
         \/ ReadParent(p) \/ ReadSeq(p) \/ ChooseBase(p) \/ ReadLastCheckpoint(p)
  PROVE  Types'
  <1> USE DEF Types
  <1>0. TablesOK' /\ gc' \in GcState
    BY TablesUnchanged DEF TypeOK, StartCreate, ReadParent, ReadSeq, ChooseBase, ReadLastCheckpoint
  <1> SUFFICES my' \in [Proc -> Local] /\ pc' \in [Proc -> Labels] /\ Control'
    BY <1>0 DEF TypeOK
  <1>1. ASSUME NEW q \in Requests, StartCreate(p, q)
        PROVE  my' \in [Proc -> Local] /\ pc' \in [Proc -> Labels] /\ Control'
    <2> DEFINE source == IF RollsBack(q) THEN q.fromRelease
                         ELSE IF Promotes(q) THEN ringHeads[q.fromRing] ELSE 0
               l == [Blank EXCEPT !.work = "create", !.req = q, !.source = source]
    <2>1. q \in Request /\ source \in Id0
      BY StoreAssumption, <1>1 DEF Request, Promotes, TypeOK, TablesOK, Id0
    <2>2. l \in Local /\ l.work = "create" /\ l.req \in Requests
      BY <2>1, BlankIsLocal DEF Blank, Local
    <2>3. Go(p, l, "parent") /\ "parent" \in Labels
      BY <1>1 DEF StartCreate, Labels
    <2> QED
      BY <2>2, <2>3, GoKeepsTypes, GoKeepsControl DEF OnMembers, Ready
  <1>2. CASE ReadParent(p)
    <2> DEFINE l == [my[p] EXCEPT !.parent = ringHeads[my[p].req.ring]]
    <2>1. my[p] \in Local /\ my[p].work = "create" /\ my[p].req \in Requests
      BY <1>2 DEF ReadParent, Control, BeforeBatch, TypeOK
    <2>2. l \in Local /\ l.work = "create" /\ l.req \in Requests
      BY <2>1, StoreAssumption DEF Local, Request, TypeOK, TablesOK
    <2>3. Go(p, l, "seq") /\ "seq" \in Labels
      BY <1>2 DEF ReadParent, Labels
    <2> QED
      BY <2>2, <2>3, GoKeepsTypes, GoKeepsControl DEF OnMembers, Ready
  <1>3. CASE ReadSeq(p)
    <2>1. my[p] \in Local /\ my[p].work = "create" /\ my[p].req \in Requests
      BY <1>3 DEF ReadSeq, Control, BeforeBatch, TypeOK
    <2>2. ASSUME NEW s \in 1 .. made + 1, Go(p, [my[p] EXCEPT !.seq = s], "base")
          PROVE  my' \in [Proc -> Local] /\ pc' \in [Proc -> Labels] /\ Control'
      <3>1. s \in 0 .. MaxReleases + 1
        BY StoreAssumption DEF TypeOK, TablesOK, Id0
      <3>2. [my[p] EXCEPT !.seq = s] \in Local
        BY <2>1, <3>1 DEF Local
      <3>3. /\ [my[p] EXCEPT !.seq = s].work = "create"
            /\ [my[p] EXCEPT !.seq = s].req \in Requests
        BY <2>1 DEF Local
      <3> QED
        BY <2>2, <3>2, <3>3, GoKeepsTypes, GoKeepsControl DEF Labels, OnMembers, Ready
    <2> QED
      BY <1>3, <2>2, FinishKeepsTypes DEF ReadSeq
  <1>4. CASE ChooseBase(p)
    <2>1. my[p] \in Local /\ my[p].work = "create" /\ my[p].req \in Requests
      BY <1>4 DEF ChooseBase, Control, BeforeBatch, TypeOK
    <2>2. my[p].req.ring \in Ring
      BY <2>1, StoreAssumption DEF Request
    <2>3. IsHead(my[p].source) => HeadRing(my[p].source) \in Ring
      BY DEF IsHead, HeadRing
    <2>4. ASSUME NEW r \in Ring \cup {None}, Go(p, [my[p] EXCEPT !.live = r], "last")
          PROVE  my' \in [Proc -> Local] /\ pc' \in [Proc -> Labels] /\ Control'
      <3>1. /\ [my[p] EXCEPT !.live = r] \in Local
            /\ [my[p] EXCEPT !.live = r].work = "create"
            /\ [my[p] EXCEPT !.live = r].req \in Requests
        BY <2>1 DEF Local
      <3> QED
        BY <2>4, <3>1, GoKeepsTypes, GoKeepsControl DEF Labels, OnMembers, Ready
    <2>5. ASSUME my[p].source # 0, Go(p, [my[p] EXCEPT !.goal = my[p].source], "start")
          PROVE  my' \in [Proc -> Local] /\ pc' \in [Proc -> Labels] /\ Control'
      <3>0. my[p].source \in Id /\ my[p].source \in Id0
        BY <2>1, <2>5, StoreAssumption DEF Local, Id0, Id
      <3>1. /\ [my[p] EXCEPT !.goal = my[p].source] \in Local
            /\ [my[p] EXCEPT !.goal = my[p].source].req \in Requests
            /\ [my[p] EXCEPT !.goal = my[p].source].goal \in Id
        BY <2>1, <3>0 DEF Local
      <3> QED
        BY <2>5, <3>1, GoKeepsTypes, GoKeepsControl DEF Labels, BeforeBatch, Ready
    <2>6. \/ \E r \in Ring \cup {None} : Go(p, [my[p] EXCEPT !.live = r], "last")
          \/ my[p].source # 0 /\ Go(p, [my[p] EXCEPT !.goal = my[p].source], "start")
      BY <1>4, <2>2, <2>3 DEF ChooseBase
    <2> QED
      BY <2>4, <2>5, <2>6
  <1>5. CASE ReadLastCheckpoint(p)
    <2>1. my[p] \in Local /\ my[p].work = "create" /\ my[p].req \in Requests
      BY <1>5 DEF ReadLastCheckpoint, Control, BeforeBatch, TypeOK
    <2>2. Due(my[p]) \in BOOLEAN
      BY DEF Due
    <2>3. /\ [my[p] EXCEPT !.due = Due(my[p])] \in Local
          /\ [my[p] EXCEPT !.due = Due(my[p])].work = "create"
          /\ [my[p] EXCEPT !.due = Due(my[p])].req \in Requests
      BY <2>1, <2>2 DEF Local
    <2>4. Go(p, [my[p] EXCEPT !.due = Due(my[p])], "batch") /\ "batch" \in Labels
      BY <1>5 DEF ReadLastCheckpoint, Labels
    <2> QED
      BY <2>3, <2>4, GoKeepsTypes, GoKeepsControl DEF OnMembers, Ready
  <1> QED
    BY <1>1, <1>2, <1>3, <1>4, <1>5

LEMMA ChainGrows ==
  ASSUME NEW S, NEW x \in S, NEW s \in Seq(S), s # <<>>
  PROVE  LET t == <<x>> \o s IN t \in Seq(S) /\ t # <<>> /\ Tail(t) # <<>>
  <1> DEFINE t == <<x>> \o s
  <1>1. t \in Seq(S) /\ Len(t) = 1 + Len(s)
    OBVIOUS
  <1>2. Len(s) \in Nat /\ Len(s) # 0
    OBVIOUS
  <1> HIDE DEF t
  <1>3. t # <<>> /\ Len(Tail(t)) = Len(t) - 1
    BY <1>1, <1>2
  <1>4. ASSUME Tail(t) = <<>> PROVE FALSE
    <2>0. Len(<<>>) = 0
      OBVIOUS
    <2>1. Len(Tail(t)) = 0
      BY <1>4, <2>0, Zenon
    <2> QED
      BY <1>1, <1>2, <1>3, <2>1
  <1> QED
    BY <1>1, <1>3, <1>4 DEF t

\* The reads of a release's members: the walk back to a checkpoint, the replay.
LEMMA MembershipTypes ==
  ASSUME Types, NEW p \in Proc,
         Members(p) \/ ReadStart(p) \/ Walk(p) \/ ReadCheckpointRows(p) \/ Replay(p) \/ Answer(p)
  PROVE  Types'
  <1> USE DEF Types
  <1>0. TablesOK' /\ gc' \in GcState
    BY TablesUnchanged DEF TypeOK, Members, ReadStart, Walk, ReadCheckpointRows, Replay, Answer
  <1> SUFFICES my' \in [Proc -> Local] /\ pc' \in [Proc -> Labels] /\ Control'
    BY <1>0 DEF TypeOK
  <1>a. /\ pc[p] \in OnMembers
        /\ my[p] \in Local /\ my[p].goal \in Id
        /\ my[p].work = "create" => my[p].req \in Requests
        /\ Ready(pc[p], my[p])
    BY DEF Members, ReadStart, Walk, ReadCheckpointRows, Replay, Answer, OnMembers, Control, TypeOK
  <1>b. /\ AfterEnsure(my[p]) \in Labels
        /\ \A l : Ready(AfterEnsure(my[p]), l)
        /\ AfterEnsure(my[p]) \in BeforeBatch => my[p].work = "create"
    BY DEF AfterEnsure, Labels, BeforeBatch, Ready
  <1>1. CASE Members(p)
    <2>1. ASSUME IsHead(my[p].goal), Go(p, [my[p] EXCEPT !.live = HeadRing(my[p].goal)], "rows")
          PROVE  my' \in [Proc -> Local] /\ pc' \in [Proc -> Labels] /\ Control'
      <3>1. HeadRing(my[p].goal) \in Ring
        BY <2>1 DEF IsHead, HeadRing
      <3>2. /\ [my[p] EXCEPT !.live = HeadRing(my[p].goal)] \in Local
            /\ [my[p] EXCEPT !.live = HeadRing(my[p].goal)].req = my[p].req
            /\ [my[p] EXCEPT !.live = HeadRing(my[p].goal)].work = my[p].work
            /\ [my[p] EXCEPT !.live = HeadRing(my[p].goal)].goal = my[p].goal
        BY <1>a, <3>1 DEF Local
      <3> QED
        BY <1>a, <2>1, <3>2, GoKeepsTypes, GoKeepsControl DEF Labels, BeforeBatch, Ready
    <2>2. ASSUME Go(p, my[p], "start")
          PROVE  my' \in [Proc -> Local] /\ pc' \in [Proc -> Labels] /\ Control'
      BY <1>a, <2>2, GoKeepsTypes, GoKeepsControl DEF Labels, BeforeBatch, Ready
    <2> QED
      BY <1>1, <2>1, <2>2, FinishKeepsTypes DEF Members
  <1>2. CASE ReadStart(p)
    <2>1. ASSUME Go(p, my[p], AfterEnsure(my[p]))
          PROVE  my' \in [Proc -> Local] /\ pc' \in [Proc -> Labels] /\ Control'
      BY <1>a, <1>b, <2>1, GoKeepsTypes, GoKeepsControl
    <2>2. ASSUME Go(p, [my[p] EXCEPT !.chain = <<my[p].goal>>], "walk")
          PROVE  my' \in [Proc -> Local] /\ pc' \in [Proc -> Labels] /\ Control'
      <3>1. <<my[p].goal>> \in Seq(Id) /\ <<my[p].goal>> # <<>>
        BY <1>a
      <3>2. /\ [my[p] EXCEPT !.chain = <<my[p].goal>>] \in Local
            /\ [my[p] EXCEPT !.chain = <<my[p].goal>>].req = my[p].req
            /\ [my[p] EXCEPT !.chain = <<my[p].goal>>].work = my[p].work
            /\ [my[p] EXCEPT !.chain = <<my[p].goal>>].goal = my[p].goal
            /\ [my[p] EXCEPT !.chain = <<my[p].goal>>].chain = <<my[p].goal>>
        BY <1>a, <3>1 DEF Local
      <3> QED
        BY <1>a, <2>2, <3>1, <3>2, GoKeepsTypes, GoKeepsControl DEF Labels, BeforeBatch, Ready
    <2> QED
      BY <1>2, <2>1, <2>2 DEF ReadStart
  <1>3. CASE Walk(p)
    <2> DEFINE par == releases[Head(my[p].chain)].parent
               label == IF releases[par].checkpoint THEN "unwind" ELSE "walk"
               l == [my[p] EXCEPT !.chain = <<par>> \o @]
    <2>1. my[p].chain \in Seq(Id) /\ my[p].chain # <<>> /\ Head(my[p].chain) \in Id
      <3>1. my[p].chain # <<>>
        BY <1>3, <1>a DEF Walk, Ready
      <3>2. my[p].chain \in Seq(Id)
        BY <1>a DEF Local
      <3> QED
        BY <3>1, <3>2
    <2>2. par \in Id0
      BY <2>1 DEF TypeOK, TablesOK, Release
    <2>3. ASSUME par # 0, Go(p, l, label)
          PROVE  my' \in [Proc -> Local] /\ pc' \in [Proc -> Labels] /\ Control'
      <3>1. par \in Id
        <4>1. \A x \in Id0 : x # 0 => x \in Id
          BY StoreAssumption DEF Id, Id0
        <4> HIDE DEF par
        <4> QED
          BY <2>2, <2>3, <4>1
      <3>2. /\ <<par>> \o my[p].chain \in Seq(Id)
            /\ <<par>> \o my[p].chain # <<>> /\ Tail(<<par>> \o my[p].chain) # <<>>
        BY <2>1, <3>1, ChainGrows
      <3>3. /\ l \in Local /\ l.req = my[p].req /\ l.work = my[p].work
            /\ l.goal = my[p].goal /\ l.chain = <<par>> \o my[p].chain
        BY <1>a, <3>2 DEF Local
      <3>4. label \in Labels /\ label \notin BeforeBatch /\ Ready(label, l)
        BY <3>2, <3>3 DEF Labels, BeforeBatch, Ready
      <3> HIDE DEF l, label, par
      <3> QED
        BY <1>a, <2>3, <3>3, <3>4, GoKeepsTypes, GoKeepsControl
    <2> QED
      BY <1>3, <2>3, FinishKeepsTypes DEF Walk
  <1>4. CASE ReadCheckpointRows(p)
    <2> DEFINE l == [my[p] EXCEPT !.rows = releasePackages[Head(my[p].chain)], !.chain = Tail(@)]
    <2>1. /\ my[p].chain \in Seq(Id) /\ Tail(my[p].chain) # <<>>
          /\ Head(my[p].chain) \in Id /\ Tail(my[p].chain) \in Seq(Id)
      BY <1>4, <1>a DEF ReadCheckpointRows, Local, Ready
    <2>2. releasePackages[Head(my[p].chain)] \in SUBSET Pkg
      BY <2>1 DEF TypeOK, TablesOK
    <2>3. /\ l \in Local /\ l.req = my[p].req /\ l.work = my[p].work
          /\ l.goal = my[p].goal /\ l.chain = Tail(my[p].chain)
      BY <1>a, <2>1, <2>2 DEF Local
    <2>4. Go(p, l, "replay") /\ Ready("replay", l)
      BY <1>4, <2>1, <2>3 DEF ReadCheckpointRows, Ready
    <2> HIDE DEF l
    <2> QED
      BY <1>a, <2>3, <2>4, GoKeepsTypes, GoKeepsControl DEF Labels, BeforeBatch
  <1>5. CASE Replay(p)
    <2> DEFINE rows == Apply(my[p].rows, deltas[Head(my[p].chain)])
               label == IF Tail(my[p].chain) = <<>> THEN "save" ELSE "replay"
               l == [my[p] EXCEPT !.rows = Apply(@, deltas[Head(my[p].chain)]), !.chain = Tail(@)]
    <2>1. /\ my[p].chain \in Seq(Id) /\ my[p].chain # <<>>
          /\ Head(my[p].chain) \in Id /\ Tail(my[p].chain) \in Seq(Id)
      BY <1>5, <1>a DEF Replay, Local, Ready
    <2>2. rows \in SUBSET Pkg
      BY <2>1, <1>a DEF TypeOK, TablesOK, Apply, Local
    <2>3. /\ l \in Local /\ l.req = my[p].req /\ l.work = my[p].work
          /\ l.goal = my[p].goal /\ l.chain = Tail(my[p].chain)
      BY <1>a, <2>1, <2>2 DEF Local
    <2>4. Go(p, l, label) /\ Ready(label, l) /\ label \in Labels /\ label \notin BeforeBatch
      BY <1>5, <2>1, <2>3 DEF Replay, Ready, Labels, BeforeBatch
    <2> HIDE DEF l, label
    <2> QED
      BY <1>a, <2>3, <2>4, GoKeepsTypes, GoKeepsControl
  <1>6. CASE Answer(p)
    <2> DEFINE l == [my[p] EXCEPT !.work = "summary", !.live = None, !.rows = {}]
    <2>1. l \in Local /\ l.work = "summary" /\ l.goal = my[p].goal
      BY <1>a DEF Local
    <2>2. Go(p, l, "members")
      BY <1>6 DEF Answer
    <2> HIDE DEF l
    <2> QED
      BY <1>a, <2>1, <2>2, GoKeepsTypes, GoKeepsControl DEF Labels, BeforeBatch, Ready
  <1> QED
    BY <1>1, <1>2, <1>3, <1>4, <1>5, <1>6

LEMMA RowsArePackages ==
  ASSUME TypeOK, NEW live, NEW goal
  PROVE  Rows(live, goal) \in SUBSET Pkg
  BY DEF TypeOK, TablesOK, Rows

LEMMA TargetIsPackages ==
  ASSUME TypeOK, NEW l \in Local, l.req \in Requests
  PROVE  Target(l.req, Base(l)) \in SUBSET Pkg
  <1>1. l.req.ring \in Ring /\ l.req.add \in SUBSET Pkg
    BY StoreAssumption DEF Request
  <1>2. Base(l) \in SUBSET Pkg
    BY <1>1, RowsArePackages DEF Base, InArch, TypeOK, TablesOK
  <1> QED
    BY <1>1, <1>2 DEF Target

\* The transaction of handleCreateRelease.
LEMMA BatchTypes ==
  ASSUME Types, NEW p \in Proc, Batch(p)
  PROVE  Types'
  <1> USE DEF Types
  <1> DEFINE l      == my[p]
             target == Target(l.req, Base(l))
             id     == made + 1
             next   == [l EXCEPT !.work = "summary", !.live = None, !.goal = id]
             row    == [ring |-> l.req.ring, seq |-> l.seq, parent |-> l.parent, source |-> l.source,
                        checkpoint |-> l.due, summary |-> None]
             carried == IF l.parent = 0 THEN {} ELSE {a \in artifacts[l.parent] : a[2] \in Unchanged(l)}
  <1>1. l \in Local /\ l.req \in Requests /\ l.req.ring \in Ring
    BY StoreAssumption DEF Batch, Control, BeforeBatch, TypeOK, Request
  <1>2. id \in Id /\ id \in Id0
    BY StoreAssumption DEF Batch, TypeOK, TablesOK, Id0, Id
  <1>3. target \in SUBSET Pkg
    BY <1>1, TargetIsPackages
  <1>4. CASE BatchFails(l, target)
    <2>1. Finish(p) /\ UNCHANGED <<store, pool, databases, gc>>
      BY <1>4 DEF Batch
    <2> QED
      BY <2>1, FinishKeepsTypes, TablesUnchanged DEF TypeOK
  <1>5. CASE ~BatchFails(l, target)
    <2>1. next \in Local /\ next.work = "summary" /\ next.goal = id
      BY <1>1, <1>2 DEF Local
    <2>2. row \in Release
      BY <1>1 DEF Local, Release
    <2>3. carried \in SUBSET (Source \X Arch)
      <3>1. l.parent \in Id0
        BY <1>1 DEF Local
      <3>2. l.parent # 0 => l.parent \in Id
        BY <3>1, StoreAssumption DEF Id, Id0
      <3> QED
        BY <3>2 DEF TypeOK, TablesOK
    <2>4. Delta(target, ringPackages[l.req.ring]) \in [add : SUBSET Pkg, remove : SUBSET Pkg]
      BY <1>1, <1>3 DEF TypeOK, TablesOK, Delta
    <2>5. /\ made' = id
          /\ releases' = [releases EXCEPT ![id] = row]
          /\ deltas' = [deltas EXCEPT ![id] = Delta(target, ringPackages[l.req.ring])]
          /\ ringPackages' = [ringPackages EXCEPT ![l.req.ring] = target]
          /\ ringHeads' = [ringHeads EXCEPT ![l.req.ring] = id]
          /\ releasePackages' = [releasePackages EXCEPT ![id] = IF l.due THEN target ELSE {}]
          /\ artifacts' = [artifacts EXCEPT ![id] = carried]
          /\ held' = [held EXCEPT ![id] = target]
          /\ Go(p, next, "members")
          /\ UNCHANGED <<pool, databases, gc>>
      BY <1>5 DEF Batch
    <2>6. my' \in [Proc -> Local] /\ pc' \in [Proc -> Labels] /\ Control'
      <3> HIDE DEF next
      <3> QED
        BY <1>2, <2>1, <2>5, GoKeepsTypes, GoKeepsControl DEF Labels, BeforeBatch, Ready
    <2>7. TablesOK'
      <3> HIDE DEF target, row, carried, id
      <3>1. releases' \in [Id -> Release] /\ artifacts' \in [Id -> SUBSET (Source \X Arch)]
        BY <2>2, <2>3, <2>5 DEF TypeOK, TablesOK
      <3>2. /\ deltas' \in [Id -> [add : SUBSET Pkg, remove : SUBSET Pkg]]
            /\ releasePackages' \in [Id -> SUBSET Pkg]
            /\ held' \in [Id -> SUBSET Pkg]
        BY <1>3, <2>4, <2>5 DEF TypeOK, TablesOK
      <3>3. made' \in Id0 /\ ringHeads' \in [Ring -> Id0] /\ ringPackages' \in [Ring -> SUBSET Pkg]
        BY <1>2, <1>3, <2>5 DEF TypeOK, TablesOK
      <3>4. /\ packages' \subseteq Pkg /\ objects' \subseteq Key /\ aged' \subseteq Pkg
            /\ databases' \in [Ring \X Source \X Arch -> SUBSET Pkg]
        BY <2>5 DEF TypeOK, TablesOK, pool
      <3> QED
        BY <3>1, <3>2, <3>3, <3>4 DEF TablesOK
    <2> QED
      BY <2>5, <2>6, <2>7 DEF TypeOK
  <1> QED
    BY <1>4, <1>5

\* The other writes of an invocation: a checkpoint on demand, a summary, a
\* rendered database.
LEMMA WriteTypes ==
  ASSUME Types, NEW p \in Proc,
         SaveCheckpoint(p) \/ ReadRows(p) \/ (\E s \in Source : PutDatabase(p, s))
  PROVE  Types'
  <1> USE DEF Types
  <1>a. /\ pc[p] \in OnMembers
        /\ my[p] \in Local /\ my[p].goal \in Id /\ my[p].rows \in SUBSET Pkg
        /\ my[p].work = "create" => my[p].req \in Requests
        /\ Ready(pc[p], my[p])
    BY DEF SaveCheckpoint, ReadRows, PutDatabase, OnMembers, Control, TypeOK, Local
  <1>b. ASSUME NEW l \in Local, NEW label \in {"last", "rows", "answered", "put"}, Go(p, l, label),
               l.req = my[p].req, l.work = my[p].work, l.goal = my[p].goal,
               label = "last" => l.work = "create", Ready(label, l)
        PROVE  my' \in [Proc -> Local] /\ pc' \in [Proc -> Labels] /\ Control'
    BY <1>a, <1>b, GoKeepsTypes, GoKeepsControl DEF Labels, BeforeBatch, Ready
  <1>1. CASE SaveCheckpoint(p)
    <2> DEFINE l == [my[p] EXCEPT !.rows = {}]
    <2>1. l \in Local /\ l.req = my[p].req /\ l.work = my[p].work /\ l.goal = my[p].goal
      BY <1>a DEF Local
    <2>2. /\ AfterEnsure(my[p]) \in {"last", "rows"}
          /\ AfterEnsure(my[p]) = "last" => my[p].work = "create"
          /\ Ready(AfterEnsure(my[p]), l)
      BY DEF AfterEnsure, Ready
    <2>3. Go(p, l, AfterEnsure(my[p])) \/ Finish(p)
      BY <1>1 DEF SaveCheckpoint
    <2>4. my' \in [Proc -> Local] /\ pc' \in [Proc -> Labels] /\ Control'
      <3> HIDE DEF l
      <3> QED
        BY <1>b, <2>1, <2>2, <2>3, FinishKeepsTypes
    <2>5. releasePackages' \in [Id -> SUBSET Pkg] /\ releases' \in [Id -> Release]
      <3>1. [releases EXCEPT ![my[p].goal].checkpoint = TRUE] \in [Id -> Release]
        <4>1. my[p].goal \in Id /\ releases \in [Id -> Release]
          BY <1>a DEF TypeOK, TablesOK
        <4>2. [releases[my[p].goal] EXCEPT !.checkpoint = TRUE] \in Release
          BY <4>1 DEF Release
        <4> QED
          BY <4>1, <4>2
      <3> QED
        BY <1>1, <1>a, <3>1 DEF SaveCheckpoint, TypeOK, TablesOK
    <2> QED
      BY <1>1, <2>4, <2>5 DEF SaveCheckpoint, TypeOK, TablesOK, pool
  <1>2. CASE ReadRows(p)
    <2> DEFINE rows == Rows(my[p].live, my[p].goal)
    <2>1. rows \in SUBSET Pkg /\ InArch(rows, my[p].arch) \in SUBSET Pkg
      BY RowsArePackages DEF InArch
    <2>2. ASSUME NEW S \in SUBSET Pkg, NEW label \in {"answered", "put"},
                 label = "put" => S = InArch(rows, my[p].arch),
                 Go(p, [my[p] EXCEPT !.rows = S], label)
          PROVE  my' \in [Proc -> Local] /\ pc' \in [Proc -> Labels] /\ Control'
      <3>1. /\ [my[p] EXCEPT !.rows = S] \in Local
            /\ [my[p] EXCEPT !.rows = S].req = my[p].req
            /\ [my[p] EXCEPT !.rows = S].work = my[p].work
            /\ [my[p] EXCEPT !.rows = S].goal = my[p].goal
            /\ [my[p] EXCEPT !.rows = S].arch = my[p].arch
            /\ [my[p] EXCEPT !.rows = S].rows = S
        BY <1>a DEF Local
      <3>2. Ready(label, [my[p] EXCEPT !.rows = S])
        BY <2>2, <3>1 DEF Ready, InArch
      <3> QED
        BY <1>b, <2>2, <3>1, <3>2
    <2>3. /\ \/ Finish(p)
             \/ Go(p, [my[p] EXCEPT !.rows = rows], "answered")
             \/ Go(p, [my[p] EXCEPT !.rows = InArch(rows, my[p].arch)], "put")
          /\ releases' \in {releases, [releases EXCEPT ![my[p].goal].summary = rows]}
      BY <1>2 DEF ReadRows
    <2>4. my' \in [Proc -> Local] /\ pc' \in [Proc -> Labels] /\ Control'
      BY <2>1, <2>2, <2>3, FinishKeepsTypes
    <2>5. releases' \in [Id -> Release]
      <3> HIDE DEF rows
      <3>1. releases[my[p].goal] \in Release
        BY <1>a DEF TypeOK, TablesOK
      <3>2. [releases[my[p].goal] EXCEPT !.summary = rows] \in Release
        BY <2>1, <3>1 DEF Release
      <3>3. [releases EXCEPT ![my[p].goal].summary = rows] \in [Id -> Release]
        BY <1>a, <3>2 DEF TypeOK, TablesOK
      <3> QED
        BY <2>3, <3>3 DEF TypeOK, TablesOK
    <2> QED
      BY <1>2, <2>4, <2>5 DEF ReadRows, TypeOK, TablesOK, pool
  <1>3. ASSUME NEW s \in Source, PutDatabase(p, s)
        PROVE  Types'
    <2> DEFINE ofSrc == {x \in my[p].rows : Meta[x].source = s}
               l == [my[p] EXCEPT !.rows = @ \ ofSrc]
    <2>1. ofSrc \in SUBSET Pkg /\ my[p].rows \ ofSrc \in SUBSET Pkg
      BY <1>a
    <2>2. /\ l \in Local /\ l.req = my[p].req /\ l.work = my[p].work /\ l.goal = my[p].goal
          /\ l.arch = my[p].arch /\ l.rows = my[p].rows \ ofSrc
      BY <1>a, <2>1 DEF Local
    <2>3. Go(p, l, "put") /\ Ready("put", l)
      BY <1>3, <1>a, <2>2 DEF PutDatabase, Ready
    <2>4. my' \in [Proc -> Local] /\ pc' \in [Proc -> Labels] /\ Control'
      <3> HIDE DEF l
      <3> QED
        BY <1>b, <2>2, <2>3
    <2>5. databases' \in [Ring \X Source \X Arch -> SUBSET Pkg]
      BY <1>3, <2>1 DEF PutDatabase, TypeOK, TablesOK
    <2>6. artifacts' \in [Id -> SUBSET (Source \X Arch)]
      <3>1. PICK x \in ofSrc : TRUE
        BY <1>3 DEF PutDatabase
      <3>2. my[p].arch = Meta[x].arch /\ x \in Pkg /\ Meta[x].arch \in Arch
        BY <1>3, <1>a, <3>1 DEF PutDatabase, Ready, Arch
      <3> QED
        BY <1>3, <1>a, <3>2 DEF PutDatabase, TypeOK, TablesOK
    <2> QED
      BY <1>3, <2>4, <2>5, <2>6 DEF PutDatabase, TypeOK, TablesOK, pool
  <1> QED
    BY <1>1, <1>2, <1>3

\* The first step of a reader or of a render job, and the end of an invocation.
LEMMA OtherTypes ==
  ASSUME Types, NEW p \in Proc,
         \/ \E i \in Made : StartRead(p, i)
         \/ \E r \in Ring, a \in Arch : StartRender(p, r, a)
         \/ End(p)
  PROVE  Types'
  <1> USE DEF Types
  <1>0. TablesOK' /\ gc' \in GcState
    BY TablesUnchanged DEF TypeOK, StartRead, StartRender, End
  <1> SUFFICES my' \in [Proc -> Local] /\ pc' \in [Proc -> Labels] /\ Control'
    BY <1>0 DEF TypeOK
  <1>1. ASSUME NEW l \in Local, l.work \in {"read", "render"}, l.goal \in Id, Go(p, l, "members")
        PROVE  my' \in [Proc -> Local] /\ pc' \in [Proc -> Labels] /\ Control'
    BY <1>1, GoKeepsTypes, GoKeepsControl DEF Labels, BeforeBatch, Ready
  <1>2. ASSUME NEW i \in Made, StartRead(p, i)
        PROVE  my' \in [Proc -> Local] /\ pc' \in [Proc -> Labels] /\ Control'
    <2>1. i \in Id /\ i \in Id0
      BY StoreAssumption DEF Made, TypeOK, TablesOK, Id, Id0
    <2>2. LET l == [Blank EXCEPT !.work = "read", !.goal = i]
          IN  l \in Local /\ l.work = "read" /\ l.goal = i
      BY <2>1, BlankIsLocal DEF Local, Blank
    <2> QED
      BY <1>1, <1>2, <2>1, <2>2 DEF StartRead
  <1>3. ASSUME NEW r \in Ring, NEW a \in Arch, StartRender(p, r, a)
        PROVE  my' \in [Proc -> Local] /\ pc' \in [Proc -> Labels] /\ Control'
    <2>0. ringHeads[r] \in Id0 /\ ringHeads[r] # 0
      BY <1>3 DEF StartRender, TypeOK, TablesOK
    <2>1. ringHeads[r] \in Id /\ ringHeads[r] \in Id0
      BY <2>0, StoreAssumption DEF Id, Id0
    <2>2. LET l == [Blank EXCEPT !.work = "render", !.goal = ringHeads[r], !.arch = a]
          IN  l \in Local /\ l.work = "render" /\ l.goal = ringHeads[r]
      BY <2>1, BlankIsLocal DEF Local, Blank
    <2> QED
      BY <1>1, <1>3, <2>1, <2>2 DEF StartRender
  <1>4. CASE End(p)
    BY <1>4, FinishKeepsTypes DEF End
  <1> QED
    BY <1>2, <1>3, <1>4

\* The retention job, and the passing of the grace period.
LEMMA GcTypes ==
  ASSUME Types, GcStep \/ GracePasses
  PROVE  Types'
  <1> USE DEF Types
  <1>0. Control' /\ my' \in [Proc -> Local] /\ pc' \in [Proc -> Labels]
    <2>1. UNCHANGED <<pc, my>>
      BY DEF GcStep, GracePasses, GcStart, GcRetain, GcSelect, GcRows, GcFlags, GcDeltas,
             GcObject, GcRow, GcEnd
    <2> QED
      BY <2>1 DEF TypeOK, Control
  <1> SUFFICES TablesOK' /\ gc' \in GcState
    BY <1>0 DEF TypeOK
  <1>a. TablesOK /\ gc \in GcState
    BY DEF TypeOK
  <1>b. GcIdle \in GcState
    BY DEF GcIdle, GcState
  <1>c. Made \subseteq Id
    BY <1>a, StoreAssumption DEF Made, TablesOK, Id, Id0
  <1>1. CASE GcStart
    <2>1. [GcIdle EXCEPT !.pc = "retain", !.todo = Ring] \in GcState
      BY DEF GcIdle, GcState
    <2> QED
      BY <1>1, <1>a, <2>1, TablesUnchanged DEF GcStart
  <1>2. ASSUME NEW r \in Ring, GcRetain(r)
        PROVE  TablesOK' /\ gc' \in GcState
    <2>1. /\ Protected(r) \in SUBSET Id /\ KeptBase(r) \in SUBSET Id
          /\ {i \in Protected(r) : releases[i].checkpoint} \in SUBSET Id
      BY <1>c DEF Protected, KeptBase, OfRing
    <2>2. gc' \in GcState
      <3> DEFINE prot == Protected(r)
                 base == KeptBase(r)
                 cps  == {i \in prot : releases[i].checkpoint}
      <3>1. gc' = [gc EXCEPT !.todo = @ \ {r},
                        !.pc = IF gc.todo = {r} THEN "select" ELSE "retain",
                        !.protected = @ \cup prot, !.kept = @ \cup cps \cup base, !.bases = @ \cup base]
        BY <1>2 DEF GcRetain
      <3>2. prot \in SUBSET Id /\ base \in SUBSET Id /\ cps \in SUBSET Id
        BY <2>1
      <3> HIDE DEF prot, base, cps
      <3> QED
        BY <1>a, <3>1, <3>2 DEF GcState
    <2> QED
      BY <1>2, <1>a, <2>2, TablesUnchanged DEF GcRetain
  <1>3. CASE GcSelect
    <2>1. Unreferenced \in SUBSET Pkg
      BY <1>a DEF Unreferenced, TablesOK
    <2>2. gc' \in GcState
      BY <1>3, <1>a, <2>1 DEF GcSelect, GcState
    <2> QED
      BY <1>3, <1>a, <2>2, TablesUnchanged DEF GcSelect
  <1>4. CASE GcRows
    <2>1. gc' \in GcState
      BY <1>4, <1>a DEF GcRows, GcState
    <2>2. releasePackages' \in [Id -> SUBSET Pkg]
      BY <1>4, <1>a DEF GcRows, TablesOK
    <2> QED
      BY <1>4, <1>a, <2>1, <2>2 DEF GcRows, TablesOK, pool
  <1>5. CASE GcFlags
    <2>1. gc' \in GcState
      BY <1>5, <1>a DEF GcFlags, GcState
    <2>2. releases' \in [Id -> Release]
      <3>1. ASSUME NEW i \in Id
            PROVE  [releases[i] EXCEPT !.checkpoint = @ /\ i \in gc.kept] \in Release
        <4>1. releases[i] \in Release /\ (releases[i].checkpoint /\ i \in gc.kept) \in BOOLEAN
          BY <1>a DEF TablesOK
        <4> QED
          BY <4>1 DEF Release
      <3> QED
        BY <1>5, <3>1 DEF GcFlags
    <2> QED
      BY <1>5, <1>a, <2>1, <2>2 DEF GcFlags, TablesOK, pool
  <1>6. CASE GcDeltas
    <2>1. gc' \in GcState
      BY <1>6, <1>a DEF GcDeltas, GcState
    <2>2. deltas' \in [Id -> [add : SUBSET Pkg, remove : SUBSET Pkg]]
      BY <1>6, <1>a DEF GcDeltas, TablesOK
    <2> QED
      BY <1>6, <1>a, <2>1, <2>2 DEF GcDeltas, TablesOK, pool
  <1>7. ASSUME NEW v \in Pkg, GcObject(v)
        PROVE  TablesOK' /\ gc' \in GcState
    <2>1. gc' \in GcState
      BY <1>7, <1>a DEF GcObject, GcState
    <2>2. objects' \subseteq Key
      BY <1>7, <1>a DEF GcObject, TablesOK
    <2> QED
      BY <1>7, <1>a, <2>1, <2>2 DEF GcObject, TablesOK, store
  <1>8. CASE GcRow
    <2>1. gc' \in GcState
      <3>1. [gc EXCEPT !.pc = "victims", !.victims = @ \ {gc.victim}, !.victim = None] \in GcState
        BY <1>a DEF GcState
      <3> QED
        BY <1>8, <1>b, <3>1 DEF GcRow
    <2>2. packages' \subseteq Pkg
      BY <1>8, <1>a DEF GcRow, TablesOK
    <2> QED
      BY <1>8, <1>a, <2>1, <2>2 DEF GcRow, TablesOK, store
  <1>9. CASE GcEnd
    BY <1>9, <1>a, <1>b, TablesUnchanged DEF GcEnd
  <1>10. CASE GracePasses
    BY <1>10, <1>a DEF GracePasses, TablesOK, store
  <1> QED
    BY <1>1, <1>2, <1>3, <1>4, <1>5, <1>6, <1>7, <1>8, <1>9, <1>10 DEF GcStep

LEMMA NextTypes == Types /\ [Next]_vars => Types'
  <1> SUFFICES ASSUME Types, [Next]_vars PROVE Types'
    OBVIOUS
  <1>1. ASSUME NEW p \in Proc, Create(p) PROVE Types'
    BY <1>1, CreateTypes, BatchTypes DEF Create
  <1>2. ASSUME NEW p \in Proc, Membership(p) PROVE Types'
    BY <1>2, MembershipTypes, WriteTypes DEF Membership
  <1>3. ASSUME NEW p \in Proc, Read(p) \/ Render(p) \/ End(p) PROVE Types'
    BY <1>3, MembershipTypes, WriteTypes, OtherTypes DEF Read, Render
  <1>4. CASE GcStep \/ GracePasses
    BY <1>4, GcTypes
  <1>5. CASE UNCHANGED vars
    BY <1>5 DEF vars, store, pool, Types, TypeOK, TablesOK, Control
  <1> QED
    BY <1>1, <1>2, <1>3, <1>4, <1>5 DEF Next

\* The tables and the local variables of every invocation and of the retention
\* job stay well-typed under every interleaving.
THEOREM TypeCorrect == Spec => []TypeOK
  <1>1. Types => TypeOK
    BY DEF Types
  <1> QED
    BY InitTypes, NextTypes, <1>1, PTL DEF Spec

-----------------------------------------------------------------------------
(***************************************************************************)
(* The order of a ring's releases: whatever invocations overlap, the       *)
(* releases of a ring are numbered 1, 2, ... in the order they were made,  *)
(* the head is the last of them, the live rows are its selection, and the  *)
(* delta of each is exact against the release numbered before it.          *)
(***************************************************************************)

\* A creator that has read a seq read one that was next then: at most one past
\* the last release of its ring, however many were made since. With UNIQUE
\* (ring, seq), a batch that succeeds is therefore the next one.
Numbered(p) ==
    my[p].work = "create" /\ pc[p] \notin {"idle", "parent", "seq"}
        => my[p].seq \in 1 .. LastSeq(my[p].req.ring) + 1

Order == Types /\ LiveIsHead /\ \A p \in Proc : Numbered(p)

-----------------------------------------------------------------------------
LEMMA LastSeqIsNat ==
  ASSUME TypeOK, LiveIsHead, NEW r \in Ring
  PROVE  LastSeq(r) \in Nat
  <1>1. Made \subseteq Id
    BY StoreAssumption DEF TypeOK, TablesOK, Made, Id0, Id
  <1> QED
    BY <1>1 DEF TypeOK, TablesOK, Release, LiveIsHead, LastSeq, OfRing

\* Steps that make no release: checkpoints, flags, summaries and deltas come
\* and go, the order of the releases stays.
LEMMA OrderUnchanged ==
  ASSUME TypeOK, LiveIsHead, UNCHANGED <<made, ringHeads, ringPackages, held>>,
         \A i \in Id : releases'[i].ring = releases[i].ring /\ releases'[i].seq = releases[i].seq
  PROVE  LiveIsHead' /\ \A r \in Ring : LastSeq(r)' = LastSeq(r)
  <1>1. Made' = Made /\ Made \subseteq Id
    BY StoreAssumption DEF TypeOK, TablesOK, Made, Id0, Id
  <1>2. ASSUME NEW r \in Ring
        PROVE  OfRing(r)' = OfRing(r) /\ OfRing(r) \subseteq Id
    BY <1>1 DEF OfRing
  <1>3. ASSUME NEW r \in Ring
        PROVE  LastSeq(r)' = LastSeq(r)
    <2>1. ringHeads[r] # 0 => ringHeads[r] \in Id
      BY <1>2 DEF LiveIsHead
    <2> QED
      BY <2>1 DEF LastSeq
  <1>4. ASSUME NEW r \in Ring
        PROVE  {releases[i].seq : i \in OfRing(r)}' = {releases[i].seq : i \in OfRing(r)}
    BY <1>2
  <1>5. ASSUME NEW r \in Ring
        PROVE  (\A i, j \in OfRing(r) : i < j => releases[i].seq < releases[j].seq)'
    BY <1>2 DEF LiveIsHead
  <1> QED
    BY <1>2, <1>3, <1>4, <1>5 DEF LiveIsHead

\* A creator keeps its seq, or is done.
LEMMA NumberedByGo ==
  ASSUME TypeOK, \A q \in Proc : Numbered(q), \A r \in Ring : LastSeq(r)' = LastSeq(r),
         \A q \in Proc : my[q].work = "create" => my[q].req \in Requests,
         NEW p \in Proc, NEW l, NEW label, Go(p, l, label),
         l.work = "create" /\ label \notin {"idle", "parent", "seq"}
            => l.req \in Requests /\ l.seq \in 1 .. LastSeq(l.req.ring) + 1
  PROVE  \A q \in Proc : Numbered(q)'
  <1>1. \A q \in Requests : q.ring \in Ring
    BY StoreAssumption DEF Request
  <1>2. my'[p] = l /\ pc'[p] = label /\ \A q \in Proc \ {p} : my'[q] = my[q] /\ pc'[q] = pc[q]
    BY DEF TypeOK, Go
  <1>3. Numbered(p)'
    BY <1>1, <1>2 DEF Numbered
  <1>4. ASSUME NEW q \in Proc \ {p} PROVE Numbered(q)'
    BY <1>1, <1>2 DEF Numbered
  <1> QED
    BY <1>3, <1>4

\* Rows that a step rewrites with another checkpoint flag or summary.
LEMMA RowsKeepTheirPlace ==
  ASSUME TypeOK,
         \/ UNCHANGED releases
         \/ \E p \in Proc : SaveCheckpoint(p) \/ ReadRows(p)
         \/ GcFlags
  PROVE  \A i \in Id : releases'[i].ring = releases[i].ring /\ releases'[i].seq = releases[i].seq
  <1>1. ASSUME NEW p \in Proc, SaveCheckpoint(p)
        PROVE  \A i \in Id : releases'[i].ring = releases[i].ring /\ releases'[i].seq = releases[i].seq
    BY <1>1 DEF SaveCheckpoint, TypeOK, TablesOK, Release
  <1>2. ASSUME NEW p \in Proc, ReadRows(p)
        PROVE  \A i \in Id : releases'[i].ring = releases[i].ring /\ releases'[i].seq = releases[i].seq
    <2> DEFINE rows == Rows(my[p].live, my[p].goal)
    <2>1. releases' = releases \/ releases' = [releases EXCEPT ![my[p].goal].summary = rows]
      BY <1>2 DEF ReadRows
    <2> HIDE DEF rows
    <2>2. CASE releases' = [releases EXCEPT ![my[p].goal].summary = rows]
      BY <2>2 DEF TypeOK, TablesOK, Release
    <2> QED
      BY <2>1, <2>2
  <1>3. CASE GcFlags
    BY <1>3 DEF GcFlags, TypeOK, TablesOK, Release
  <1> QED
    BY <1>1, <1>2, <1>3

\* The seq a creator reads is next in its ring.
LEMMA SeqReadIsNext ==
  ASSUME TypeOK, LiveIsHead, NEW r \in Ring, NEW s \in 1 .. made + 1, IsNextSeq(r, s)
  PROVE  s \in 1 .. LastSeq(r) + 1
  <1>1. LastSeq(r) \in Nat /\ made \in Nat
    BY LastSeqIsNat, StoreAssumption DEF TypeOK, TablesOK, Id0
  <1>2. CASE s = 1
    BY <1>1, <1>2
  <1>3. CASE \E i \in OfRing(r) : releases[i].seq = s - 1
    <2>1. s - 1 \in 1 .. LastSeq(r)
      BY <1>3 DEF LiveIsHead
    <2> QED
      BY <1>1, <2>1
  <1> QED
    BY <1>2, <1>3 DEF IsNextSeq

\* A successful batch appends: its seq is one past the last, its id is new.
LEMMA BatchAppends ==
  ASSUME Order, NEW p \in Proc, Batch(p), made' # made
  PROVE  /\ my[p].req.ring \in Ring /\ made + 1 \in Id /\ made \in Nat
         /\ my[p].seq = LastSeq(my[p].req.ring) + 1
         /\ made' = made + 1
         /\ releases'[made + 1].ring = my[p].req.ring /\ releases'[made + 1].seq = my[p].seq
         /\ \A i \in Made : releases'[i] = releases[i] /\ held'[i] = held[i] /\ deltas'[i] = deltas[i]
         /\ deltas'[made + 1] = Delta(held'[made + 1], ringPackages[my[p].req.ring])
         /\ ringHeads' = [ringHeads EXCEPT ![my[p].req.ring] = made + 1]
         /\ ringPackages' = [ringPackages EXCEPT ![my[p].req.ring] = held'[made + 1]]
  <1> DEFINE ring == my[p].req.ring
  <1>1. ring \in Ring /\ my[p].req \in Requests /\ my[p].work = "create"
    BY StoreAssumption DEF Order, Types, Control, Batch, BeforeBatch, TypeOK, Request
  <1>2. made \in Nat /\ made + 1 \in Id /\ Made \subseteq Id /\ made + 1 \notin Made
    BY StoreAssumption DEF Order, Types, Batch, TypeOK, TablesOK, Id0, Id, Made
  <1>3. ~BatchFails(my[p], Target(my[p].req, Base(my[p])))
    BY DEF Batch, store
  <1>4. my[p].seq \in 1 .. LastSeq(ring) + 1
    BY <1>1 DEF Order, Numbered, Batch
  <1>5. \A i \in OfRing(ring) : releases[i].seq # my[p].seq
    BY <1>3 DEF BatchFails
  <1>6. my[p].seq \notin 1 .. LastSeq(ring)
    BY <1>1, <1>5 DEF Order, LiveIsHead
  <1>7. LastSeq(ring) \in Nat
    BY <1>1, LastSeqIsNat DEF Order, Types
  <1>8. my[p].seq = LastSeq(ring) + 1
    BY <1>4, <1>6, <1>7
  <1>9. /\ made' = made + 1
        /\ releases' = [releases EXCEPT ![made + 1] =
              [ring |-> ring, seq |-> my[p].seq, parent |-> my[p].parent, source |-> my[p].source,
               checkpoint |-> my[p].due, summary |-> None]]
        /\ deltas' = [deltas EXCEPT ![made + 1] =
              Delta(Target(my[p].req, Base(my[p])), ringPackages[ring])]
        /\ held' = [held EXCEPT ![made + 1] = Target(my[p].req, Base(my[p]))]
        /\ ringHeads' = [ringHeads EXCEPT ![ring] = made + 1]
        /\ ringPackages' = [ringPackages EXCEPT ![ring] = Target(my[p].req, Base(my[p]))]
    BY <1>3 DEF Batch
  <1>10. /\ releases \in [Id -> Release] /\ held \in [Id -> SUBSET Pkg]
         /\ DOMAIN deltas = Id
    BY DEF Order, Types, TypeOK, TablesOK
  <1> HIDE DEF ring
  <1>11. /\ releases'[made + 1].ring = ring /\ releases'[made + 1].seq = my[p].seq
         /\ held'[made + 1] = Target(my[p].req, Base(my[p]))
         /\ deltas'[made + 1] = Delta(held'[made + 1], ringPackages[ring])
    BY <1>2, <1>9, <1>10
  <1>12. \A i \in Made : releases'[i] = releases[i] /\ held'[i] = held[i] /\ deltas'[i] = deltas[i]
    BY <1>2, <1>9, <1>10
  <1>13. ringPackages' = [ringPackages EXCEPT ![ring] = held'[made + 1]]
    BY <1>9, <1>11
  <1> QED
    BY <1>1, <1>2, <1>8, <1>9, <1>11, <1>12, <1>13 DEF ring

LEMMA BatchKeepsOrder ==
  ASSUME Order, NEW p \in Proc, Batch(p), made' # made
  PROVE  LiveIsHead' /\ \A r \in Ring : LastSeq(r)' \in Nat /\ LastSeq(r)' >= LastSeq(r)
  <1>0. my[p].req.ring \in Ring /\ made + 1 \in Id
    BY BatchAppends
  <1> SUFFICES ASSUME NEW ring \in Ring, ring = my[p].req.ring, NEW id \in Id, id = made + 1
               PROVE  LiveIsHead' /\ \A r \in Ring : LastSeq(r)' \in Nat /\ LastSeq(r)' >= LastSeq(r)
    BY <1>0
  <1>1. /\ ring \in Ring /\ id \in Id /\ made \in Nat /\ made' = id
        /\ releases'[id].ring = ring /\ releases'[id].seq = LastSeq(ring) + 1
        /\ \A i \in Made : releases'[i] = releases[i] /\ held'[i] = held[i]
        /\ ringHeads' = [ringHeads EXCEPT ![ring] = id]
        /\ ringPackages' = [ringPackages EXCEPT ![ring] = held'[id]]
    BY BatchAppends
  <1>2. /\ ringHeads \in [Ring -> Id0] /\ ringPackages \in [Ring -> SUBSET Pkg]
        /\ LiveIsHead
        /\ \A r \in Ring : LastSeq(r) \in Nat
    BY LastSeqIsNat DEF Order, Types, TypeOK, TablesOK
  <1>3. id = made + 1
    OBVIOUS
  <1>4. Made' = Made \cup {id} /\ id \notin Made /\ (\A i \in Made : i < id /\ i \in Nat) /\ id \in Nat
    BY <1>1, <1>3 DEF Made
  <1>5. ASSUME NEW r \in Ring \ {ring}
        PROVE  /\ OfRing(r)' = OfRing(r)
               /\ LastSeq(r)' = LastSeq(r)
               /\ ringHeads'[r] = ringHeads[r] /\ ringPackages'[r] = ringPackages[r]
    <2>1. OfRing(r)' = OfRing(r)
      BY <1>1, <1>4 DEF OfRing
    <2>2. ringHeads'[r] = ringHeads[r] /\ ringPackages'[r] = ringPackages[r]
      BY <1>1, <1>2
    <2>3. ringHeads[r] # 0 => ringHeads[r] \in Made
      BY <1>2 DEF LiveIsHead, OfRing
    <2> QED
      BY <1>1, <2>1, <2>2, <2>3 DEF LastSeq
  <1>6. /\ OfRing(ring)' = OfRing(ring) \cup {id}
        /\ ringHeads'[ring] = id /\ id # 0 /\ ringPackages'[ring] = held'[id]
        /\ LastSeq(ring)' = LastSeq(ring) + 1
    <2>1. OfRing(ring)' = OfRing(ring) \cup {id}
      BY <1>1, <1>4 DEF OfRing
    <2>2. ringHeads'[ring] = id
      BY <1>1, <1>2
    <2>3. ringPackages'[ring] = held'[id]
      BY <1>1, <1>2
    <2>4. id # 0
      BY <1>1, <1>3
    <2>5. LastSeq(ring)' = releases'[id].seq
      BY <2>2, <2>4 DEF LastSeq
    <2> QED
      BY <1>1, <2>1, <2>2, <2>3, <2>4, <2>5
  <1>7. ASSUME NEW r \in Ring \ {ring}
        PROVE  /\ {releases[i].seq : i \in OfRing(r)}' = (1 .. LastSeq(r))'
               /\ (\A i, j \in OfRing(r) : i < j => releases[i].seq < releases[j].seq)'
               /\ (ringHeads[r] = 0 => ringPackages[r] = {})'
               /\ (ringHeads[r] # 0 => ringHeads[r] \in OfRing(r) /\ ringPackages[r] = held[ringHeads[r]])'
    <2>1. \A i \in OfRing(r) : i \in Made /\ releases'[i] = releases[i] /\ held'[i] = held[i]
      BY <1>1 DEF OfRing
    <2>2. /\ {releases[i].seq : i \in OfRing(r)} = 1 .. LastSeq(r)
          /\ \A i, j \in OfRing(r) : i < j => releases[i].seq < releases[j].seq
          /\ ringHeads[r] = 0 => ringPackages[r] = {}
          /\ ringHeads[r] # 0 => ringHeads[r] \in OfRing(r) /\ ringPackages[r] = held[ringHeads[r]]
      BY <1>2 DEF LiveIsHead
    <2> QED
      BY <1>5, <2>1, <2>2
  <1>8. /\ {releases[i].seq : i \in OfRing(ring)}' = (1 .. LastSeq(ring))'
        /\ (\A i, j \in OfRing(ring) : i < j => releases[i].seq < releases[j].seq)'
    <2>1. \A i \in OfRing(ring) : i \in Made /\ releases'[i] = releases[i]
      BY <1>1 DEF OfRing
    <2>2. /\ {releases[i].seq : i \in OfRing(ring)} = 1 .. LastSeq(ring)
          /\ \A i, j \in OfRing(ring) : i < j => releases[i].seq < releases[j].seq
          /\ LastSeq(ring) \in Nat
      BY <1>1, <1>2 DEF LiveIsHead
    <2>3. {releases[i].seq : i \in OfRing(ring)}' = {releases[i].seq : i \in OfRing(ring)} \cup {LastSeq(ring) + 1}
      BY <1>1, <1>6, <2>1
    <2>4. 1 .. LastSeq(ring) + 1 = (1 .. LastSeq(ring)) \cup {LastSeq(ring) + 1}
      BY <2>2
    <2>5. {releases[i].seq : i \in OfRing(ring)}' = (1 .. LastSeq(ring))'
      BY <1>6, <2>2, <2>3, <2>4
    <2>6. \A i \in OfRing(ring) : releases[i].seq \in 1 .. LastSeq(ring)
      BY <2>2
    <2>7. \A i \in OfRing(ring) : ~(id < i)
      BY <1>4, <2>1
    <2> QED
      BY <1>1, <1>4, <1>6, <2>1, <2>2, <2>5, <2>6, <2>7
  <1>9. LiveIsHead'
    <2>1. id \in OfRing(ring)' /\ ringHeads'[ring] # 0
      BY <1>6
    <2> QED
      BY <1>6, <1>7, <1>8, <2>1 DEF LiveIsHead
  <1>10. ASSUME NEW r \in Ring
         PROVE  LastSeq(r)' \in Nat /\ LastSeq(r)' >= LastSeq(r)
    BY <1>1, <1>2, <1>5, <1>6
  <1> QED
    BY <1>9, <1>10

\* Every step but a successful batch leaves the releases in their places.
LEMMA QuietSteps ==
  ASSUME Order, [Next]_vars, made' = made
  PROVE  /\ UNCHANGED <<made, ringHeads, ringPackages, held>>
         /\ \A i \in Id : releases'[i].ring = releases[i].ring /\ releases'[i].seq = releases[i].seq
  <1> USE DEF store
  <1>0. TypeOK /\ made \in Nat
    BY StoreAssumption DEF Order, Types, TypeOK, TablesOK, Id0
  <1>1. ASSUME NEW p \in Proc, Create(p)
        PROVE  UNCHANGED <<made, ringHeads, ringPackages, held, releases>>
    <2>1. CASE Batch(p)
      BY <2>1, <1>0 DEF Batch
    <2>2. CASE ~Batch(p)
      BY <1>1, <2>2 DEF Create, StartCreate, ReadParent, ReadSeq, ChooseBase, ReadLastCheckpoint
    <2> QED
      BY <2>1, <2>2
  <1>2. ASSUME NEW p \in Proc, Membership(p)
        PROVE  /\ UNCHANGED <<made, ringHeads, ringPackages, held>>
               /\ UNCHANGED releases \/ SaveCheckpoint(p) \/ ReadRows(p)
    BY <1>2 DEF Membership, Members, ReadStart, Walk, ReadCheckpointRows, Replay, SaveCheckpoint, ReadRows
  <1>3. ASSUME NEW p \in Proc, Read(p) \/ Render(p) \/ End(p)
        PROVE  UNCHANGED <<made, ringHeads, ringPackages, held, releases>>
    BY <1>3 DEF Read, Render, StartRead, Answer, StartRender, PutDatabase, End
  <1>4. CASE GcStep
    <2>1. /\ UNCHANGED <<made, ringHeads, ringPackages, held>>
          /\ UNCHANGED releases \/ GcFlags
      BY <1>4 DEF GcStep, GcStart, GcRetain, GcSelect, GcRows, GcFlags, GcDeltas, GcObject, GcRow, GcEnd
    <2> QED
      BY <1>0, <2>1, RowsKeepTheirPlace
  <1>5. CASE GracePasses \/ UNCHANGED vars
    BY <1>5 DEF GracePasses, vars
  <1>6. CASE \E p \in Proc : Membership(p)
    BY <1>0, <1>2, <1>6, RowsKeepTheirPlace
  <1> QED
    BY <1>1, <1>3, <1>4, <1>5, <1>6 DEF Next

\* What an invocation moves on with: a creator past its read of the seq keeps
\* that seq and its request.
LEMMA CreatorsKeepTheirSeq ==
  ASSUME Order, NEW p \in Proc, made' = made,
         Create(p) \/ Membership(p) \/ Read(p) \/ Render(p) \/ End(p)
  PROVE  \E l, label :
           /\ Go(p, l, label)
           /\ l.work = "create" /\ label \notin {"idle", "parent", "seq"}
                => l.req \in Requests /\ l.seq \in 1 .. LastSeq(l.req.ring) + 1
  <1> DEFINE Goal == \E l, label :
                       /\ Go(p, l, label)
                       /\ l.work = "create" /\ label \notin {"idle", "parent", "seq"}
                            => l.req \in Requests /\ l.seq \in 1 .. LastSeq(l.req.ring) + 1
  <1>a. my[p] \in Local /\ (my[p].work = "create" => my[p].req \in Requests) /\ Numbered(p)
    BY DEF Order, Types, TypeOK, Control
  <1>b. ASSUME Finish(p) PROVE Goal
    BY <1>b DEF Finish, Blank
  <1>c. ASSUME NEW l, NEW label, Go(p, l, label), l.work = my[p].work, l.req = my[p].req, l.seq = my[p].seq,
               pc[p] \notin {"idle", "parent", "seq"}
        PROVE  Goal
    BY <1>a, <1>c DEF Numbered
  <1>d. ASSUME NEW l, NEW label, Go(p, l, label), l.work # "create" \/ label \in {"parent", "seq"}
        PROVE  Goal
    BY <1>d
  <1> SUFFICES Goal
    OBVIOUS
  <1> HIDE DEF Goal
  <1>1. CASE Create(p)
    <2>1. ASSUME NEW q \in Requests, StartCreate(p, q) PROVE Goal
      BY <2>1, <1>d DEF StartCreate
    <2>2. CASE ReadParent(p)
      BY <2>2, <1>d DEF ReadParent
    <2>3. CASE ReadSeq(p)
      <3>1. ASSUME NEW s \in 1 .. made + 1, IsNextSeq(my[p].req.ring, s),
                   Go(p, [my[p] EXCEPT !.seq = s], "base")
            PROVE  Goal
        <4> DEFINE l == [my[p] EXCEPT !.seq = s]
        <4>1. my[p].req \in Requests /\ my[p].req.ring \in Ring
          BY <2>3, <1>a, StoreAssumption DEF ReadSeq, Order, Types, Control, BeforeBatch, Request
        <4>2. s \in 1 .. LastSeq(my[p].req.ring) + 1
          BY <3>1, <4>1, SeqReadIsNext DEF Order, Types
        <4>3. l.req = my[p].req /\ l.seq = s
          BY <1>a DEF Local
        <4>4. Go(p, l, "base")
          BY <3>1
        <4> HIDE DEF l
        <4> QED
          BY <4>1, <4>2, <4>3, <4>4 DEF Goal
      <3> QED
        BY <2>3, <3>1, <1>b DEF ReadSeq
    <2>4. CASE ChooseBase(p)
      <3>1. ASSUME NEW r, Go(p, [my[p] EXCEPT !.live = r], "last") PROVE Goal
        BY <2>4, <3>1, <1>a, <1>c DEF ChooseBase, Local
      <3>2. ASSUME Go(p, [my[p] EXCEPT !.goal = my[p].source], "start") PROVE Goal
        BY <2>4, <3>2, <1>a, <1>c DEF ChooseBase, Local
      <3> QED
        BY <2>4, <3>1, <3>2 DEF ChooseBase
    <2>5. CASE ReadLastCheckpoint(p)
      BY <2>5, <1>a, <1>c DEF ReadLastCheckpoint, Local
    <2>6. CASE Batch(p)
      <3>1. made \in Nat
        BY StoreAssumption DEF Order, Types, TypeOK, TablesOK, Id0
      <3> QED
        BY <2>6, <3>1, <1>b DEF Batch
    <2> QED
      BY <1>1, <2>1, <2>2, <2>3, <2>4, <2>5, <2>6 DEF Create
  <1>2. CASE Membership(p)
    <2>1. CASE Members(p)
      <3>1. ASSUME NEW r, Go(p, [my[p] EXCEPT !.live = r], "rows") PROVE Goal
        BY <2>1, <3>1, <1>a, <1>c DEF Members, Local
      <3>2. ASSUME Go(p, my[p], "start") PROVE Goal
        BY <2>1, <3>2, <1>c DEF Members
      <3> QED
        BY <2>1, <3>1, <3>2, <1>b DEF Members
    <2>2. CASE ReadStart(p)
      <3>1. ASSUME NEW c, Go(p, [my[p] EXCEPT !.chain = c], "walk") PROVE Goal
        BY <2>2, <3>1, <1>a, <1>c DEF ReadStart, Local
      <3>2. ASSUME Go(p, my[p], AfterEnsure(my[p])) PROVE Goal
        BY <2>2, <3>2, <1>c DEF ReadStart
      <3> QED
        BY <2>2, <3>1, <3>2 DEF ReadStart
    <2>3. CASE Walk(p)
      <3>1. ASSUME NEW c, NEW label, Go(p, [my[p] EXCEPT !.chain = c], label) PROVE Goal
        BY <2>3, <3>1, <1>a, <1>c DEF Walk, Local
      <3> QED
        BY <2>3, <3>1, <1>b DEF Walk
    <2>4. ASSUME NEW S, NEW c, NEW label, Go(p, [my[p] EXCEPT !.rows = S, !.chain = c], label),
                 pc[p] \in {"unwind", "replay"}
          PROVE  Goal
      BY <2>4, <1>a, <1>c DEF Local
    <2>5. CASE ReadCheckpointRows(p)
      BY <2>4, <2>5 DEF ReadCheckpointRows
    <2>6. CASE Replay(p)
      BY <2>4, <2>6 DEF Replay
    <2>7. ASSUME NEW S, NEW label, Go(p, [my[p] EXCEPT !.rows = S], label), pc[p] \in {"save", "rows"}
          PROVE  Goal
      BY <2>7, <1>a, <1>c DEF Local
    <2>8. CASE SaveCheckpoint(p)
      BY <2>7, <2>8, <1>b DEF SaveCheckpoint
    <2>9. CASE ReadRows(p)
      BY <2>7, <2>9, <1>b DEF ReadRows
    <2> QED
      BY <1>2, <2>1, <2>2, <2>3, <2>5, <2>6, <2>8, <2>9 DEF Membership
  <1>3. CASE Read(p)
    <2>1. ASSUME NEW i \in Made, StartRead(p, i) PROVE Goal
      BY <2>1, <1>d DEF StartRead, Blank
    <2>2. CASE Answer(p)
      BY <2>2, <1>a, <1>d DEF Answer, Local
    <2> QED
      BY <1>3, <2>1, <2>2 DEF Read
  <1>4. CASE Render(p)
    <2>1. ASSUME NEW r \in Ring, NEW a \in Arch, StartRender(p, r, a) PROVE Goal
      BY <2>1, <1>d DEF StartRender, Blank
    <2>2. ASSUME NEW s \in Source, PutDatabase(p, s) PROVE Goal
      BY <2>2, <1>a, <1>c DEF PutDatabase, Local
    <2> QED
      BY <1>4, <2>1, <2>2 DEF Render
  <1>5. CASE End(p)
    BY <1>5, <1>b DEF End
  <1> QED
    BY <1>1, <1>2, <1>3, <1>4, <1>5

\* Only a successful batch makes a release.
LEMMA OnlyBatchesMake ==
  ASSUME Order, [Next]_vars, made' # made
  PROVE  \E p \in Proc : Batch(p) /\ my'[p].work = "summary"
                           /\ \A q \in Proc \ {p} : my'[q] = my[q] /\ pc'[q] = pc[q]
  <1> USE DEF store
  <1>0. ASSUME NEW p \in Proc, Batch(p)
        PROVE  my'[p].work = "summary" /\ \A q \in Proc \ {p} : my'[q] = my[q] /\ pc'[q] = pc[q]
    <2> DEFINE l == [my[p] EXCEPT !.work = "summary", !.live = None, !.goal = made + 1]
    <2>1. Go(p, l, "members")
      BY <1>0 DEF Batch
    <2>2. my[p] \in Local
      BY DEF Order, Types, TypeOK
    <2>3. l.work = "summary"
      BY <2>2 DEF Local
    <2> HIDE DEF l
    <2> QED
      BY <2>1, <2>3 DEF Go, Order, Types, TypeOK
  <1>1. ASSUME NEW p \in Proc, Create(p) PROVE Batch(p)
    BY <1>1 DEF Create, StartCreate, ReadParent, ReadSeq, ChooseBase, ReadLastCheckpoint
  <1>2. ASSUME NEW p \in Proc, Membership(p) PROVE FALSE
    BY <1>2 DEF Membership, Members, ReadStart, Walk, ReadCheckpointRows, Replay, SaveCheckpoint, ReadRows
  <1>3. ASSUME NEW p \in Proc, Read(p) \/ Render(p) \/ End(p) PROVE FALSE
    BY <1>3 DEF Read, Render, StartRead, Answer, StartRender, PutDatabase, End
  <1>4. CASE GcStep
    BY <1>4 DEF GcStep, GcStart, GcRetain, GcSelect, GcRows, GcFlags, GcDeltas, GcObject, GcRow, GcEnd
  <1>5. CASE GracePasses \/ UNCHANGED vars
    BY <1>5 DEF GracePasses, vars
  <1> QED
    BY <1>0, <1>1, <1>2, <1>3, <1>4, <1>5 DEF Next

LEMMA StepKeepsOrder ==
  ASSUME Order, [Next]_vars
  PROVE  Order'
  <1>0. /\ TypeOK /\ LiveIsHead /\ \A q \in Proc : Numbered(q)
        /\ \A q \in Proc : my[q].work = "create" => my[q].req \in Requests
        /\ \A q \in Requests : q.ring \in Ring
    BY StoreAssumption DEF Order, Types, Control, Request
  <1>1. Types'
    BY NextTypes DEF Order
  <1> SUFFICES LiveIsHead' /\ \A q \in Proc : Numbered(q)'
    BY <1>1 DEF Order
  <1>2. CASE made' = made
    <2>1. LiveIsHead' /\ \A r \in Ring : LastSeq(r)' = LastSeq(r)
      BY <1>0, <1>2, QuietSteps, OrderUnchanged
    <2>2. ASSUME NEW p \in Proc, Create(p) \/ Membership(p) \/ Read(p) \/ Render(p) \/ End(p)
          PROVE  \A q \in Proc : Numbered(q)'
      <3>1. PICK l, label :
               /\ Go(p, l, label)
               /\ l.work = "create" /\ label \notin {"idle", "parent", "seq"}
                    => l.req \in Requests /\ l.seq \in 1 .. LastSeq(l.req.ring) + 1
        BY <1>2, <2>2, CreatorsKeepTheirSeq
      <3> QED
        BY <1>0, <2>1, <3>1, NumberedByGo
    <2>3. ASSUME GcStep \/ GracePasses \/ UNCHANGED vars
          PROVE  \A q \in Proc : Numbered(q)'
      <3>1. UNCHANGED <<my, pc>>
        BY <2>3 DEF GcStep, GcStart, GcRetain, GcSelect, GcRows, GcFlags, GcDeltas, GcObject,
                    GcRow, GcEnd, GracePasses, vars
      <3> QED
        BY <1>0, <2>1, <3>1 DEF Numbered
    <2> QED
      BY <2>1, <2>2, <2>3 DEF Next
  <1>3. CASE made' # made
    <2>1. PICK p \in Proc : Batch(p) /\ my'[p].work = "summary"
                            /\ \A q \in Proc \ {p} : my'[q] = my[q] /\ pc'[q] = pc[q]
      BY <1>3, OnlyBatchesMake
    <2>2. LiveIsHead' /\ \A r \in Ring : LastSeq(r)' \in Nat /\ LastSeq(r)' >= LastSeq(r)
      BY <1>3, <2>1, BatchKeepsOrder
    <2>3. \A r \in Ring : LastSeq(r) \in Nat
      BY <1>0, LastSeqIsNat
    <2>4. Numbered(p)'
      BY <2>1 DEF Numbered
    <2>5. ASSUME NEW q \in Proc \ {p} PROVE Numbered(q)'
      BY <1>0, <2>1, <2>2, <2>3 DEF Numbered
    <2> QED
      BY <2>2, <2>4, <2>5
  <1> QED
    BY <1>2, <1>3

LEMMA InitOrder == Init => Order
  <1> SUFFICES ASSUME Init PROVE Order
    OBVIOUS
  <1>1. Made = {}
    BY DEF Init, Made
  <1>2. LiveIsHead
    BY <1>1 DEF Init, LiveIsHead, OfRing, LastSeq
  <1>3. \A p \in Proc : Numbered(p)
    BY DEF Init, Numbered, Blank
  <1> QED
    BY <1>2, <1>3, InitTypes DEF Order

\* However invocations of handleCreateRelease overlap, with each other, with
\* readers that write checkpoints and with the retention job: a ring's
\* releases are numbered 1, 2, ... in the order they were made, the head is
\* the last of them and the live rows are its selection.
THEOREM HeadIsLast == Spec => []LiveIsHead
  <1>1. Order => LiveIsHead
    BY DEF Order
  <1>2. Order /\ [Next]_vars => Order'
    BY StepKeepsOrder
  <1> QED
    BY InitOrder, <1>1, <1>2, PTL DEF Spec

-----------------------------------------------------------------------------
NoChange == [add |-> {}, remove |-> {}]

\* A quiet step leaves every delta alone, or empties it.
LEMMA DeltasStayOrEmpty ==
  ASSUME Order, [Next]_vars, made' = made
  PROVE  \A i \in Id : deltas'[i] \in {deltas[i], NoChange}
  <1> USE DEF store
  <1>0. made \in Nat
    BY StoreAssumption DEF Order, Types, TypeOK, TablesOK, Id0
  <1>1. ASSUME NEW p \in Proc, Create(p) PROVE UNCHANGED deltas
    <2>1. CASE Batch(p)
      BY <2>1, <1>0 DEF Batch
    <2>2. CASE ~Batch(p)
      BY <1>1, <2>2 DEF Create, StartCreate, ReadParent, ReadSeq, ChooseBase, ReadLastCheckpoint
    <2> QED
      BY <2>1, <2>2
  <1>2. ASSUME NEW p \in Proc, Membership(p) PROVE UNCHANGED deltas
    BY <1>2 DEF Membership, Members, ReadStart, Walk, ReadCheckpointRows, Replay, SaveCheckpoint, ReadRows
  <1>3. ASSUME NEW p \in Proc, Read(p) \/ Render(p) \/ End(p) PROVE UNCHANGED deltas
    BY <1>3 DEF Read, Render, StartRead, Answer, StartRender, PutDatabase, End
  <1>4. CASE GcStep
    <2>1. CASE GcDeltas
      BY <2>1 DEF GcDeltas, NoChange
    <2>2. CASE ~GcDeltas
      BY <1>4, <2>2 DEF GcStep, GcStart, GcRetain, GcSelect, GcRows, GcFlags, GcObject, GcRow, GcEnd
    <2> QED
      BY <2>1, <2>2
  <1>5. CASE GracePasses \/ UNCHANGED vars
    BY <1>5 DEF GracePasses, vars
  <1> QED
    BY <1>1, <1>2, <1>3, <1>4, <1>5 DEF Next

LEMMA BatchKeepsDeltas ==
  ASSUME Order, DeltaExact, NEW p \in Proc, Batch(p), made' # made
  PROVE  DeltaExact'
  <1>0. my[p].req.ring \in Ring /\ made + 1 \in Id
    BY BatchAppends
  <1> SUFFICES ASSUME NEW ring \in Ring, ring = my[p].req.ring, NEW id \in Id, id = made + 1
               PROVE  DeltaExact'
    BY <1>0
  <1>1. /\ made \in Nat /\ made' = id
        /\ releases'[id].ring = ring /\ releases'[id].seq = LastSeq(ring) + 1
        /\ \A i \in Made : releases'[i] = releases[i] /\ held'[i] = held[i] /\ deltas'[i] = deltas[i]
        /\ deltas'[id] = Delta(held'[id], ringPackages[ring])
    BY BatchAppends
  <1>2. Made' = Made \cup {id} /\ id \notin Made /\ Made \subseteq Id
    BY <1>1, StoreAssumption DEF Made, Order, Types, TypeOK, TablesOK, Id0, Id
  <1>3. LastSeq(ring) \in Nat /\ LiveIsHead /\ \A i \in Made : releases[i].seq \in Nat
    BY <1>2, LastSeqIsNat, StoreAssumption DEF Order, Types, TypeOK, TablesOK, Release
  \* The release numbered just before the new one is the head.
  <1>4. ASSUME NEW j \in OfRing(ring), releases[j].seq = LastSeq(ring)
        PROVE  ringPackages[ring] = held[j]
    <2>1. ringHeads[ring] # 0
      <3>1. releases[j].seq \in 1 .. LastSeq(ring)
        BY <1>3 DEF LiveIsHead
      <3> QED
        BY <3>1, <1>3, <1>4 DEF LastSeq
    <2>2. /\ ringHeads[ring] \in OfRing(ring) /\ ringPackages[ring] = held[ringHeads[ring]]
          /\ releases[ringHeads[ring]].seq = LastSeq(ring)
      BY <1>3, <2>1 DEF LiveIsHead, LastSeq
    <2>3. ringHeads[ring] = j
      <3>1. OfRing(ring) \subseteq Nat
        BY <1>1 DEF OfRing, Made
      <3>2. \A i, k \in OfRing(ring) : i < k => releases[i].seq < releases[k].seq
        BY <1>3 DEF LiveIsHead
      <3>3. ~(ringHeads[ring] < j) /\ ~(j < ringHeads[ring])
        BY <1>3, <1>4, <2>2, <3>2
      <3> QED
        BY <2>2, <3>1, <3>3
    <2> QED
      BY <2>2, <2>3
  <1>5. ASSUME NEW j \in Made, releases[j].ring = ring
        PROVE  releases[j].seq <= LastSeq(ring)
    <2>1. releases[j].seq \in 1 .. LastSeq(ring)
      BY <1>3, <1>5 DEF LiveIsHead, OfRing
    <2> QED
      BY <1>3, <2>1
  <1>6. ASSUME NEW i \in Made', NEW j \in Made', releases'[i].ring = releases'[j].ring,
               releases'[i].seq = releases'[j].seq + 1
        PROVE  deltas'[i] \in {[add |-> held'[i] \ held'[j], remove |-> held'[j] \ held'[i]], NoChange}
    <2>1. CASE i \in Made /\ j \in Made
      BY <1>1, <1>6, <2>1 DEF DeltaExact, NoChange
    <2>2. CASE i = id /\ j \in Made
      <3>0. releases'[j] = releases[j] /\ releases[j].seq \in Nat /\ LastSeq(ring) \in Nat
        BY <1>1, <1>3, <2>2
      <3>1. releases[j].ring = ring /\ releases[j].seq = LastSeq(ring)
        <4>1. releases'[id].ring = releases[j].ring /\ releases'[id].seq = releases[j].seq + 1
          BY <1>6, <2>2, <3>0
        <4> QED
          BY <1>1, <3>0, <4>1
      <3>2. j \in OfRing(ring)
        BY <2>2, <3>1 DEF OfRing
      <3>3. ringPackages[ring] = held'[j]
        BY <1>1, <1>4, <2>2, <3>1, <3>2
      <3> QED
        BY <1>1, <2>2, <3>3 DEF Delta
    <2>3. CASE i \in Made /\ j = id
      <3>1. releases'[i] = releases[i] /\ releases[i].seq \in Nat /\ LastSeq(ring) \in Nat
        BY <1>1, <1>3, <2>3
      <3>2. releases[i].ring = ring /\ releases[i].seq = LastSeq(ring) + 2
        <4>1. releases[i].ring = releases'[id].ring /\ releases[i].seq = releases'[id].seq + 1
          BY <1>6, <2>3, <3>1
        <4> QED
          BY <1>1, <3>1, <4>1
      <3>3. releases[i].seq <= LastSeq(ring)
        BY <1>5, <2>3, <3>2
      <3> QED
        BY <3>1, <3>2, <3>3
    <2>4. CASE i = id /\ j = id
      BY <1>1, <1>3, <1>6, <2>4
    <2> QED
      BY <1>2, <2>1, <2>2, <2>3, <2>4
  <1> QED
    BY <1>6 DEF DeltaExact, NoChange

\* Every delta a reconstruction may replay is what its release changed against
\* the release numbered before it, or retention has emptied it, whatever
\* handlers overlap: a batch computes it from the live rows, and those are the
\* head's when the batch succeeds.
THEOREM DeltasExact == Spec => []DeltaExact
  <1>1. Init => DeltaExact
    BY DEF Init, DeltaExact, Made
  <1>2. ASSUME Order, DeltaExact, [Next]_vars
        PROVE  DeltaExact'
    <2>1. CASE made' = made
      <3>1. /\ UNCHANGED <<made, held>>
            /\ \A i \in Id : releases'[i].ring = releases[i].ring /\ releases'[i].seq = releases[i].seq
            /\ \A i \in Id : deltas'[i] \in {deltas[i], NoChange}
        BY <1>2, <2>1, QuietSteps, DeltasStayOrEmpty
      <3>2. Made' = Made /\ Made \subseteq Id
        BY <1>2, <3>1, StoreAssumption DEF Made, Order, Types, TypeOK, TablesOK, Id0, Id
      <3> QED
        BY <1>2, <3>1, <3>2 DEF DeltaExact, NoChange
    <2>2. CASE made' # made
      BY <1>2, <2>2, OnlyBatchesMake, BatchKeepsDeltas
    <2> QED
      BY <2>1, <2>2
  <1>3. Order /\ DeltaExact /\ [Next]_vars => (Order /\ DeltaExact)'
    BY <1>2, StepKeepsOrder
  <1>4. Init => Order /\ DeltaExact
    BY InitOrder, <1>1
  <1> QED
    BY <1>3, <1>4, PTL DEF Spec
=============================================================================
