---------------------------- MODULE ReleaseStore ----------------------------
(***************************************************************************)
(* The release store of the package pool (worker/src/routes/releases.ts,   *)
(* worker/src/db.ts, worker/src/routes/gc.ts): per ring an append-only     *)
(* history of releases, kept as deltas with a checkpoint now and then, and *)
(* a retention job that prunes checkpoints, deltas, index rows and objects.*)
(*                                                                         *)
(* A handler is a sequence of awaited D1 and R2 calls; each call is one    *)
(* action, and the actions of different invocations interleave freely. A   *)
(* D1 batch is one transaction, hence one action. A package is a model     *)
(* value that stands for its index row id and its sha256.                  *)
(***************************************************************************)
EXTENDS Integers, Sequences, FiniteSets

CONSTANTS
    Proc,             \* Worker invocations that may run at the same time
    Ring,             \* the rings: edge, rc, stable
    Pkg,              \* the packages of the pool
    Meta,             \* [Pkg -> [name, source, arch, key]]: what the index says of each
    Requests,         \* the CreateRelease bodies that callers send
    Work,             \* which callers there are: a subset of {"create", "read", "render", "gc"}
    CheckpointEvery,  \* CHECKPOINT_EVERY
    Keep,             \* ?keep=N of the retention job
    Serial,           \* whether callers keep to the schedule below
    MaxReleases,      \* bound: releases made in a behaviour
    None              \* null

Name   == {Meta[p].name   : p \in Pkg}
Source == {Meta[p].source : p \in Pkg}
Arch   == {Meta[p].arch   : p \in Pkg}
Key    == {Meta[p].key    : p \in Pkg}
Id     == 1 .. MaxReleases
Id0    == 0 .. MaxReleases

\* The body of POST /releases. 0 and None are the fields left out.
Request == [ring : Ring, fromRing : Ring \cup {None}, fromRelease : Id0,
            add : SUBSET Pkg, remove : SUBSET Name, removeFrom : SUBSET (Source \X Name),
            removeArch : Arch \cup {None}, arch : Arch \cup {None}]

Promotes(q)  == q.fromRing # None
RollsBack(q) == q.fromRelease # 0

ASSUME StoreAssumption ==
    /\ Meta \in [Pkg -> [name : Name, source : Source, arch : Arch, key : Key]]
    /\ Requests \subseteq Request
    /\ CheckpointEvery \in Nat \ {0}
    /\ Keep \in Nat \ {0}
    /\ MaxReleases \in Nat
    /\ Serial \in BOOLEAN
    /\ None \notin Ring \cup Arch \cup Request

\* `arch` goes with from_ring or from_release_id (400 otherwise), and the
\* adds of a request that names remove_arch are of that architecture (404).
ASSUME RequestsAccepted ==
    \A q \in Requests : /\ q.arch # None => Promotes(q) \/ RollsBack(q)
                        /\ q.removeArch # None => \A p \in q.add : Meta[p].arch = q.removeArch

VARIABLES
    made,             \* rows of `releases`: ids 1 .. made (AUTOINCREMENT)
    releases,         \* table releases
    deltas,           \* table release_deltas
    releasePackages,  \* table release_packages: the rows of the checkpoints
    artifacts,        \* table release_artifacts, as (source, arch) pairs
    ringHeads,        \* table ring_heads
    ringPackages,     \* table ring_packages: what each ring serves now
    packages,         \* table packages: the index
    objects,          \* the package objects in R2
    databases,        \* the live pacman databases in R2: the packages each lists
    aged,             \* the packages older than the grace period
    held,             \* history: what each release was made to hold
    pc,               \* where each invocation stands
    my,               \* the local variables of each invocation
    gc                \* the retention job: where it stands and what it has read

store == <<made, releases, deltas, releasePackages, artifacts, ringHeads, ringPackages, held>>
pool  == <<packages, objects, aged>>
vars  == <<store, pool, databases, pc, my, gc>>

Release   == [ring : Ring \cup {None}, seq : 0 .. MaxReleases + 1, parent : Id0, source : Id0,
              checkpoint : BOOLEAN, summary : (SUBSET Pkg) \cup {None}]
NoRelease == [ring |-> None, seq |-> 0, parent |-> 0, source |-> 0,
              checkpoint |-> FALSE, summary |-> None]

\* Local variables: the request, the rows read so far, and the selection the
\* SQL will read: a ring's live rows (`live`) or a release's (`goal`).
Local == [work : {"none", "create", "summary", "read", "render"}, req : Requests \cup {None}, source : Id0, parent : Id0,
          seq : 0 .. MaxReleases + 1, due : BOOLEAN, live : Ring \cup {None}, goal : Id0,
          arch : Arch \cup {None}, chain : Seq(Id), rows : SUBSET Pkg]
Blank == [work |-> "none", req |-> None, source |-> 0, parent |-> 0, seq |-> 0, due |-> FALSE,
          live |-> None, goal |-> 0, arch |-> None, chain |-> <<>>, rows |-> {}]

GcIdle == [pc |-> "idle", todo |-> {}, protected |-> {}, kept |-> {}, bases |-> {}, victims |-> {}, victim |-> None]

Init ==
    /\ made = 0
    /\ releases = [i \in Id |-> NoRelease]
    /\ deltas = [i \in Id |-> [add |-> {}, remove |-> {}]]
    /\ releasePackages = [i \in Id |-> {}]
    /\ artifacts = [i \in Id |-> {}]
    /\ ringHeads = [r \in Ring |-> 0]
    /\ ringPackages = [r \in Ring |-> {}]
    /\ packages = Pkg
    /\ objects = Key
    /\ databases = [d \in Ring \X Source \X Arch |-> {}]
    /\ aged = {}
    /\ held = [i \in Id |-> {}]
    /\ pc = [p \in Proc |-> "idle"]
    /\ my = [p \in Proc |-> Blank]
    /\ gc = GcIdle

-----------------------------------------------------------------------------
(* The selections the SQL reads.                                           *)

Made         == 1 .. made
OfRing(r)    == {i \in Made : releases[i].ring = r}
IsHead(i)    == \E r \in Ring : ringHeads[r] = i
HeadRing(i)  == CHOOSE r \in Ring : ringHeads[r] = i
InArch(S, a) == {p \in S : Meta[p].arch = a}
SameSlot(p, q) == /\ Meta[p].name = Meta[q].name
                  /\ Meta[p].arch = Meta[q].arch
                  /\ Meta[p].source = Meta[q].source

\* COALESCE(MAX(seq), 0) + 1 of the ring
IsNextSeq(r, s) == /\ \A i \in OfRing(r) : releases[i].seq < s
                   /\ s = 1 \/ \E i \in OfRing(r) : releases[i].seq = s - 1

\* `remove` names every source's rows, `remove_from` one source's; both
\* within remove_arch when it is given.
Removed(q, p) ==
    /\ Meta[p].name \in q.remove \/ <<Meta[p].source, Meta[p].name>> \in q.removeFrom
    /\ q.removeArch # None => Meta[p].arch = q.removeArch

\* The target selection: the base without what is removed and without the
\* slots the adds take, plus the adds.
Target(q, base) ==
    {p \in base : ~Removed(q, p) /\ \A a \in q.add : ~SameSlot(a, p)} \cup q.add

\* Mutant: reads a head by its release rows, which only a checkpoint has.
RowsByRelease(live, goal) ==
    packages \cap (IF goal # 0 THEN releasePackages[goal]
                   ELSE IF live # None THEN ringPackages[live] ELSE {})

\* What the SQL built from releaseMembers lists, joined with packages.
Rows(live, goal) ==
    packages \cap (IF live # None THEN ringPackages[live]
                   ELSE IF goal # 0 THEN releasePackages[goal] ELSE {})

\* Mutant: one architecture of the source, and nothing of the other.
BaseOneArch(l) ==
    IF l.req.arch # None /\ l.parent # 0 /\ l.source # l.parent
    THEN InArch(Rows(l.live, l.goal), l.req.arch) ELSE Rows(l.live, l.goal)

\* baseSql: the source's rows, and with `arch` only that architecture of them
\* beside what the ring serves of the other.
Base(l) ==
    IF l.req.arch # None /\ l.parent # 0 /\ l.source # l.parent
    THEN InArch(Rows(l.live, l.goal), l.req.arch)
           \cup (ringPackages[l.req.ring] \ InArch(Pkg, l.req.arch))
    ELSE Rows(l.live, l.goal)

\* Mutants: a delta that records no removal, a replay that skips them.
DeltaAddsOnly(target, own) == [add |-> target \ own, remove |-> {}]
ApplyAddsOnly(rows, d) == rows \cup d.add

Delta(target, own) == [add |-> target \ own, remove |-> own \ target]
Apply(rows, d) == (rows \ d.remove) \cup d.add

\* The architecture a request is confined to: a release of its own ring
\* scoped by remove_arch, or a promotion of `arch` that edits nothing else.
Scoped(l) ==
    LET q == l.req
        untouched == q.remove = {} /\ q.removeFrom = {} /\ q.add = {}
    IN  IF l.parent # 0 /\ l.source \in {0, l.parent} THEN q.removeArch
        ELSE IF q.arch # None /\ (untouched \/ q.removeArch = q.arch) THEN q.arch
        ELSE None

\* Mutant: carries over the architecture the request is about as well.
UnchangedAll(l) == IF l.parent # 0 /\ Scoped(l) # None THEN Arch ELSE {}

\* The architectures whose artifact rows the new release takes from its parent.
Unchanged(l) == IF l.parent # 0 /\ Scoped(l) # None THEN Arch \ {Scoped(l)} ELSE {}

-----------------------------------------------------------------------------
(* Steps of an invocation p. A local record l goes with the label of the   *)
(* next await; an answer or an exception ends the invocation.              *)

Go(p, l, label) == my' = [my EXCEPT ![p] = l] /\ pc' = [pc EXCEPT ![p] = label]
Finish(p)       == Go(p, Blank, "idle")

\* With Serial, the schedule the callers aim at and nothing in the code
\* enforces: one writer per ring, and retention while nobody else is at work.
MayStart     == Serial => gc.pc = "idle"
MayWrite(r)  == Serial => \A p \in Proc : my[p].req # None => my[p].req.ring # r
MayCollect   == Serial => \A p \in Proc : pc[p] = "idle"

\* handleCreateRelease: reads the source's row (404 and 409 change nothing).
StartCreate(p, q) ==
    /\ pc[p] = "idle" /\ "create" \in Work /\ made < MaxReleases
    /\ MayStart /\ MayWrite(q.ring)
    /\ RollsBack(q) => q.fromRelease \in Made
    /\ ~RollsBack(q) /\ Promotes(q) => ringHeads[q.fromRing] # 0
    /\ LET source == IF RollsBack(q) THEN q.fromRelease
                     ELSE IF Promotes(q) THEN ringHeads[q.fromRing] ELSE 0
       IN  Go(p, [Blank EXCEPT !.work = "create", !.req = q, !.source = source], "parent")
    /\ UNCHANGED <<store, pool, databases, gc>>

ReadParent(p) ==
    /\ pc[p] = "parent"
    /\ Go(p, [my[p] EXCEPT !.parent = ringHeads[my[p].req.ring]], "seq")
    /\ UNCHANGED <<store, pool, databases, gc>>

\* The lookup of the adds (404 when one is not indexed), then the next seq.
ReadSeq(p) ==
    /\ pc[p] = "seq"
    /\ IF my[p].req.add \subseteq packages
       THEN \E s \in 1 .. made + 1 :
              IsNextSeq(my[p].req.ring, s) /\ Go(p, [my[p] EXCEPT !.seq = s], "base")
       ELSE Finish(p)
    /\ UNCHANGED <<store, pool, databases, gc>>

\* A source that is a head is read from its ring's live rows, another one
\* from its checkpoint rows, materialised first.
ChooseBase(p) ==
    /\ pc[p] = "base"
    /\ LET l == my[p]
       IN  IF l.source # 0 /\ l.source # l.parent
           THEN IF IsHead(l.source) THEN Go(p, [l EXCEPT !.live = HeadRing(l.source)], "last")
                                    ELSE Go(p, [l EXCEPT !.goal = l.source], "start")
           ELSE Go(p, [l EXCEPT !.live = IF l.parent # 0 THEN l.req.ring ELSE None], "last")
    /\ UNCHANGED <<store, pool, databases, gc>>

\* Mutant: takes the first number for the first release.
DueByNumber(l) ==
    \/ l.seq = 1
    \/ /\ l.seq >= CheckpointEvery
       /\ \A i \in OfRing(l.req.ring) :
            releases[i].checkpoint => l.seq - releases[i].seq >= CheckpointEvery

\* Is a checkpoint due: the ring's first release, and every CheckpointEvery.
Due(l) ==
    \/ l.parent = 0
    \/ /\ l.seq >= CheckpointEvery
       /\ \A i \in OfRing(l.req.ring) :
            releases[i].checkpoint => l.seq - releases[i].seq >= CheckpointEvery

ReadLastCheckpoint(p) ==
    /\ pc[p] = "last"
    /\ Go(p, [my[p] EXCEPT !.due = Due(my[p])], "batch")
    /\ UNCHANGED <<store, pool, databases, gc>>

\* Mutant: no UNIQUE (ring, seq).
BatchFailsNotOnSeq(l, target) == ~(target \subseteq packages)

\* The batch rolls back on UNIQUE (ring, seq), or on the foreign key of a row
\* whose package is no longer indexed.
BatchFails(l, target) ==
    \/ \E i \in OfRing(l.req.ring) : releases[i].seq = l.seq
    \/ ~(target \subseteq packages)

\* One transaction: the release row, its delta against the live rows, the
\* live rows and the head, the checkpoint, the artifact rows of the parent.
Batch(p) ==
    /\ pc[p] = "batch" /\ made < MaxReleases
    /\ LET l      == my[p]
           ring   == l.req.ring
           id     == made + 1
           target == Target(l.req, Base(l))
       IN  IF BatchFails(l, target)
           THEN Finish(p) /\ UNCHANGED store
           ELSE /\ made' = id
                /\ releases' = [releases EXCEPT ![id] =
                      [ring |-> ring, seq |-> l.seq, parent |-> l.parent, source |-> l.source,
                       checkpoint |-> l.due, summary |-> None]]
                /\ deltas' = [deltas EXCEPT ![id] = Delta(target, ringPackages[ring])]
                /\ ringPackages' = [ringPackages EXCEPT ![ring] = target]
                /\ ringHeads' = [ringHeads EXCEPT ![ring] = id]
                /\ releasePackages' = [releasePackages EXCEPT ![id] = IF l.due THEN target ELSE {}]
                /\ artifacts' = [artifacts EXCEPT ![id] =
                      IF l.parent = 0 THEN {}
                      ELSE {a \in artifacts[l.parent] : a[2] \in Unchanged(l)}]
                /\ held' = [held EXCEPT ![id] = target]
                /\ Go(p, [l EXCEPT !.work = "summary", !.live = None, !.goal = id], "members")
    /\ UNCHANGED <<pool, databases, gc>>

\* handleGetRelease of a pinned release, and of the head by a render job.
StartRead(p, i) ==
    /\ pc[p] = "idle" /\ "read" \in Work /\ MayStart
    /\ Go(p, [Blank EXCEPT !.work = "read", !.goal = i], "members")
    /\ UNCHANGED <<store, pool, databases, gc>>

StartRender(p, r, a) ==
    /\ pc[p] = "idle" /\ "render" \in Work /\ MayStart /\ ringHeads[r] # 0
    /\ Go(p, [Blank EXCEPT !.work = "render", !.goal = ringHeads[r], !.arch = a], "members")
    /\ UNCHANGED <<store, pool, databases, gc>>

-----------------------------------------------------------------------------
(* releaseMembers, ensureCheckpoint and releaseSummary. ensureCheckpoint's *)
(* own head lookup is left out: its callers have just found that the       *)
(* release is no head, and a release that is no head never is one again.   *)

\* Where a materialised release is wanted: the base of a new release, or rows.
AfterEnsure(l) == IF l.work = "create" THEN "last" ELSE "rows"

\* releaseMembers, and releaseSummary's test whether a summary is stored.
Members(p) ==
    /\ pc[p] = "members"
    /\ LET l == my[p]
       IN  IF l.work = "summary" /\ releases[l.goal].summary # None THEN Finish(p)
           ELSE IF IsHead(l.goal) THEN Go(p, [l EXCEPT !.live = HeadRing(l.goal)], "rows")
           ELSE Go(p, l, "start")
    /\ UNCHANGED <<store, pool, databases, gc>>

ReadStart(p) ==
    /\ pc[p] = "start"
    /\ LET l == my[p]
       IN  IF releases[l.goal].checkpoint THEN Go(p, l, AfterEnsure(l))
                                          ELSE Go(p, [l EXCEPT !.chain = <<l.goal>>], "walk")
    /\ UNCHANGED <<store, pool, databases, gc>>

\* One release further back (the chain is kept oldest first); throws at the
\* first release of the ring and past four checkpoint intervals.
Walk(p) ==
    /\ pc[p] = "walk"
    /\ LET l      == my[p]
           parent == releases[Head(l.chain)].parent
       IN  IF parent = 0 \/ Len(l.chain) >= 4 * CheckpointEvery THEN Finish(p)
           ELSE Go(p, [l EXCEPT !.chain = <<parent>> \o @],
                   IF releases[parent].checkpoint THEN "unwind" ELSE "walk")
    /\ UNCHANGED <<store, pool, databases, gc>>

ReadCheckpointRows(p) ==
    /\ pc[p] = "unwind"
    /\ LET l == my[p]
       IN  Go(p, [l EXCEPT !.rows = releasePackages[Head(l.chain)], !.chain = Tail(@)], "replay")
    /\ UNCHANGED <<store, pool, databases, gc>>

Replay(p) ==
    /\ pc[p] = "replay"
    /\ LET l == my[p]
       IN  Go(p, [l EXCEPT !.rows = Apply(@, deltas[Head(l.chain)]), !.chain = Tail(@)],
              IF Tail(l.chain) = <<>> THEN "save" ELSE "replay")
    /\ UNCHANGED <<store, pool, databases, gc>>

\* The batch that writes the rows and the flag; a foreign key can fail it.
SaveCheckpoint(p) ==
    /\ pc[p] = "save"
    /\ LET l == my[p]
       IN  IF l.rows \subseteq packages
           THEN /\ releasePackages' = [releasePackages EXCEPT ![l.goal] = @ \cup l.rows]
                /\ releases' = [releases EXCEPT ![l.goal].checkpoint = TRUE]
                /\ Go(p, [l EXCEPT !.rows = {}], AfterEnsure(l))
           ELSE Finish(p) /\ UNCHANGED <<releasePackages, releases>>
    /\ UNCHANGED <<made, deltas, artifacts, ringHeads, ringPackages, held, pool, databases, gc>>

\* The rows of the release: stored as its summary (package_count, bytes and
\* sources, computed from them), or answered to the reader or the render job.
ReadRows(p) ==
    /\ pc[p] = "rows"
    /\ LET l    == my[p]
           rows == Rows(l.live, l.goal)
       IN  CASE l.work = "summary" -> releases' = [releases EXCEPT ![l.goal].summary = rows] /\ Finish(p)
             [] l.work = "read"    -> UNCHANGED releases /\ Go(p, [l EXCEPT !.rows = rows], "answered")
             [] OTHER              -> UNCHANGED releases /\ Go(p, [l EXCEPT !.rows = InArch(rows, l.arch)], "put")
    /\ UNCHANGED <<made, deltas, releasePackages, artifacts, ringHeads, ringPackages, held,
                   pool, databases, gc>>

\* After the manifests, handleGetRelease takes the release's summary.
Answer(p) ==
    /\ pc[p] = "answered"
    /\ Go(p, [my[p] EXCEPT !.work = "summary", !.live = None, !.rows = {}], "members")
    /\ UNCHANGED <<store, pool, databases, gc>>

\* handlePutArtifact: one source's database overwrites the one at the live
\* key, and the release gets its artifact row.
PutDatabase(p, s) ==
    /\ pc[p] = "put"
    /\ LET l     == my[p]
           ofSrc == {x \in l.rows : Meta[x].source = s}
       IN  /\ ofSrc # {}
           /\ databases' = [databases EXCEPT ![<<releases[l.goal].ring, s, l.arch>>] = ofSrc]
           /\ artifacts' = [artifacts EXCEPT ![l.goal] = @ \cup {<<s, l.arch>>}]
           /\ Go(p, [l EXCEPT !.rows = @ \ ofSrc], "put")
    /\ UNCHANGED <<made, releases, deltas, releasePackages, ringHeads, ringPackages, held, pool, gc>>

\* Every database is written; or the runtime ends an invocation between two
\* awaits (a CPU limit, a lost connection, a dead worker).
End(p) ==
    /\ pc[p] # "idle"
    /\ Finish(p)
    /\ UNCHANGED <<store, pool, databases, gc>>

-----------------------------------------------------------------------------
(* handleGc: what retention protects is read ring by ring, the victims are *)
(* selected, then the rows, flags and deltas are dropped, then the victims *)
(* go one by one, the object first and the index row after it.             *)

\* The last Keep releases of the ring.
Protected(r) == {i \in OfRing(r) :
                   Cardinality({j \in OfRing(r) : releases[j].seq > releases[i].seq}) < Keep}

\* Mutant: the newest checkpoint of the ring.
KeptBaseNewest(r) ==
    {b \in OfRing(r) : /\ releases[b].checkpoint
                       /\ \A c \in OfRing(r) : releases[c].checkpoint => releases[c].seq <= releases[b].seq}

\* The newest checkpoint at or before the oldest protected release.
KeptBase(r) ==
    LET behind == {b \in OfRing(r) : /\ releases[b].checkpoint
                                     /\ \A i \in Protected(r) : releases[b].seq <= releases[i].seq}
    IN  {b \in behind : \A c \in behind : releases[c].seq <= releases[b].seq}

GcStart ==
    /\ gc.pc = "idle" /\ "gc" \in Work /\ MayCollect
    /\ gc' = [GcIdle EXCEPT !.pc = "retain", !.todo = Ring]
    /\ UNCHANGED <<store, pool, databases, pc, my>>

GcRetain(r) ==
    /\ gc.pc = "retain" /\ r \in gc.todo
    /\ gc' = [gc EXCEPT !.todo = @ \ {r},
                        !.pc = IF gc.todo = {r} THEN "select" ELSE "retain",
                        !.protected = @ \cup Protected(r),
                        !.kept = @ \cup {i \in Protected(r) : releases[i].checkpoint} \cup KeptBase(r),
                        !.bases = @ \cup KeptBase(r)]
    /\ UNCHANGED <<store, pool, databases, pc, my>>

Pinned == UNION {ringPackages[r] : r \in Ring}

Unreferenced ==
    {p \in packages \cap aged :
        /\ p \notin Pinned
        /\ \A i \in gc.protected : p \notin deltas[i].add \cup deltas[i].remove
        /\ \A i \in gc.kept : p \notin releasePackages[i]}

GcSelect ==
    /\ gc.pc = "select"
    /\ gc' = [gc EXCEPT !.pc = "rows", !.victims = Unreferenced]
    /\ UNCHANGED <<store, pool, databases, pc, my>>

GcRows ==
    /\ gc.pc = "rows"
    /\ releasePackages' = [i \in Id |-> IF i \in gc.kept THEN releasePackages[i] ELSE {}]
    /\ gc' = [gc EXCEPT !.pc = "flags"]
    /\ UNCHANGED <<made, releases, deltas, artifacts, ringHeads, ringPackages, held,
                   pool, databases, pc, my>>

GcFlags ==
    /\ gc.pc = "flags"
    /\ releases' = [i \in Id |-> [releases[i] EXCEPT !.checkpoint = @ /\ i \in gc.kept]]
    /\ gc' = [gc EXCEPT !.pc = "deltas"]
    /\ UNCHANGED <<made, deltas, releasePackages, artifacts, ringHeads, ringPackages, held,
                   pool, databases, pc, my>>

Forgotten(i) == \E b \in gc.bases : /\ releases[i].ring = releases[b].ring
                                    /\ releases[i].seq <= releases[b].seq

\* One statement per ring; no reconstruction reads the deltas of two rings.
GcDeltas ==
    /\ gc.pc = "deltas"
    /\ deltas' = [i \in Id |-> IF Forgotten(i) THEN [add |-> {}, remove |-> {}] ELSE deltas[i]]
    /\ gc' = [gc EXCEPT !.pc = "victims"]
    /\ UNCHANGED <<made, releases, releasePackages, artifacts, ringHeads, ringPackages, held,
                   pool, databases, pc, my>>

\* Mutant: takes every key for a key of its own.
SharedNever(v) == FALSE

\* The object goes unless another row of the index names the same key.
Shared(v) == \E p \in packages \ {v} : Meta[p].key = Meta[v].key

GcObject(v) ==
    /\ gc.pc = "victims" /\ v \in gc.victims
    /\ objects' = IF Shared(v) THEN objects ELSE objects \ {Meta[v].key}
    /\ gc' = [gc EXCEPT !.pc = "row", !.victim = v]
    /\ UNCHANGED <<store, packages, aged, databases, pc, my>>

\* The delete of the index row; a foreign key from ring_packages or
\* release_packages fails it, and the job with it.
GcRow ==
    /\ gc.pc = "row"
    /\ IF gc.victim \in Pinned \cup (UNION {releasePackages[i] : i \in Id})
       THEN gc' = GcIdle /\ UNCHANGED packages
       ELSE /\ packages' = packages \ {gc.victim}
            /\ gc' = [gc EXCEPT !.pc = "victims", !.victims = @ \ {gc.victim}, !.victim = None]
    /\ UNCHANGED <<store, objects, aged, databases, pc, my>>

\* Every victim is gone; or `limit`, or the runtime, ends the job earlier.
GcEnd ==
    /\ gc.pc # "idle"
    /\ gc' = GcIdle
    /\ UNCHANGED <<store, pool, databases, pc, my>>

GcStep == \/ GcStart \/ GcSelect \/ GcRows \/ GcFlags \/ GcDeltas \/ GcRow \/ GcEnd
          \/ \E r \in Ring : GcRetain(r)
          \/ \E v \in Pkg : GcObject(v)

\* Every package imported at the start has outlived the grace period, which
\* only the retention job asks about.
GracePasses ==
    /\ "gc" \in Work /\ aged # Pkg
    /\ aged' = Pkg
    /\ UNCHANGED <<store, packages, objects, databases, pc, my, gc>>

Create(p) == \/ \E q \in Requests : StartCreate(p, q)
             \/ ReadParent(p) \/ ReadSeq(p) \/ ChooseBase(p) \/ ReadLastCheckpoint(p) \/ Batch(p)

Membership(p) == Members(p) \/ ReadStart(p) \/ Walk(p) \/ ReadCheckpointRows(p) \/ Replay(p)
                   \/ SaveCheckpoint(p) \/ ReadRows(p)

Read(p) == (\E i \in Made : StartRead(p, i)) \/ Answer(p)

Render(p) == \/ \E r \in Ring, a \in Arch : StartRender(p, r, a)
             \/ \E s \in Source : PutDatabase(p, s)

Next == \/ \E p \in Proc : Create(p) \/ Membership(p) \/ Read(p) \/ Render(p) \/ End(p)
        \/ GcStep
        \/ GracePasses

\* Any interleaving that Serial leaves: all of them, unless it is TRUE.
Spec == Init /\ [][Next]_vars

-----------------------------------------------------------------------------
(* Properties.                                                             *)

Labels == {"idle", "parent", "seq", "base", "last", "batch", "members", "start", "walk",
           "unwind", "replay", "save", "rows", "answered", "put"}
GcState == [pc : {"idle", "retain", "select", "rows", "flags", "deltas", "victims", "row"},
            todo : SUBSET Ring, protected : SUBSET Id, kept : SUBSET Id, bases : SUBSET Id,
            victims : SUBSET Pkg, victim : Pkg \cup {None}]

\* The tables, and the local variables of invocations and of the retention
\* job, hold what their columns and the awaits that read them may give.
TablesOK ==
    /\ made \in Id0
    /\ releases \in [Id -> Release]
    /\ deltas \in [Id -> [add : SUBSET Pkg, remove : SUBSET Pkg]]
    /\ releasePackages \in [Id -> SUBSET Pkg]
    /\ artifacts \in [Id -> SUBSET (Source \X Arch)]
    /\ ringHeads \in [Ring -> Id0]
    /\ ringPackages \in [Ring -> SUBSET Pkg]
    /\ packages \subseteq Pkg
    /\ objects \subseteq Key
    /\ databases \in [Ring \X Source \X Arch -> SUBSET Pkg]
    /\ aged \subseteq Pkg
    /\ held \in [Id -> SUBSET Pkg]

TypeOK ==
    /\ TablesOK
    /\ pc \in [Proc -> Labels]
    /\ my \in [Proc -> Local]
    /\ gc \in GcState

LastSeq(r) == IF ringHeads[r] = 0 THEN 0 ELSE releases[ringHeads[r]].seq

\* A ring's releases are numbered without a gap or a duplicate, in the order
\* they were made, its head is the last of them, and its live rows are exactly
\* what that release was made to hold, however the invocations of
\* handleCreateRelease overlap.
LiveIsHead ==
    \A r \in Ring :
        /\ {releases[i].seq : i \in OfRing(r)} = 1 .. LastSeq(r)
        /\ \A i, j \in OfRing(r) : i < j => releases[i].seq < releases[j].seq
        /\ ringHeads[r] = 0 => ringPackages[r] = {}
        /\ ringHeads[r] # 0 => ringHeads[r] \in OfRing(r) /\ ringPackages[r] = held[ringHeads[r]]

\* A delta is what its release changed against the release that was head
\* before it in the ring, or retention has emptied it.
DeltaExact ==
    \A i, j \in Made :
        releases[i].ring = releases[j].ring /\ releases[i].seq = releases[j].seq + 1
            => deltas[i] \in {[add |-> held[i] \ held[j], remove |-> held[j] \ held[i]],
                              [add |-> {}, remove |-> {}]}

\* What the rows of the store say release i holds: a checkpoint's rows, or
\* its parent's selection with its delta applied.
CanRebuild[i \in Id] ==
    releases[i].checkpoint \/ (releases[i].parent # 0 /\ CanRebuild[releases[i].parent])
Rebuilt[i \in Id] ==
    IF releases[i].checkpoint THEN releasePackages[i]
    ELSE IF releases[i].parent = 0 THEN {} ELSE Apply(Rebuilt[releases[i].parent], deltas[i])

\* No release is ever made that has no checkpoint behind it, although the head
\* is read for its parent in one await, its number in a later one and the
\* checkpoints in a third, and a ring's second release may have no parent.
AllCanRebuild == \A i \in Made : CanRebuild[i]

\* Any release that has a checkpoint behind it is reconstructed exactly
\* (migration 0017).
RebuildExact == \A i \in Made : CanRebuild[i] => Rebuilt[i] = held[i]

\* Every release inside retention can be rebuilt, comes out exactly as it was
\* made, and every package of it is indexed: a rollback inside retention
\* finds all it needs, also while the job is at work.
RetainedIntact ==
    \A r \in Ring : \A i \in Protected(r) :
        CanRebuild[i] /\ Rebuilt[i] = held[i] /\ held[i] \subseteq packages

\* No step takes an object that a release inside retention holds, although
\* the object is named by a key that other index rows may share.
RetainedObjectsKept ==
    [][\A r \in Ring : \A i \in Protected(r) : \A p \in held[i] :
         Meta[p].key \in objects => Meta[p].key \in objects']_vars

\* A reader of a release gets what the release was made to hold.
ReadExact ==
    \A p \in Proc : pc[p] = "answered" => my[p].rows = held[my[p].goal]

\* The summary kept on a release row is that of its own selection.
SummaryExact ==
    \A i \in Made : releases[i].summary \in {None, held[i]}

\* An artifact row of a ring's head vouches for the database at the live key:
\* it lists what the head holds of that source and architecture, also when
\* the row was carried over from the parent.
ArtifactsCurrent ==
    \A r \in Ring : ringHeads[r] # 0 =>
        \A a \in artifacts[ringHeads[r]] :
            databases[<<r, a[1], a[2]>>]
                = {p \in held[ringHeads[r]] : Meta[p].source = a[1] /\ Meta[p].arch = a[2]}

\* The store of deltas and checkpoints implements the store of full copies:
\* read through its rows, the history is append-only, and every release is
\* the edit of the selection its request started from.
Recorded(i) == IF IsHead(i) THEN ringPackages[HeadRing(i)] ELSE Rebuilt[i]

Promise == INSTANCE RingHistory WITH selections <- [i \in Made |-> Recorded(i)],
                                     serves <- ringHeads
History == Promise!Spec

=============================================================================
