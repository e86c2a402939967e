---------------------------- MODULE PoolObjects ----------------------------
(***************************************************************************)
(* The objects of the pool and the index over them                         *)
(* (worker/src/routes/pool.ts, packages.ts, relayout.ts, setup.ts, r2.ts,  *)
(* signing.ts), with the jobs that store them: the sync of an upstream     *)
(* source and the publish of a build (crates/pkg-repo/src/sync.rs, ops.rs, *)
(* client.rs), and the job that moves the flat layout into one directory   *)
(* per source (work.rs).                                                   *)
(*                                                                         *)
(* A build is its sha256. Reads of a bucket or a table that a later write  *)
(* relies on are actions of their own; whoever works may stop at any step. *)
(***************************************************************************)
EXTENDS Integers, Sequences, FiniteSets

CONSTANTS
    Client,      \* jobs that publish
    Build,       \* the builds
    Upstream,    \* the sources that are synced
    Size,        \* [Build -> Nat]: bytes of the archive
    Large,       \* the builds above 90 MB: they are uploaded in parts
    NameOf,      \* file name -> package name
    Deployments, \* the systems to start from: see `env`
    PageSize,    \* rows of one call of the copy (40)
    MaxFaults,   \* bound: jobs and invocations that end early
    None         \* null

Flat    == "flat"
Factory == "factory"

\* What a job stores, and the row of the index that it becomes.
Offered == [sha : Build, source : Upstream \cup {Factory}, arch : STRING, file : STRING]
Row     == [sha : Build, source : Upstream \cup {Factory}, arch : STRING, file : STRING,
            dir : {"own", "flat", "ghost", "null"}, signed : BOOLEAN, whole : BOOLEAN]

\* "flat" is the directory of no source, and null no build. The systems to
\* start from have rows in the columns of the table, and rings that reference
\* them (ring_packages.package_id).
ASSUME PoolAssumption ==
    /\ Flat \notin Upstream /\ None \notin Build
    /\ \A d \in Deployments :
         /\ d.offers \subseteq Offered
         /\ d.rows \in Seq(Row)
         /\ \A r \in DOMAIN d.rings : d.rings[r] \subseteq DOMAIN d.rows

VARIABLES
    env,      \* who is at work, what is offered, and the tables at the start
    objects,  \* bucket: key -> [bytes, sum], sum: R2 knows the sha256
    sigs,     \* bucket: key of an object -> the build its .sig is a signature of
    rows,     \* table packages
    rings,    \* table ring_packages: ring -> ids
    client,   \* the jobs: where they are, with what, and the row they will pin
    move,     \* the relayout job
    faults

bucket   == <<objects, sigs>>
poolVars == <<env, objects, sigs, rows, rings, client, move, faults>>

Absent == [bytes |-> None, sum |-> FALSE]
Resting == [pc |-> "idle", offer |-> None, row |-> 0, sha |-> None]
Parked == [pc |-> "idle", page |-> <<>>, moved |-> FALSE, arches |-> {}]

PoolInit ==
    /\ env \in Deployments
    /\ objects = env.objects
    /\ sigs = env.sigs
    /\ rows = env.rows
    /\ rings = env.rings
    /\ client = [c \in Client |-> Resting]
    /\ move = Parked
    /\ faults = 0

Works(what) == what \in env.work
Id == DOMAIN rows

\* A place is a source, an architecture and a file name; a row of the index
\* is a build at a place, `dir` telling where its r2_key points.
packageKey(o) == <<o.source, o.arch, o.file>>
flatKey(o)    == <<Flat, o.arch, o.file>>
r2_key(r)     == IF r.dir = "own" THEN packageKey(r) ELSE flatKey(r)

SamePlace(o, r) == packageKey(o) = packageKey(r)
LeastOf(S)      == CHOOSE i \in S : \A j \in S : i <= j
IdsOf(sha)      == {i \in Id : rows[i].sha = sha}

-----------------------------------------------------------------------------
(* What is known: by content, and by the file name a source stored.        *)

\* A sync asks for its architecture, a publish for the build alone.
known(o) == {i \in IdsOf(o.sha) : o.source = Factory \/ rows[i].arch = o.arch}

\* Mutant: only what is in its own directory collides.
MovedAtPlace(o) == {i \in Id : SamePlace(o, rows[i]) /\ rows[i].dir = "own"}

\* r2_key NOT LIKE 'ghost/%', which a null key is not either.
AtPlace(o) == {i \in Id : SamePlace(o, rows[i]) /\ rows[i].dir \notin {"ghost", "null"}}
by_filename(o) == IF AtPlace(o) = {} THEN 0 ELSE LeastOf(AtPlace(o))

-----------------------------------------------------------------------------
(* A job that publishes one build: ask, upload, sign, index, pin.          *)

At(c, pc)      == client[c].pc = pc
Offer(c)       == client[c].offer
Goes(c, pc)    == client' = [client EXCEPT ![c].pc = pc]
Pins(c, i)     == client' = [client EXCEPT ![c].pc = "pin", ![c].row = i]
GivesUp(c)     == client' = [client EXCEPT ![c] = Resting]

\* Two tasks of one source and architecture do not overlap while leases hold.
Rivals(c, o) == {d \in Client \ {c} : /\ client[d].pc # "idle"
                                     /\ Offer(d).source = o.source /\ Offer(d).arch = o.arch}

Ask(c, o) ==
    /\ At(c, "idle") /\ Works("publish") /\ (env.serial => Rivals(c, o) = {})
    /\ LET there == by_filename(o)
           next(pc, i) == client' = [client EXCEPT ![c] = [Resting EXCEPT !.pc = pc, !.offer = o, !.row = i]]
       IN  IF there # 0 /\ rows[there].sha # o.sha THEN next("pin", there)
           ELSE IF known(o) # {} THEN next("pin", LeastOf(known(o)))
           ELSE next("head", 0)
    /\ UNCHANGED <<env, bucket, rows, rings, move, faults>>

\* handlePutPool and handleMultipartCreate: an object that is there is kept.
FindObject(c) ==
    /\ At(c, "head")
    /\ Goes(c, IF objects[packageKey(Offer(c))] = Absent THEN "put" ELSE "sign")
    /\ UNCHANGED <<env, bucket, rows, rings, move, faults>>

\* The body has arrived, and R2 has checked its sum; the parts of a large one
\* have no sum.
Put(c) ==
    /\ At(c, "put")
    /\ objects' = [objects EXCEPT ![packageKey(Offer(c))] = [bytes |-> Offer(c).sha, sum |-> Offer(c).sha \notin Large]]
    /\ Goes(c, "sign")
    /\ UNCHANGED <<env, sigs, rows, rings, move, faults>>

\* "A signature belongs to exact bytes."
Signable(o) == /\ objects[packageKey(o)] # Absent
               /\ objects[packageKey(o)].sum => objects[packageKey(o)].bytes = o.sha

\* The signature the upstream ships, or, for a build of the pool's own
\* (handleSignPool, detachedSignature), one of the bytes that are stored.
Sign(c) ==
    /\ At(c, "sign")
    /\ IF Signable(Offer(c))
       THEN client' = [client EXCEPT ![c].pc = "sig",
                ![c].sha = IF Offer(c).source = Factory THEN objects[packageKey(Offer(c))].bytes ELSE Offer(c).sha]
       ELSE GivesUp(c)
    /\ UNCHANGED <<env, bucket, rows, rings, move, faults>>

PutSig(c) ==
    /\ At(c, "sig")
    /\ sigs' = [sigs EXCEPT ![packageKey(Offer(c))] = client[c].sha]
    /\ Goes(c, "flag")
    /\ UNCHANGED <<env, objects, rows, rings, move, faults>>

Flag(c) ==
    /\ At(c, "flag")
    /\ rows' = [i \in Id |-> [rows[i] EXCEPT !.signed = @ \/ (rows[i].sha = Offer(c).sha /\ rows[i].arch = Offer(c).arch)]]
    /\ Goes(c, "index")
    /\ UNCHANGED <<env, bucket, rings, move, faults>>

\* Mutant: any object under the name will do.
FitsAny(o) == objects[packageKey(o)] # Absent

Fits(o) == /\ objects[packageKey(o)] # Absent
           /\ Size[objects[packageKey(o)].bytes] = Size[o.sha]

\* handlePostPackage up to the row; a second row of the build is refused.
Index(c) ==
    /\ At(c, "index")
    /\ LET o == Offer(c)
       IN  IF ~Fits(o) \/ \E i \in IdsOf(o.sha) : rows[i].arch # o.arch
           THEN GivesUp(c) /\ UNCHANGED rows
           ELSE IF IdsOf(o.sha) # {} THEN Pins(c, LeastOf(IdsOf(o.sha))) /\ UNCHANGED rows
           ELSE /\ rows' = Append(rows, [sha |-> o.sha, source |-> o.source, arch |-> o.arch, file |-> o.file, dir |-> "own",
                                         signed |-> sigs[packageKey(o)] # None, whole |-> FALSE])
                /\ Goes(c, "rest")
    /\ UNCHANGED <<env, bucket, rings, move, faults>>

\* ... and its file list, provides, requires and components.
Complete(c) ==
    /\ At(c, "rest")
    /\ LET i == LeastOf(IdsOf(Offer(c).sha))
       IN  rows' = [rows EXCEPT ![i].whole = TRUE] /\ Pins(c, i)
    /\ UNCHANGED <<env, bucket, rings, move, faults>>

\* The release: the row takes the slot of its source, architecture and name.
Slot(i)     == <<rows[i].source, rows[i].arch, NameOf[rows[i].file]>>
With(S, i)  == {j \in S : Slot(j) # Slot(i)} \cup {i}

Pin(c) ==
    /\ At(c, "pin")
    /\ rings' = [rings EXCEPT !["edge"] = With(@, client[c].row)]
    /\ GivesUp(c)
    /\ UNCHANGED <<env, bucket, rows, move, faults>>

\* The job dies, or the invocation that serves it does and the client asks again.
ClientEnds(c) ==
    /\ ~At(c, "idle") /\ faults < MaxFaults
    /\ faults' = faults + 1
    /\ GivesUp(c) \/ (At(c, "rest") /\ Goes(c, "index"))
    /\ UNCHANGED <<env, bucket, rows, rings, move>>

Publishes(c) == \/ \E o \in env.offers : Ask(c, o)
                \/ FindObject(c) \/ Put(c) \/ Sign(c) \/ PutSig(c) \/ Flag(c) \/ Index(c) \/ Complete(c) \/ Pin(c) \/ ClientEnds(c)

-----------------------------------------------------------------------------
(* The relayout: a page of rows at a time, the rows of a page side by side.*)

\* Mutant: a ghost is still to be moved.
UNMOVEDGhosts == {i \in Id : rows[i].dir # "own"}

\* UNMOVED: neither in the directory of the source nor a ghost.
UNMOVED == {i \in Id : rows[i].dir \in {"flat", "null"}}

Step(i, s) == move' = [move EXCEPT !.page[i] = s]
\* The row is done with.
Leave(i, done) == move' = [move EXCEPT !.page = [j \in (DOMAIN @) \ {i} |-> @[j]], !.moved = @ \/ done]
Moves(i, s) == move.pc = "copy" /\ i \in DOMAIN move.page /\ move.page[i] = s

\* POST /pool/relayout?phase=copy: null keys are written out, and the first
\* rows that have not moved are the page. The job goes on while pages move
\* something; it stalls on one that does not, and renders after the last.
CopyPage ==
    /\ Works("relayout") /\ move.pc \in {"idle", "copy"} /\ DOMAIN move.page = {}
    /\ rows' = [i \in Id |-> [rows[i] EXCEPT !.dir = IF @ = "null" THEN "flat" ELSE @]]
    /\ IF UNMOVED = {} THEN move' = [Parked EXCEPT !.pc = "render"]
       ELSE IF move.pc = "copy" /\ ~move.moved THEN move' = Parked
       ELSE LET page == {i \in UNMOVED : Cardinality({j \in UNMOVED : j < i}) < PageSize}
            IN  move' = [Parked EXCEPT !.pc = "copy", !.page = [i \in page |-> "object"]]
    /\ UNCHANGED <<env, bucket, rings, client, faults>>

Present(there, sha) == there.bytes = sha \/ ~there.sum

\* copyObject: the reads.
CopyObject(i) ==
    /\ Moves(i, "object")
    /\ LET there == objects[packageKey(rows[i])]
           from  == objects[r2_key(rows[i])]
       IN  IF there # Absent THEN Step(i, IF Present(there, rows[i].sha) THEN "sides" ELSE "ghost")
           ELSE IF from = Absent THEN Leave(i, FALSE)
           ELSE Step(i, IF from.sum /\ from.bytes # rows[i].sha THEN "ghost" ELSE "copy")
    /\ UNCHANGED <<env, bucket, rows, rings, client, faults>>

\* The put is checked against the row's sum.
Copies(i) == objects[r2_key(rows[i])].bytes = rows[i].sha

CopyPut(i) ==
    /\ Moves(i, "copy")
    /\ objects' = IF Copies(i) THEN [objects EXCEPT ![packageKey(rows[i])] = [bytes |-> objects[r2_key(rows[i])].bytes, sum |-> TRUE]]
                  ELSE objects
    /\ Step(i, IF Copies(i) THEN "sides" ELSE "ghost")
    /\ UNCHANGED <<env, sigs, rows, rings, client, faults>>

CopySides(i) ==
    /\ Moves(i, "sides")
    /\ sigs' = [sigs EXCEPT ![packageKey(rows[i])] = IF @ # None THEN @ ELSE sigs[r2_key(rows[i])]]
    /\ Step(i, "key")
    /\ UNCHANGED <<env, objects, rows, rings, client, faults>>

SetKey(i) ==
    /\ Moves(i, "key") \/ Moves(i, "ghost")
    /\ rows' = [rows EXCEPT ![i].dir = IF Moves(i, "key") THEN "own" ELSE "ghost"]
    /\ Leave(i, TRUE)
    /\ UNCHANGED <<env, bucket, rings, client, faults>>

\* Every ring's databases are rendered, in the directories of the sources.
RenderAll ==
    /\ move.pc = "render"
    /\ move' = [move EXCEPT !.pc = "purge", !.arches = {key[2] : key \in DOMAIN objects}]
    /\ UNCHANGED <<env, bucket, rows, rings, client, faults>>

MayPurge == UNMOVED = {}

\* phase=purge: what is left of one flat directory.
Purge(a) ==
    /\ move.pc = "purge" /\ a \in move.arches
    /\ LET gone == {key \in DOMAIN objects : MayPurge /\ key[1] = Flat /\ key[2] = a}
       IN  /\ objects' = [key \in DOMAIN objects |-> IF key \in gone THEN Absent ELSE objects[key]]
           /\ sigs' = [key \in DOMAIN sigs |-> IF key \in gone THEN None ELSE sigs[key]]
    /\ move' = IF move.arches = {a} \/ ~MayPurge THEN Parked ELSE [move EXCEPT !.arches = @ \ {a}]
    /\ UNCHANGED <<env, rows, rings, client, faults>>

\* The job dies, or the invocation that copies a page, and what is written stays.
MoveEnds ==
    /\ move.pc # "idle" /\ faults < MaxFaults
    /\ faults' = faults + 1
    /\ move' = Parked
    /\ UNCHANGED <<env, bucket, rows, rings, client>>

Copying == \/ CopyPage \/ RenderAll
           \/ \E i \in Id : CopyObject(i) \/ CopyPut(i) \/ CopySides(i) \/ SetKey(i)
           \/ \E a \in move.arches : Purge(a)

-----------------------------------------------------------------------------
(* Properties.                                                             *)

\* pacmanInclude names the source's directory, and the flat one second while
\* a row has not moved: where pacman finds a package of a ring, if anywhere.
Fetched(i) ==
    IF objects[packageKey(rows[i])] # Absent THEN objects[packageKey(rows[i])].bytes
    ELSE IF UNMOVED # {} THEN objects[flatKey(rows[i])].bytes ELSE None

\* Whatever upstream rebuilds, jobs die and are tried again: an index row that
\* points into its source's directory names an object with the row's own
\* bytes, and one said to be signed has a signature of those bytes beside it
\* (pool.ts: "a signature of a rebuild with different content would break
\* verification of what is actually served"). Seal!Orderly says of which systems.
RowsNameTheirBytes ==
    \A i \in Id : rows[i].dir = "own" =>
        LET key == packageKey(rows[i])
        IN  objects[key].bytes = rows[i].sha /\ (rows[i].signed => sigs[key] = rows[i].sha)

\* A package that pacman can fetch stays one while the layout moves under the
\* syncs and publishes, and after the flat directory is gone ("a package not
\* yet moved is still found", relayout.ts and setup.ts), of the same systems.
FetchableStays ==
    [][\A i \in Id : Fetched(i) = rows[i].sha => Fetched(i)' = rows[i].sha]_poolVars

=============================================================================
