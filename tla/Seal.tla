-------------------------------- MODULE Seal --------------------------------
(***************************************************************************)
(* From a project build to the seal of the object it becomes               *)
(* (worker/src/routes/seal.ts, the staging routes of contributors.ts, and  *)
(* what factory.ts and review.ts do with the bytes): a worker builds into  *)
(* staging or, from main, into the pool; a maintainer approves what is     *)
(* staged; the publish job carries the package over; and the attestation   *)
(* is written beside the object. JobQueue has the queue's own  *)
(* interleavings: here what it does with one build is one step.            *)
(*                                                                         *)
(* All builds are of one file. An attempt at one is the bytes it made.     *)
(***************************************************************************)
EXTENDS PoolObjects

\* The build tasks of a system: for review or from main, and the bytes that
\* attempts at them make.
ASSUME SealAssumption ==
    \A d \in Deployments : d.builds \in Seq([review : BOOLEAN, bytes : SUBSET Build, arch : STRING, file : STRING])

VARIABLES
    builds,    \* rows of build_tasks
    staging,   \* the package each has in staging
    puts,      \* uploads under way: <<build, bytes>>, past their guards
    approved,  \* table approvals: the builds a maintainer decided to publish
    publish,   \* the publish jobs that are not over: their builds
    jobs,      \* what each job of Client carries into the pool, and how far it is
    attested   \* <object>.provenance.json: the bytes it is of, and the chain

sealVars == <<builds, staging, puts, approved, publish, jobs, attested>>

NoJob == [build |-> 0, sha |-> None, pc |-> "none"]
NewBuild == [status |-> "queued", holder |-> None, result |-> None]

SealInit ==
    /\ builds = [t \in DOMAIN env.builds |-> NewBuild]
    /\ staging = [t \in DOMAIN env.builds |-> None]
    /\ puts = {} /\ approved = {} /\ publish = {}
    /\ jobs = [c \in Client |-> NoJob]
    /\ attested = None

BuildId    == DOMAIN builds
InState(s) == {t \in BuildId : builds[t].status = s}
Held(t, b) == builds[t].status = "leased" /\ builds[t].holder = b

-----------------------------------------------------------------------------
(* A build, and its staging.                                               *)

\* An attempt is named by the bytes it makes.
Lease(t, b) ==
    /\ t \in InState("queued") /\ b \in env.builds[t].bytes
    /\ builds' = [builds EXCEPT ![t].status = "leased", ![t].holder = b]
    /\ UNCHANGED <<poolVars, staging, puts, approved, publish, jobs, attested>>

\* The lease runs out and the task is queued again; its worker goes on.
Lapse(t) ==
    /\ t \in InState("leased") /\ faults < MaxFaults
    /\ builds' = [builds EXCEPT ![t] = NewBuild]
    /\ faults' = faults + 1
    /\ UNCHANGED <<env, bucket, rows, rings, client, move, staging, puts, approved, publish, jobs, attested>>

\* stagingOwner: a build for review has a space, one from main has none.
stagingOwner(t) == IF env.builds[t].review THEN "@project" ELSE None

\* handleStagingPut, handleStagingMultipart: under the lease ...
StagingPut(t, b) ==
    /\ stagingOwner(t) # None /\ Held(t, b) /\ staging[t] # b
    /\ puts' = puts \cup {<<t, b>>}
    /\ UNCHANGED <<poolVars, builds, staging, approved, publish, jobs, attested>>

\* ... which is not looked at again when the body has arrived.
StagingStored(t, b) ==
    /\ <<t, b>> \in puts
    /\ puts' = puts \ {<<t, b>>}
    /\ staging' = [staging EXCEPT ![t] = b]
    /\ UNCHANGED <<poolVars, builds, approved, publish, jobs, attested>>

\* handleComplete of a review build; it supersedes the staged ones before it.
Staged(t, b) ==
    /\ stagingOwner(t) # None /\ Held(t, b) /\ staging[t] # None /\ <<t, b>> \notin puts
    /\ builds' = [u \in BuildId |->
         IF u = t THEN [status |-> "staged", holder |-> None, result |-> b]
         ELSE [builds[u] EXCEPT !.status = IF u < t /\ @ = "staged" THEN "cancelled" ELSE @]]
    /\ UNCHANGED <<poolVars, staging, puts, approved, publish, jobs, attested>>

\* handleApprove and handleReject, of a build that is staged when they look.
Approve(t) ==
    /\ t \in InState("staged") \ approved
    /\ approved' = approved \cup {t} /\ publish' = publish \cup {t}
    /\ UNCHANGED <<poolVars, builds, staging, puts, jobs, attested>>

Reject(t) ==
    /\ t \in InState("staged")
    /\ builds' = [builds EXCEPT ![t].status = "cancelled"]
    /\ UNCHANGED <<poolVars, staging, puts, approved, publish, jobs, attested>>

-----------------------------------------------------------------------------
(* Into the pool, as PoolObjects has it, and the report.                   *)

Built(sha) == [sha |-> sha, source |-> Factory, arch |-> env.builds[1].arch, file |-> env.builds[1].file]
Carried(t) == \E c \in Client : jobs[c].build = t

\* publish_job takes what is in staging; a build from main publishes its own.
Carry(c, t, sha) ==
    /\ ~Carried(t) /\ jobs[c] = NoJob
    /\ IF env.builds[t].review THEN t \in publish /\ sha = staging[t]
       ELSE Held(t, sha)
    /\ Ask(c, Built(sha))
    /\ jobs' = [jobs EXCEPT ![c] = [build |-> t, sha |-> sha, pc |-> "carry"]]
    /\ UNCHANGED <<builds, staging, puts, approved, publish, attested>>

\* A step of a publish; one that gives up leaves the job to be tried again.
Advance(c) ==
    /\ Publishes(c)
    /\ jobs' = [jobs EXCEPT ![c] =
         IF @.pc # "carry" \/ client'[c] # Resting THEN @
         ELSE IF rings' # rings \/ (At(c, "pin") /\ faults' = faults) THEN [@ EXCEPT !.pc = "report"] ELSE NoJob]
    /\ UNCHANGED <<builds, staging, puts, approved, publish, attested>>

\* A build from main is what the pool stores under its name by now.
Indexed(sha) == {rows[i].sha : i \in IdsOf(sha) \cup {j \in Id : rows[j].file = env.builds[1].file /\ rows[j].arch = env.builds[1].arch}}

\* handleComplete of the publish job, or of the build from main.
Report(c) ==
    /\ jobs[c].pc = "report"
    /\ LET t == jobs[c].build
           sha == IF env.builds[t].review \/ jobs[c].sha \in Indexed(jobs[c].sha) THEN jobs[c].sha
                  ELSE CHOOSE s \in Indexed(jobs[c].sha) : TRUE
           ends == IF env.builds[t].review THEN builds[t].status = "staged" ELSE Held(t, jobs[c].sha)
       IN  /\ builds' = IF ends THEN [builds EXCEPT ![t] = [status |-> "done", holder |-> None, result |-> sha]] ELSE builds
           /\ jobs' = [jobs EXCEPT ![c] = IF ends \/ env.builds[t].review THEN [@ EXCEPT !.pc = "attest", !.sha = sha] ELSE NoJob]
           /\ publish' = publish \ {t}
    /\ UNCHANGED <<poolVars, staging, puts, approved, attested>>

-----------------------------------------------------------------------------
(* The seal.                                                               *)

\* Mutant: any project build of the bytes.
BuildsOfAny(sha) == {t \in BuildId : builds[t].result = sha}

BuildsOf(sha) == {t \in InState("done") : builds[t].result = sha}

\* factoryChain: the last build of the bytes, and the approval of it.
factoryChain(sha) ==
    LET t == CHOOSE u \in BuildsOf(sha) : \A v \in BuildsOf(sha) : v <= u
    IN  IF BuildsOf(sha) = {} THEN None ELSE [build |-> t, review |-> env.builds[t].review, approval |-> t \in approved]

\* writeAttestation: nothing without the object's row and the chain.
Attest(c) ==
    /\ jobs[c].pc = "attest"
    /\ LET sha == jobs[c].sha
       IN  attested' = IF IdsOf(sha) = {} \/ factoryChain(sha) = None THEN attested
                       ELSE [sha |-> sha, chain |-> factoryChain(sha)]
    /\ jobs' = [jobs EXCEPT ![c] = NoJob]
    /\ UNCHANGED <<poolVars, builds, staging, puts, approved, publish>>

\* The invocation ends after the report: nothing writes the attestation later.
AttestLost(c) ==
    /\ jobs[c].pc = "attest" /\ faults < MaxFaults
    /\ faults' = faults + 1
    /\ jobs' = [jobs EXCEPT ![c] = NoJob]
    /\ UNCHANGED <<env, bucket, rows, rings, client, move, builds, staging, puts, approved, publish, attested>>

SealNext ==
    \/ \E t \in BuildId : Lapse(t) \/ Approve(t) \/ Reject(t)
    \/ \E t \in BuildId : \E b \in env.builds[t].bytes :
         Lease(t, b) \/ StagingPut(t, b) \/ StagingStored(t, b) \/ Staged(t, b)
    \/ \E c \in Client : Advance(c) \/ Report(c) \/ Attest(c) \/ AttestLost(c)
    \/ \E c \in Client, t \in BuildId : \E b \in env.builds[t].bytes : Carry(c, t, b)
    \/ (Copying \/ MoveEnds) /\ UNCHANGED sealVars

-----------------------------------------------------------------------------
(* What the objects rest on. RowsNameTheirBytes and FetchableStays are not *)
(* of every system to start from: Orderly says of which.                   *)

\* What the jobs of a deployment may come to store.
Publishable(d) ==
    d.offers \cup {[sha |-> b, source |-> Factory, arch |-> d.builds[1].arch, file |-> d.builds[1].file] :
                      b \in UNION {d.builds[t].bytes : t \in DOMAIN d.builds}}

\* An object whose sum R2 does not know (uploads in parts, pool.ts) has the size
\* of no other build that may be stored in its place: the size is what the
\* index compares.
OnlyItself(there, o) ==
    there # Absent /\ ~there.sum /\ Size[there.bytes] = Size[o.sha] => there.bytes = o.sha
ToldApart(d) ==
    /\ \A o, q \in Publishable(d) :
         SamePlace(o, q) /\ o.sha \in Large /\ Size[o.sha] = Size[q.sha] => o.sha = q.sha
    /\ \A o \in Publishable(d) : OnlyItself(d.objects[packageKey(o)], o)

\* Nothing else is stored in the place of a row whose key was never written:
\* by_filename does not see such a row.
NullsAlone(d) ==
    \A i \in DOMAIN d.rows, o \in Publishable(d) :
        d.rows[i].dir = "null" /\ SamePlace(o, d.rows[i]) => o.sha = d.rows[i].sha

\* A row and the bucket agree: moved, the row has its bytes and their
\* signature; a ghost has no bytes of its own; one to be moved has, with its
\* bytes, their signature, and nothing in its new place that only seems its own.
Agrees(r, obs, sgs) ==
    LET there == obs[packageKey(r)]
        from  == obs[flatKey(r)]
        sig   == sgs[packageKey(r)]
    IN  /\ r.dir = "own" => there.bytes = r.sha /\ (r.signed => sig = r.sha)
        /\ r.dir = "ghost" => there.bytes # r.sha /\ (there = Absent => from.bytes # r.sha)
        /\ r.dir \in {"flat", "null"} =>
             /\ there = Absent \/ there.sum \/ there.bytes = r.sha
             /\ r.signed /\ (there.bytes = r.sha \/ (there = Absent /\ from.bytes = r.sha)) =>
                  sig = r.sha \/ (sig = None /\ sgs[flatKey(r)] = r.sha)

\* Tables and bucket a deployment may start with (packages.sha256 is UNIQUE).
StartsSound(d) ==
    /\ \A o \in Publishable(d) : {packageKey(o), flatKey(o)} \subseteq DOMAIN d.objects
    /\ \A i \in DOMAIN d.rows : {packageKey(d.rows[i]), flatKey(d.rows[i])} \subseteq DOMAIN d.objects
    /\ DOMAIN d.sigs = DOMAIN d.objects
    /\ \A k \in DOMAIN d.objects : d.objects[k] \in {Absent} \cup [bytes : Build, sum : BOOLEAN]
    /\ \A i, j \in DOMAIN d.rows : d.rows[i].sha = d.rows[j].sha => i = j
    /\ \A i \in DOMAIN d.rows : Agrees(d.rows[i], d.objects, d.sigs)

\* Publishers of one source and architecture take turns, as long as leases hold.
Orderly == \A d \in Deployments : d.serial /\ ToldApart(d) /\ NullsAlone(d) /\ StartsSound(d)

-----------------------------------------------------------------------------
(* Properties.                                                             *)

\* sealOf: what the pool says of a factory object, and what it signed.
Sealed == {factoryChain(rows[i].sha) : i \in {j \in Id : rows[j].source = Factory}}
          \cup (IF attested = None THEN {} ELSE {attested.chain})

\* Whatever is rejected, superseded, retried or uploaded late meanwhile: a
\* seal names a build that ended well, and, unless its recipe is on main, the
\* approval of that very build.
SealsAreOfApproved ==
    \A chain \in Sealed \ {None} :
        chain.build \in InState("done") /\ (chain.review => chain.approval)

\* The build that the attestation of an object names is the one that made its
\* bytes ("the chain that produced it", factory.ts).
SealNamesTheBuild ==
    attested # None => attested.sha \in env.builds[attested.chain.build].bytes
=============================================================================
