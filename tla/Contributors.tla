---------------------------- MODULE Contributors ----------------------------
(***************************************************************************)
(* People and what they bring (worker/src/routes/contributors.ts,          *)
(* blocks.ts, auth.ts, governance.ts, updates.ts, requests.ts, record.ts): *)
(* roles that follow a file on main, requests that enter the record before *)
(* the registration points at them, builds and daily version bumps, and    *)
(* the blocks maintainers place and lift.                                  *)
(*                                                                         *)
(* As in JobQueue, a handler starts with its reads and guards and then has *)
(* a list of writes left, one per awaited statement, batch or put; the     *)
(* invocation may end between any two. What a worker and a review do to a  *)
(* task is taken whole here: JobQueue has their steps.                     *)
(***************************************************************************)
EXTENDS Integers, Sequences, FiniteSets

CONSTANTS
    Proc,         \* Worker invocations that may run at the same time
    Login,        \* GitHub accounts
    Maker,        \* those who ask for packages, builds and workers
    Name,         \* package names
    Project,      \* project homes (normalised URLs)
    Url,          \* the URLs people paste: [home, form, tag], the form one of repository, release, tarball and other
    File,         \* the versions of factory/MAINTAINERS.toml: sets of logins, an empty one for a file that says nothing
    Older,        \* registrations made before requests existed: [Name -> [owner, project]], a part of it
    Quota,        \* QUEUED_QUOTA (10)
    Serial,       \* TRUE: a request starts when no other is under way
    MaxTag,       \* bound: releases of a project
    MaxRequests,  \* bound: rows of package_requests
    MaxTasks,     \* bound: rows of build_tasks
    MaxWorkers,   \* bound: rows of build_workers
    MaxFaults,    \* bound: invocations that end early
    None          \* null

ASSUME ContributorsAssumption ==
    /\ File \in Seq(SUBSET Login) /\ Len(File) > 0 /\ File[1] # {}
    /\ \A u \in Url : u.home \in Project /\ u.tag \in 1 .. MaxTag
    /\ DOMAIN Older \subseteq Name /\ Maker \subseteq Login
    /\ \A n \in DOMAIN Older : Older[n].owner \in Login /\ Older[n].project \in Project
    /\ Quota \in Nat \ {0} /\ Serial \in BOOLEAN
    /\ MaxTag \in Nat \ {0} /\ MaxRequests \in Nat /\ MaxTasks \in Nat /\ MaxWorkers \in Nat /\ MaxFaults \in Nat
    /\ None \notin Login \cup Name \cup Project
    /\ None \notin [role : {"maintainer", "contributor"}, by : Login \cup {None}]

VARIABLES
    main,          \* the version of the governance file on main
    known,         \* settings.governance_sha256: the version applied last
    maintainers,   \* table factory_maintainers
    contributors,  \* table contributors: role and blocked_by of who signed in
    workers,       \* the contributors' rows of table build_workers: owner and revoked
    requests,      \* table package_requests
    bucket,        \* the records and signatures in the pool's bucket
    packages,      \* table factory_packages
    tasks,         \* the contributors' builds of table build_tasks
    approvals,     \* table approvals: the version of each name approved last, or 0
    latest,        \* the latest release of each project, upstream
    checked,       \* settings.updates_checked is today
    calls,         \* the invocations: what each is about, and the writes it has left
    faults         \* invocations that ended early so far

vars  == <<main, known, maintainers, contributors, workers, requests, bucket, packages, tasks, approvals, latest,
           checked, calls, faults>>
roles == <<known, maintainers, contributors>>
record == <<requests, bucket>>
world == <<main, latest>>

\* A build's `bump`: the release it is for ("bump to <tag>"), or 0. `age`: 1
\* past shared_after (14 days), 2 past the thirty days of UNMAINTAINED_AFTER.
Open      == {"queued", "leased", "staged"}
Call      == [work |-> "none", who |-> None, role |-> None, name |-> None, project |-> None, tag |-> 0, id |-> 0,
              file |-> 0, todo |-> {}, left |-> <<>>]
Registration(o, j, s, i, tag) == [owner |-> o, project |-> j, status |-> s, request |-> i, tag |-> tag, by |-> None]

Init ==
    /\ main = 1 /\ known = 1 /\ maintainers = File[1]
    /\ contributors = [l \in Login |-> IF l \in File[1] THEN [role |-> "maintainer", by |-> None] ELSE None]
    /\ workers = <<>> /\ requests = <<>> /\ bucket = {} /\ tasks = <<>>
    /\ packages = [n \in Name |-> IF n \in DOMAIN Older
                                  THEN Registration(Older[n].owner, Older[n].project, "registered", 0, 1) ELSE None]
    /\ approvals = [n \in Name |-> 0]
    /\ latest = [j \in Project |-> 1]
    /\ checked = FALSE
    /\ calls = [p \in Proc |-> Call]
    /\ faults = 0

Registered    == {n \in Name : packages[n] # None}
SignedIn      == {l \in Login : contributors[l] # None}
Blocked       == {l \in SignedIn : contributors[l].by # None}
isMaintainer(l) == l \in SignedIn /\ contributors[l].role = "maintainer"
\* blockedResponse: the guard of every door that lets something new in.
MayEnter(l)   == l \in Maker \cap (SignedIn \ Blocked)

-----------------------------------------------------------------------------
(* An invocation.                                                          *)

Idle(p)     == calls[p].left = <<>>
Quiet       == \A p \in Proc : Idle(p)
MayStart(p) == Idle(p) /\ (Serial => Quiet)
Start(p, c) == calls' = [calls EXCEPT ![p] = IF c.left = <<>> THEN Call ELSE c]
At(p, step) == ~Idle(p) /\ Head(calls[p].left) = step
Then(p)     == Start(p, [calls[p] EXCEPT !.left = Tail(@)])

Ask(p, work, who, left) ==
    MayStart(p) /\ Start(p, [Call EXCEPT !.work = work, !.who = who, !.left = left])
About(p, work, who, n, left) ==
    MayStart(p) /\ Start(p, [Call EXCEPT !.work = work, !.who = who, !.name = n, !.left = left])

Asks == UNCHANGED <<roles, world, workers, record, packages, tasks, approvals, checked, faults>>

-----------------------------------------------------------------------------
(* Signing in, and the file on main that says who maintains.               *)

roleFor(l) == IF l \in maintainers THEN "maintainer" ELSE "contributor"

\* handleRegister and the sign-in with GitHub alike: the role is read, then
\* written with the token or the session.
SignIn(p, l) ==
    /\ MayStart(p)
    /\ Start(p, [Call EXCEPT !.work = "signIn", !.who = l, !.role = roleFor(l), !.left = <<"upsert">>])
    /\ Asks

\* A block outlives a new sign-in.
Upsert(p) ==
    /\ At(p, "upsert")
    /\ LET c == calls[p]
       IN  contributors' = [contributors EXCEPT ![c.who] =
             [role |-> c.role, by |-> IF c.who \in SignedIn THEN contributors[c.who].by ELSE None]]
    /\ Then(p)
    /\ UNCHANGED <<known, maintainers, world, workers, record, packages, tasks, approvals, checked, faults>>

Unknown(v) == v # known
parseGovernance(v) == File[v]   \* throws on a file that lists nobody

\* syncGovernance: the file is fetched; one that is known is done with, and one
\* that cannot be read changes nothing.
SyncGovernance(p) ==
    /\ MayStart(p) /\ Unknown(main) /\ parseGovernance(main) # {}
    /\ Start(p, [Call EXCEPT !.work = "governance", !.file = main, !.left = <<"list", "people", "roles">>])
    /\ Asks

\* applyGovernance: the list and the hash, one batch.
List(p) ==
    /\ At(p, "list")
    /\ maintainers' = File[calls[p].file] /\ known' = calls[p].file
    /\ Then(p)
    /\ UNCHANGED <<contributors, world, workers, record, packages, tasks, approvals, checked, faults>>

\* Mutant: those whose entry in the file changed with this version.
Edited(v) == {l \in SignedIn : v > 1 /\ (l \in File[v]) # (l \in File[v - 1])}

\* Those whose role is not what the file says, whatever the file said before.
Changing(v) == {l \in SignedIn : isMaintainer(l) # (l \in File[v])}

\* ... then the people are read, and those whose role changes ...
People(p) ==
    /\ At(p, "people")
    /\ Start(p, [calls[p] EXCEPT !.todo = Changing(calls[p].file), !.left = Tail(@)])
    /\ Asks

\* ... written one by one.
Role(p) ==
    /\ At(p, "roles")
    /\ \/ calls[p].todo = {} /\ Then(p) /\ UNCHANGED contributors
       \/ \E l \in calls[p].todo :
            /\ contributors' = [contributors EXCEPT ![l].role =
                                  IF l \in File[calls[p].file] THEN "maintainer" ELSE "contributor"]
            /\ Start(p, [calls[p] EXCEPT !.todo = @ \ {l}])
    /\ UNCHANGED <<known, maintainers, world, workers, record, packages, tasks, approvals, checked, faults>>

-----------------------------------------------------------------------------
(* A package request: the checks, the row, the record and its signature,   *)
(* the row's pointer to it, the registration.                              *)

\* Requested before by somebody who is blocked.
Tainted(l, j) ==
    \E i \in DOMAIN requests : /\ requests[i].project = j
                               /\ requests[i].owner \in Blocked \ {l}

Renewable(n) == packages[n].status \in {"registered", "rejected", "unmaintained"}
\* Mutant: a name of somebody else is renewed.
MineAnyway(l, n) == packages[n].by = None

Mine(l, n) == packages[n].owner = l /\ packages[n].by = None

\* Mutant: the project is not looked up under other names.
ProjectFreeHere(n, j) == TRUE

\* byProject: registrations from before requests have no project yet.
ProjectFree(n, j) ==
    \A m \in Registered \ {n} : packages[m].request = 0 \/ packages[m].project # j

\* Mutant: the registration points at a record that is still to be written.
RegisterFirst == <<"request", "register", "record", "sign", "point">>

\* The record, written once; then the registration that points at it.
RequestSteps == <<"request", "record", "sign", "point", "register">>

\* A project is its home, however its URL is spelled; a release page or tarball
\* names the release too, and a version given with the URL counts as named by it.
parseProjectUrl(u) == [project |-> u.home, tag |-> IF u.form = "repository" THEN 0 ELSE u.tag, error |-> u.form = "other"]

\* GitHub knows the latest release, and a source answers for one that is out.
detect(j) == latest[j]
sourceAnswers(j, tag) == tag <= latest[j]

RequestPackage(p, l, n, u) ==
    LET parsed == parseProjectUrl(u)
        j   == parsed.project
        tag == IF parsed.tag # 0 THEN parsed.tag ELSE detect(j)
    IN
    /\ MayEnter(l) /\ ~parsed.error /\ ~Tainted(l, j)
    /\ n \in Registered => Mine(l, n)
    /\ ProjectFree(n, j)
    /\ n \in Registered => Renewable(n)
    /\ sourceAnswers(j, tag)
    /\ Len(requests) < MaxRequests
    /\ MayStart(p)
    /\ Start(p, [Call EXCEPT !.work = "request", !.who = l, !.name = n, !.project = j, !.tag = tag,
                             !.left = RequestSteps])
    /\ Asks

\* backfillRequests: the same for a registration that has no request yet.
Backfill(p, n) ==
    /\ n \in Registered /\ packages[n].request = 0 /\ Len(requests) < MaxRequests
    /\ MayStart(p)
    /\ Start(p, [Call EXCEPT !.work = "backfill", !.who = packages[n].owner, !.name = n,
                             !.project = packages[n].project, !.tag = packages[n].tag,
                             !.left = <<"request", "record", "sign", "adopt">>])
    /\ Asks

InsertRequest(p) ==
    /\ At(p, "request") /\ Len(requests) < MaxRequests
    /\ LET c == calls[p]
       IN  /\ requests' = Append(requests, [name |-> c.name, owner |-> c.who, project |-> c.project,
                                         migrated |-> c.work = "backfill", record |-> FALSE])
           /\ Start(p, [c EXCEPT !.id = Len(requests) + 1, !.left = Tail(@)])
    /\ UNCHANGED <<roles, world, workers, bucket, packages, tasks, approvals, checked, faults>>

\* putRecord writes the document, then its signature beside it.
PutRecord(p) ==
    /\ At(p, "record") /\ <<calls[p].id, "request.json">> \notin bucket
    /\ bucket' = bucket \cup {<<calls[p].id, "request.json">>}
    /\ Then(p)
    /\ UNCHANGED <<roles, world, workers, requests, packages, tasks, approvals, checked, faults>>

SignRecord(p) ==
    /\ At(p, "sign")
    /\ bucket' = bucket \cup {<<calls[p].id, "request.json.sig">>}
    /\ Then(p)
    /\ UNCHANGED <<roles, world, workers, requests, packages, tasks, approvals, checked, faults>>

Point(p) ==
    /\ At(p, "point")
    /\ requests' = [requests EXCEPT ![calls[p].id].record = TRUE]
    /\ Then(p)
    /\ UNCHANGED <<roles, world, workers, bucket, packages, tasks, approvals, checked, faults>>

\* The upsert keeps the owner of a row that is there, and its block.
Register(p) ==
    /\ At(p, "register")
    /\ LET c == calls[p]
           new == Registration(c.who, c.project, "registered", c.id, c.tag)
       IN  packages' = [packages EXCEPT ![c.name] =
             IF @ = None THEN new ELSE [new EXCEPT !.owner = packages[c.name].owner, !.by = packages[c.name].by]]
    /\ Then(p)
    /\ UNCHANGED <<roles, world, workers, record, tasks, approvals, checked, faults>>

\* The backfill points the row at its record and the registration at the row
\* in one batch.
Adopt(p) ==
    /\ At(p, "adopt")
    /\ LET c == calls[p]
       IN  /\ requests' = [requests EXCEPT ![c.id].record = TRUE]
           /\ packages' = [packages EXCEPT ![c.name] =
                IF @ = None THEN @ ELSE [@ EXCEPT !.request = c.id, !.project = c.project]]
    /\ Then(p)
    /\ UNCHANGED <<roles, world, workers, bucket, tasks, approvals, checked, faults>>

\* The owner frees a name that is not let in, a maintainer any.
DeletePackage(p, l, n) ==
    /\ l \in SignedIn /\ n \in Registered
    /\ \/ packages[n].owner = l /\ packages[n].status # "approved"
       \/ isMaintainer(l)
    /\ About(p, "delete", l, n, <<"delete">>)
    /\ Asks

Cancelled(hit) == [t \in DOMAIN tasks |-> IF t \in hit THEN [tasks[t] EXCEPT !.status = "cancelled"] ELSE tasks[t]]

Delete(p) ==
    /\ At(p, "delete")
    /\ LET hit == {t \in DOMAIN tasks : tasks[t].name = calls[p].name /\ tasks[t].status = "queued"}
       IN  tasks' = Cancelled(hit)
    /\ packages' = [packages EXCEPT ![calls[p].name] = None]
    /\ Then(p)
    /\ UNCHANGED <<roles, world, workers, record, approvals, checked, faults>>

-----------------------------------------------------------------------------
(* Builds, workers and what becomes of a build.                            *)

Build(n, o, tag, bump) == [name |-> n, owner |-> o, tag |-> tag, bump |-> bump, status |-> "queued", age |-> 0]
OpenTasks(S) == {t \in DOMAIN tasks : tasks[t].status \in S}

Waiting(n) == [packages EXCEPT ![n] = IF @ = None THEN @ ELSE [@ EXCEPT !.status = "waiting"]]

\* handleBuildPackage: a build that is in flight already is not queued again.
BuildPackage(p, l, n) ==
    /\ MayEnter(l) /\ n \in Registered /\ Mine(l, n)
    /\ Cardinality({t \in OpenTasks({"queued", "leased"}) : tasks[t].owner = l}) < Quota
    /\ LET again == \E t \in OpenTasks({"queued", "leased"}) :
                       tasks[t].name = n /\ tasks[t].bump = 0 /\ tasks[t].tag = packages[n].tag
       IN  /\ again \/ Len(tasks) < MaxTasks
           /\ About(p, "build", l, n, IF again THEN <<"waiting">> ELSE <<"task", "waiting">>)
    /\ Asks

InsertTask(p) ==
    /\ At(p, "task") /\ Len(tasks) < MaxTasks
    /\ LET n == calls[p].name
       IN  tasks' = Append(tasks, Build(n, calls[p].who, IF packages[n] = None THEN 0 ELSE packages[n].tag, 0))
    /\ Then(p)
    /\ UNCHANGED <<roles, world, workers, record, packages, approvals, checked, faults>>

SetWaiting(p) ==
    /\ At(p, "waiting")
    /\ packages' = Waiting(calls[p].name)
    /\ Then(p)
    /\ UNCHANGED <<roles, world, workers, record, tasks, approvals, checked, faults>>

RegisterWorker(p, l) ==
    /\ MayEnter(l) /\ Len(workers) < MaxWorkers
    /\ Ask(p, "worker", l, <<"worker">>)
    /\ Asks

InsertWorker(p) ==
    /\ At(p, "worker") /\ Len(workers) < MaxWorkers
    /\ workers' = Append(workers, [owner |-> calls[p].who, revoked |-> FALSE])
    /\ Then(p)
    /\ UNCHANGED <<roles, world, record, packages, tasks, approvals, checked, faults>>

\* By its owner or a maintainer, one statement.
RevokeWorker(p, l, w) ==
    /\ MayStart(p) /\ l \in SignedIn /\ ~workers[w].revoked /\ (l = workers[w].owner \/ isMaintainer(l))
    /\ workers' = [workers EXCEPT ![w].revoked = TRUE]
    /\ UNCHANGED <<roles, world, record, packages, tasks, approvals, checked, calls, faults>>

\* The token of a revoked worker opens nothing.
workerOf(w) == ~workers[w].revoked

\* The owner's worker, or one a maintainer shares once shared_after has passed.
MayClaim(w, t) == /\ workerOf(w)
                  /\ \/ workers[w].owner = tasks[t].owner
                     \/ isMaintainer(workers[w].owner) /\ tasks[t].age > 0

\* handleClaim of a contributor's build.
Claim(w, t) ==
    /\ t \in OpenTasks({"queued"}) /\ MayClaim(w, t)
    /\ tasks' = [tasks EXCEPT ![t].status = "leased"]
    /\ packages' = [packages EXCEPT ![tasks[t].name] = IF @ = None THEN @ ELSE [@ EXCEPT !.status = "building"]]
    /\ UNCHANGED <<roles, world, workers, record, approvals, checked, calls, faults>>

\* A staged build takes the place of the older ones of its name; a failed one
\* or an expired lease puts the task back or ends it.
Report(t, status) ==
    /\ t \in OpenTasks({"leased"})
    /\ tasks' = [u \in DOMAIN tasks |->
           IF u = t THEN [tasks[t] EXCEPT !.status = status]
           ELSE IF status = "staged" /\ u \in OpenTasks({"staged"}) /\ tasks[u].name = tasks[t].name
           THEN [tasks[u] EXCEPT !.status = "cancelled"] ELSE tasks[u]]
    /\ packages' = [packages EXCEPT ![tasks[t].name] = IF @ = None THEN @ ELSE [@ EXCEPT !.status =
           CASE status = "staged" -> "staged" [] status = "failed" -> "registered" [] OTHER -> "waiting"]]
    /\ UNCHANGED <<roles, world, workers, record, approvals, checked, calls, faults>>

\* A maintainer other than the owner approves the project's build of a staged
\* build, or rejects it.
Approve(l, t) ==
    /\ isMaintainer(l) /\ t \in OpenTasks({"staged"}) /\ tasks[t].owner # l
    /\ approvals[tasks[t].name] # tasks[t].tag
    /\ approvals' = [approvals EXCEPT ![tasks[t].name] = tasks[t].tag]
    /\ packages' = [packages EXCEPT ![tasks[t].name] = IF @ = None THEN @ ELSE [@ EXCEPT !.status = "approved"]]
    /\ UNCHANGED <<roles, world, workers, record, tasks, checked, calls, faults>>

Reject(l, t) ==
    /\ isMaintainer(l) /\ t \in OpenTasks({"staged"})
    /\ tasks' = [tasks EXCEPT ![t].status = "cancelled"]
    /\ packages' = [packages EXCEPT ![tasks[t].name] = IF @ = None THEN @ ELSE [@ EXCEPT !.status = "registered"]]
    /\ UNCHANGED <<roles, world, workers, record, approvals, checked, calls, faults>>

-----------------------------------------------------------------------------
(* Blocks: by a maintainer; lifted by another than the one who placed it.  *)

BlockContributor(p, m, l) ==
    /\ isMaintainer(m) /\ l # m
    /\ l \in SignedIn \ Blocked /\ ~isMaintainer(l)
    /\ Start(p, [Call EXCEPT !.work = "block", !.who = m, !.name = l, !.left = <<"blockPerson">>])
    /\ MayStart(p)
    /\ Asks

\* Mutant: only queued builds are cancelled.
Stopped(t, l) == tasks[t].owner = l /\ tasks[t].status = "queued"

\* What a block of a person ends.
OfBlocked(t, l) == tasks[t].owner = l /\ tasks[t].status \in Open

BlockPerson(p) ==
    /\ At(p, "blockPerson")
    /\ LET l == calls[p].name
           hit == {t \in DOMAIN tasks : OfBlocked(t, l)}
       IN  /\ contributors' = [contributors EXCEPT ![l].by = calls[p].who]
           /\ workers' = [w \in DOMAIN workers |-> IF workers[w].owner = l THEN [workers[w] EXCEPT !.revoked = TRUE]
                                                    ELSE workers[w]]
           /\ tasks' = Cancelled(hit)
           /\ packages' = [n \in Name |-> IF n \in Registered /\ packages[n].owner = l
                                          THEN [packages[n] EXCEPT !.status = "rejected"] ELSE packages[n]]
    /\ Then(p)
    /\ UNCHANGED <<known, maintainers, world, record, approvals, checked, faults>>

UnblockContributor(p, m, l) ==
    /\ isMaintainer(m) /\ l \in Blocked /\ contributors[l].by # m
    /\ Start(p, [Call EXCEPT !.work = "unblock", !.who = m, !.name = l, !.left = <<"liftPerson">>])
    /\ MayStart(p)
    /\ Asks

LiftPerson(p) ==
    /\ At(p, "liftPerson")
    /\ contributors' = [contributors EXCEPT ![calls[p].name].by = None]
    /\ Then(p)
    /\ UNCHANGED <<known, maintainers, world, workers, record, packages, tasks, approvals, checked, faults>>

\* The package leaves the rings first, by a release of each (ReleaseStore has
\* releases), then the batch.
BlockPackage(p, m, n) ==
    /\ isMaintainer(m) /\ n \in Registered /\ packages[n].by = None
    /\ About(p, "block", m, n, <<"blockPackage">>)
    /\ Asks

BlockRegistration(p) ==
    /\ At(p, "blockPackage")
    /\ LET n == calls[p].name
           hit == {t \in DOMAIN tasks : tasks[t].name = n /\ tasks[t].status \in Open}
       IN  /\ packages' = [packages EXCEPT ![n] =
                 IF @ = None THEN @ ELSE [@ EXCEPT !.status = "rejected", !.by = calls[p].who]]
           /\ tasks' = Cancelled(hit)
    /\ Then(p)
    /\ UNCHANGED <<roles, world, workers, record, approvals, checked, faults>>

UnblockPackage(p, m, n) ==
    /\ isMaintainer(m) /\ n \in Registered /\ packages[n].by \notin {None, m}
    /\ About(p, "unblock", m, n, <<"liftPackage">>)
    /\ Asks

LiftPackage(p) ==
    /\ At(p, "liftPackage")
    /\ packages' = [packages EXCEPT ![calls[p].name] = IF @ = None THEN @ ELSE [@ EXCEPT !.by = None]]
    /\ Then(p)
    /\ UNCHANGED <<roles, world, workers, record, tasks, approvals, checked, faults>>

-----------------------------------------------------------------------------
(* checkUpdates, once a day: bumps nobody built end, new releases get one. *)

\* Mutant: the thirty days are counted for builds in hand.
Unbuilt(t) == tasks[t].bump # 0 /\ tasks[t].age = 2 /\ tasks[t].status = "leased"

Stale(t) == tasks[t].bump # 0 /\ tasks[t].age = 2 /\ tasks[t].status = "queued"

CheckUpdates(p) ==
    /\ ~checked /\ MayStart(p)
    /\ Start(p, [Call EXCEPT !.work = "updates",
                             !.left = <<"stale", "retire", "select", "release", "approved", "pending", "bump", "checked">>])
    /\ Asks

ReadStale(p) ==
    /\ At(p, "stale")
    /\ Start(p, [calls[p] EXCEPT !.todo = {tasks[t].name : t \in {u \in DOMAIN tasks : Stale(u)}}, !.left = Tail(@)])
    /\ Asks

\* One batch per name: what waits for a worker ends, the package with it.
Retire(p) ==
    /\ At(p, "retire")
    /\ \/ calls[p].todo = {} /\ Then(p) /\ UNCHANGED <<tasks, packages>>
       \/ \E n \in calls[p].todo :
            LET hit == {t \in DOMAIN tasks : tasks[t].name = n /\ tasks[t].status = "queued"}
            IN  /\ tasks' = Cancelled(hit)
                /\ packages' = [packages EXCEPT ![n] = IF @ = None THEN @ ELSE [@ EXCEPT !.status = "unmaintained"]]
                /\ Start(p, [calls[p] EXCEPT !.todo = @ \ {n}])
    /\ UNCHANGED <<roles, world, workers, record, approvals, checked, faults>>

\* Approved once, not unmaintained, not blocked: what the query selects.
Bumpable == {n \in Registered : /\ packages[n].status # "unmaintained" /\ packages[n].by = None
                                /\ approvals[n] # 0}

\* The rows are read once, for the whole check: owner and project are what
\* they were then.
Select(p) ==
    /\ At(p, "select")
    /\ Start(p, [calls[p] EXCEPT !.todo = {[name |-> n, owner |-> packages[n].owner, project |-> packages[n].project] :
                                            n \in Bumpable},
                                 !.left = Tail(@)])
    /\ Asks

\* The steps of one package, each an await of its own; a package that needs
\* no bump goes back to the start of the loop.
EachPackage == <<"release", "approved", "pending", "bump", "checked">>
NextPackage(p) == Start(p, [calls[p] EXCEPT !.left = EachPackage])

\* latestTag: a package whose releases cannot be read is left for tomorrow.
Release(p) ==
    /\ At(p, "release")
    /\ \/ calls[p].todo = {} /\ Start(p, [calls[p] EXCEPT !.left = <<"checked">>])
       \/ \E row \in calls[p].todo :
            LET rest == [calls[p] EXCEPT !.todo = @ \ {row}]
            IN  \/ Start(p, rest)
                \/ /\ Len(tasks) < MaxTasks
                   /\ Start(p, [rest EXCEPT !.name = row.name, !.who = row.owner, !.tag = latest[row.project],
                                            !.left = Tail(@)])
    /\ Asks

\* The look at what was approved last.
Approved(p) ==
    /\ At(p, "approved")
    /\ IF approvals[calls[p].name] \in {0, calls[p].tag} THEN NextPackage(p) ELSE Then(p)
    /\ Asks

\* Mutant: only a build that waits or runs keeps the bump from being queued.
PendingInFlight(n, tag) == \E t \in OpenTasks({"queued", "leased"}) : tasks[t].name = n /\ tasks[t].bump = tag

Pending(n, tag) == \E t \in OpenTasks(Open) : tasks[t].name = n /\ tasks[t].bump = tag

LookForPending(p) ==
    /\ At(p, "pending")
    /\ IF Pending(calls[p].name, calls[p].tag) THEN NextPackage(p) ELSE Then(p)
    /\ Asks

\* The INSERTs and the new status are one batch (the code has a row for each
\* architecture, here one for all); the look before it is not part of it.
Bump(p) ==
    /\ At(p, "bump") /\ Len(tasks) < MaxTasks
    /\ LET c == calls[p]
       IN  tasks' = Append(tasks, Build(c.name, c.who, c.tag, c.tag)) /\ packages' = Waiting(c.name)
    /\ NextPackage(p)
    /\ UNCHANGED <<roles, world, workers, record, approvals, checked, faults>>

\* What the check only reads.
Look(p) == ReadStale(p) \/ Select(p) \/ Release(p) \/ Approved(p) \/ LookForPending(p)

Checked(p) ==
    /\ At(p, "checked")
    /\ checked' = TRUE
    /\ Then(p)
    /\ UNCHANGED <<roles, world, workers, record, packages, tasks, approvals, faults>>

-----------------------------------------------------------------------------
(* The world, time and faults.                                             *)

MergeGovernance ==
    /\ main < Len(File)
    /\ main' = main + 1
    /\ UNCHANGED <<roles, latest, workers, record, packages, tasks, approvals, checked, calls, faults>>

ReleaseUpstream(j) ==
    /\ latest[j] < MaxTag
    /\ latest' = [latest EXCEPT ![j] = @ + 1]
    /\ UNCHANGED <<roles, main, workers, record, packages, tasks, approvals, checked, calls, faults>>

\* Days pass: what waits gets older, and updates have not been checked today.
DaysPass ==
    /\ checked \/ \E t \in OpenTasks({"queued"}) : tasks[t].age < 2
    /\ tasks' = [t \in DOMAIN tasks |-> IF tasks[t].status = "queued" /\ tasks[t].age < 2
                                        THEN [tasks[t] EXCEPT !.age = @ + 1] ELSE tasks[t]]
    /\ checked' = FALSE
    /\ UNCHANGED <<roles, world, workers, record, packages, approvals, calls, faults>>

\* The runtime ends an invocation.
End(p) ==
    /\ ~Idle(p) /\ faults < MaxFaults
    /\ Start(p, Call) /\ faults' = faults + 1
    /\ UNCHANGED <<roles, world, workers, record, packages, tasks, approvals, checked>>

Write(p) ==
    \/ Upsert(p) \/ List(p) \/ People(p) \/ Role(p)
    \/ InsertRequest(p) \/ PutRecord(p) \/ SignRecord(p) \/ Point(p) \/ Register(p) \/ Adopt(p) \/ Delete(p)
    \/ InsertTask(p) \/ SetWaiting(p) \/ InsertWorker(p)
    \/ BlockPerson(p) \/ LiftPerson(p) \/ BlockRegistration(p) \/ LiftPackage(p)
    \/ Look(p) \/ Retire(p) \/ Bump(p) \/ Checked(p)

Requests(p) ==
    \/ \E l \in Login : SignIn(p, l) \/ RegisterWorker(p, l)
    \/ \E l \in Login, n \in Name : \/ DeletePackage(p, l, n) \/ BuildPackage(p, l, n)
                                    \/ BlockPackage(p, l, n) \/ UnblockPackage(p, l, n)
                                    \/ \E u \in Url : RequestPackage(p, l, n, u)
    \/ \E l \in Login, w \in DOMAIN workers : RevokeWorker(p, l, w)
    \/ \E l, o \in Login : BlockContributor(p, l, o) \/ UnblockContributor(p, l, o)

Tick(p) == SyncGovernance(p) \/ CheckUpdates(p) \/ \E n \in Name : Backfill(p, n)

Next ==
    \/ \E p \in Proc : Write(p) \/ Requests(p) \/ Tick(p) \/ End(p)
    \/ \E t \in DOMAIN tasks : \/ \E status \in {"staged", "failed", "queued"} : Report(t, status)
                               \/ \E w \in DOMAIN workers : Claim(w, t)
                               \/ \E l \in Login : Approve(l, t) \/ Reject(l, t)
    \/ MergeGovernance \/ DaysPass
    \/ \E j \in Project : ReleaseUpstream(j)

\* Invocations go on, the cron ticks, days pass; nothing is assumed of people,
\* workers or GitHub. A tick gets an invocation in the end (hence SF).
Fairness ==
    /\ \A p \in Proc : WF_vars(Write(p))
    /\ SF_vars(\E p \in Proc : CheckUpdates(p))
    /\ WF_vars(DaysPass)

Spec == Init /\ [][Next]_vars /\ Fairness

-----------------------------------------------------------------------------
(* Properties.                                                             *)

\* Wherever an invocation ends, a registration that has a request has all of
\* it: the row, its pointer, the document and the signature beside it, of the
\* same name.
OnRecord ==
    \A n \in Registered : LET i == packages[n].request
                          IN  i # 0 => /\ requests[i].name = n /\ requests[i].record
                                       /\ {<<i, "request.json">>, <<i, "request.json.sig">>} \subseteq bucket

\* The request a registration points at was made by its owner, for its project.
OwnRequest ==
    \A n \in Registered : LET i == packages[n].request
                          IN  i # 0 => requests[i].owner = packages[n].owner /\ requests[i].project = packages[n].project

\* One project, one name: of the registrations made by a request of their
\* owner no two are of one project.
OneNamePerProject ==
    LET asked == {n \in Registered : packages[n].request # 0 /\ ~requests[packages[n].request].migrated}
    IN  \A m, n \in asked : packages[m].project = packages[n].project => m = n

\* A blocked contributor has no worker and no build under way, but for the
\* bumps of what was approved before: the daily check goes by the block of the
\* package, not of its owner.
BlockedAreIdle ==
    \A l \in Blocked : /\ \A w \in DOMAIN workers : workers[w].owner = l => workers[w].revoked
                       /\ \A t \in OpenTasks(Open) : tasks[t].owner = l => tasks[t].bump # 0

\* The look for a pending bump and the insert are two awaits, so checks that
\* overlap may both queue one; but never are there more builds of one release
\* under way than invocations that can overlap, over any number of checks that
\* died half-way and ran again. With one invocation at a time a release is
\* bumped to once.
BumpsOf(n, tag) == {t \in OpenTasks(Open) : tasks[t].name = n /\ tasks[t].bump = tag}
BumpsBounded ==
    \A n \in Name : \A tag \in 1 .. MaxTag : Cardinality(BumpsOf(n, tag)) <= Cardinality(Proc)

\* An apply that has come to the end of its list has set every role, those an
\* earlier apply left undone when it died among them: everybody who signed in
\* is a maintainer exactly if its version of the file lists them.
AppliesMend ==
    \A p \in Proc : At(p, "roles") /\ calls[p].todo = {} =>
        \A l \in SignedIn : isMaintainer(l) <=> l \in File[calls[p].file]

\* What that rests on. The cron ticks every ten
\* minutes, and an apply takes seconds; a sign-in reads the role and writes it
\* in its next await, so none still holds what an earlier file said once the
\* apply behind it has read the people.
OneApply     == \A p, q \in Proc : calls[p].work = "governance" /\ calls[q].work = "governance" => p = q
FreshSignIns == \A p, q \in Proc : At(p, "roles") /\ At(q, "upsert") => calls[q].role = roleFor(calls[q].who)

\* A bump does not wait for ever, whoever has workers and whatever they do: it
\* is claimed, or in thirty days the package is unmaintained.
BumpsEnd == (\E t \in OpenTasks({"queued"}) : tasks[t].bump # 0)
              ~> (\A t \in OpenTasks({"queued"}) : tasks[t].bump = 0)

=============================================================================
