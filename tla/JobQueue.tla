------------------------------ MODULE JobQueue ------------------------------
(***************************************************************************)
(* The job queue of the pool and the review over it                        *)
(* (worker/src/routes/factory.ts, review.ts, contributors.ts, scheduler.ts *)
(* and the workers of crates/pkg-repo/src/work.rs): tasks are queued,      *)
(* leased to workers, reported and expired; a contributor's build becomes  *)
(* evidence, the project's build of it what a maintainer approves.         *)
(*                                                                         *)
(* Each awaited D1 statement or batch that writes is one action. A handler *)
(* starts with its reads and guards and then has a list of writes left;    *)
(* the invocation may end between any two of them.                         *)
(***************************************************************************)
EXTENDS Integers, Sequences, FiniteSets

CONSTANTS
    Proc,         \* Worker invocations that may run at the same time
    Worker,       \* the registered build workers
    Profile,      \* [Worker -> [trust, owner, shared, agent]]
    Name,         \* package names
    OwnerOf,      \* [Name -> login]: who requested each
    Maintainer,   \* the logins that maintain
    Ref,          \* pkgbuild_refs
    Draft,        \* the refs whose PKGBUILD an agent drafts (draft:..., review:...)
    Rule,         \* the scheduler's jobs
    Work,         \* which callers there are
    MaxAttempts,  \* max_attempts (3)
    MaxTasks,     \* bound: rows of build_tasks
    MaxFaults,    \* bound: invocations and workers that end early
    None          \* null

Id  == 1 .. MaxTasks
Id0 == 0 .. MaxTasks

ASSUME QueueAssumption ==
    /\ Profile \in [Worker -> [trust : {"community", "project"}, owner : Maintainer \cup {OwnerOf[n] : n \in Name},
                               shared : BOOLEAN, agent : BOOLEAN]]
    /\ Draft \subseteq Ref
    /\ Work \subseteq {"build", "enqueue", "schedule", "queue", "review", "cancel", "delete", "beat"}
    /\ MaxAttempts \in Nat \ {0} /\ MaxTasks \in Nat /\ MaxFaults \in Nat
    /\ None \notin Worker \cup Ref \cup Maintainer

VARIABLES
    tasks,      \* table build_tasks
    made,       \* its rows are 1 .. made
    approvals,  \* table approvals, as [task, decision]
    packages,   \* table factory_packages: the status of each name
    staging,    \* the tasks whose package, PKGBUILD and log are in staging
    edge,       \* the builds whose package was published into edge
    busy,       \* the workers: the task in hand
    calls,      \* the invocations: what each is about, and the writes it has left
    faults      \* invocations and workers that ended early so far

vars == <<tasks, made, approvals, packages, staging, edge, busy, calls, faults>>

\* of: params.review of a project build, params.task of an audit or a publish
\* job. `over`: lease_expires_at has passed.
Row    == [kind : {"build", "audit", "publish", "job"}, trust : {"community", "project"}, name : Name \cup Rule,
           ref : Ref \cup {None}, of : Id0, by : Maintainer \cup {None},
           status : {"queued", "leased", "staged", "done", "failed", "cancelled"},
           attempts : Nat, priority : Nat, holder : Worker \cup {None}, over : BOOLEAN]
NoRow  == [kind |-> "job", trust |-> "project", name |-> None, ref |-> None, of |-> 0, by |-> None,
           status |-> "queued", attempts |-> 0, priority |-> 100, holder |-> None, over |-> FALSE]

Call == [work |-> "none", who |-> None, task |-> 0, name |-> None, row |-> NoRow, todo |-> {}, spent |-> {},
         left |-> <<>>]
\* A worker: its task, whether the token of the claim and one of a later
\* heartbeat are alive, and whether the work is done. A community worker acts
\* with a token of its own that does not run out: `first` stands for it.
Hands == [task |-> 0, first |-> FALSE, renewed |-> FALSE, made |-> FALSE]

Init ==
    /\ tasks = [t \in Id |-> NoRow]
    /\ made = 0
    /\ approvals = {}
    /\ packages = [n \in Name |-> "registered"]
    /\ staging = {}
    /\ edge = {}
    /\ busy = [w \in Worker |-> Hands]
    /\ calls = [p \in Proc |-> Call]
    /\ faults = 0

Made       == 1 .. made
InStatus(S)  == {t \in Made : tasks[t].status \in S}
InFlight   == InStatus({"queued", "leased"})

\* A contributor's build, or the project's build for a review: it is staged,
\* the other builds are published.
Stages(t) == tasks[t].kind = "build" /\ (tasks[t].trust = "community" \/ tasks[t].of # 0)

\* AGENT_SCOPE: audits, drafts and the project's review builds.
NeedsAgent(t) == \/ tasks[t].kind = "audit"
                 \/ tasks[t].kind = "build" /\ (tasks[t].ref \in Draft \/ tasks[t].of # 0)

-----------------------------------------------------------------------------
(* An invocation: Start gives it the writes it will make, Then is one of   *)
(* them done.                                                              *)

Idle(p)     == calls[p].left = <<>>
Start(p, c) == calls' = [calls EXCEPT ![p] = IF c.left = <<>> THEN Call ELSE c]
At(p, step) == ~Idle(p) /\ Head(calls[p].left) = step
Then(p)     == Start(p, [calls[p] EXCEPT !.left = Tail(@)])

\* Room for the rows a caller inserts and the audits that will follow.
Room(n) == made + n + Cardinality({t \in InFlight : Stages(t)})
             + Cardinality({p \in Proc : \E i \in DOMAIN calls[p].left : calls[p].left[i] = "insert"}) <= MaxTasks

Queue(p, w, row, after) ==
    Start(p, [Call EXCEPT !.work = w, !.name = row.name, !.row = row, !.task = row.of, !.left = <<"insert">> \o after])

\* The INSERT of build, enqueue, approve, project build, completion and tick.
Insert(p) ==
    /\ At(p, "insert") /\ made < MaxTasks
    /\ made' = made + 1
    /\ tasks' = [tasks EXCEPT ![made + 1] = calls[p].row]
    /\ Then(p)
    /\ UNCHANGED <<approvals, packages, staging, edge, busy, faults>>

\* Mutant: approved is as good as published.
StatusAfterEarly == [build |-> "waiting", claim |-> "building", stage |-> "staged", publish |-> "published",
                     main |-> "published", approve |-> "published", reject |-> "registered", fail |-> "registered"]

\* The status a handler gives the package of its task, when it is registered.
StatusAfter == [build |-> "waiting", claim |-> "building", stage |-> "staged", publish |-> "published",
                main |-> "published", approve |-> "approved", reject |-> "registered", fail |-> "registered"]
Registered(n, s) == [packages EXCEPT ![n] = IF @ = "none" THEN @ ELSE s]

\* The end of a publish job ends the row of the build it published too.
BuildPublished(c) ==
    [tasks EXCEPT ![tasks[c.task].of].status = IF @ = "staged" THEN "done" ELSE @]

SetPackage(p) ==
    /\ At(p, "package")
    /\ LET c == calls[p]
       IN  /\ packages' = Registered(c.name, StatusAfter[c.work])
           /\ tasks' = IF c.work = "publish" THEN BuildPublished(c) ELSE tasks
    /\ Then(p)
    /\ UNCHANGED <<made, approvals, staging, edge, busy, faults>>

-----------------------------------------------------------------------------
(* Queueing. handleBuildPackage and enqueue look for the same build in     *)
(* flight and insert in two statements.                                    *)

Duplicate(n, ref) == \E t \in InFlight : tasks[t].name = n /\ tasks[t].ref = ref

\* A contributor's build of a registered package.
StartBuild(p, n, ref) ==
    /\ Idle(p) /\ "build" \in Work /\ packages[n] # "none" /\ Room(2)
    /\ LET row == [NoRow EXCEPT !.kind = "build", !.trust = "community", !.name = n, !.ref = ref]
       IN  IF Duplicate(n, ref)
           THEN Start(p, [Call EXCEPT !.work = "build", !.name = n, !.left = <<"package">>])
           ELSE Queue(p, "build", row, <<"package">>)
    /\ UNCHANGED <<tasks, made, approvals, packages, staging, edge, busy, faults>>

\* The project's own recipe on main.
StartEnqueue(p, n, ref) ==
    /\ Idle(p) /\ "enqueue" \in Work /\ Room(1) /\ ~Duplicate(n, ref)
    /\ Queue(p, "enqueue", [NoRow EXCEPT !.kind = "build", !.name = n, !.ref = ref], <<>>)
    /\ UNCHANGED <<tasks, made, approvals, packages, staging, edge, busy, faults>>

JobRow(j) == [NoRow EXCEPT !.name = j, !.priority = 50]

\* handleQueueJob: a maintainer queues a pool job by hand.
QueueJob(p, j) ==
    /\ Idle(p) /\ "queue" \in Work /\ Room(1)
    /\ Queue(p, "job", JobRow(j), <<>>)
    /\ UNCHANGED <<tasks, made, approvals, packages, staging, edge, busy, faults>>

\* handleCancelTask, one statement.
CancelTask(p, t) ==
    /\ Idle(p) /\ "cancel" \in Work /\ t \in InFlight
    /\ tasks' = [tasks EXCEPT ![t].status = "cancelled"]
    /\ UNCHANGED <<made, approvals, packages, staging, edge, busy, calls, faults>>

\* handleDeletePackage, one batch: by its owner unless it is let in, or by a
\* maintainer.
DeletePackage(p, n) ==
    /\ Idle(p) /\ "delete" \in Work /\ packages[n] # "none"
    /\ packages' = [packages EXCEPT ![n] = "none"]
    /\ tasks' = [t \in Id |-> IF t \in InStatus({"queued"}) /\ tasks[t].name = n /\ tasks[t].trust = "community"
                              THEN [tasks[t] EXCEPT !.status = "cancelled"] ELSE tasks[t]]
    /\ UNCHANGED <<made, approvals, staging, edge, busy, calls, faults>>

-----------------------------------------------------------------------------
(* Workers claim. One statement takes the next task the worker may have.   *)

\* Project trust takes every kind but a contributor's build; community trust
\* a contributor's build of its owner, or anyone's when it is shared.
MayHave(w, t) ==
    LET me == Profile[w]
    IN  /\ NeedsAgent(t) => me.agent
        /\ IF me.trust = "project" THEN tasks[t].kind = "build" => tasks[t].trust = "project"
           ELSE /\ tasks[t].kind = "build" /\ tasks[t].trust = "community"
                /\ OwnerOf[tasks[t].name] = me.owner \/ (me.shared /\ me.owner \in Maintainer)

Offered(w) == {t \in InStatus({"queued"}) : MayHave(w, t)}
IsNext(t, S) == t \in S /\ \A u \in S : \/ tasks[t].priority < tasks[u].priority
                                        \/ tasks[t].priority = tasks[u].priority /\ t <= u

Taken(w, t) == [tasks[t] EXCEPT !.status = "leased", !.holder = w, !.over = FALSE, !.attempts = @ + 1]

Claim(p, w, t) ==
    /\ Idle(p) /\ busy[w].task = 0 /\ IsNext(t, Offered(w))
    /\ \A q \in Proc : ~(calls[q].work = "claim" /\ calls[q].who = w)
    /\ tasks' = [tasks EXCEPT ![t] = Taken(w, t)]
    /\ Start(p, [Call EXCEPT !.work = "claim", !.who = w, !.task = t, !.name = tasks[t].name,
                             !.left = IF tasks[t].trust = "community" THEN <<"package", "answer">> ELSE <<"answer">>])
    /\ UNCHANGED <<made, approvals, packages, staging, edge, busy, faults>>

\* The answer with the job's token, to a claim or a heartbeat.
Answer(p) ==
    /\ At(p, "answer")
    /\ LET c == calls[p]
       IN  busy' = [busy EXCEPT ![c.who] =
             IF c.work = "claim" THEN [Hands EXCEPT !.task = c.task, !.first = TRUE]
             ELSE IF @.task = c.task THEN [@ EXCEPT !.renewed = Profile[c.who].trust = "project"] ELSE @]
    /\ Then(p)
    /\ UNCHANGED <<tasks, made, approvals, packages, staging, edge, faults>>

-----------------------------------------------------------------------------
(* Workers work and report. `owned` is read by one statement, the write    *)
(* comes with another and names the id only.                               *)

\* Mutant: a lease that was taken away or given up is still its worker's.
HoldsByName(w, t) == tasks[t].holder = w

Holds(w, t)  == tasks[t].status = "leased" /\ tasks[t].holder = w
Live(w)      == busy[w].first \/ busy[w].renewed
Owned(w)     == Live(w) /\ Holds(w, busy[w].task)

StartHeartbeat(p, w) ==
    /\ Idle(p) /\ "beat" \in Work /\ busy[w].task # 0 /\ Owned(w)
    /\ Start(p, [Call EXCEPT !.work = "beat", !.who = w, !.task = busy[w].task, !.left = <<"beat", "answer">>])
    /\ UNCHANGED <<tasks, made, approvals, packages, staging, edge, busy, faults>>

Beat(p) ==
    /\ At(p, "beat")
    /\ tasks' = [tasks EXCEPT ![calls[p].task].over = FALSE]
    /\ Then(p)
    /\ UNCHANGED <<made, approvals, packages, staging, edge, busy, faults>>

\* The work is done. Packages go to staging with the lease and into edge with
\* the job's token alone, and the client that sends them keeps the token of the
\* claim: when it is refused, the work has failed. The other files of a build
\* are sent once, and a refusal is only logged.
Produce(w) ==
    LET t == busy[w].task
    IN  /\ t # 0 /\ ~busy[w].made
        /\ tasks[t].kind \in {"build", "publish"} => busy[w].first
        /\ Stages(t) => Holds(w, t)
        /\ staging' \in {staging, staging \cup {u \in {t} : Stages(t)}}
        /\ edge' = edge \cup CASE tasks[t].kind = "publish" -> {tasks[t].of}
                               [] tasks[t].kind = "build" /\ ~Stages(t) -> {t}
                               [] OTHER -> {}
        /\ busy' = [busy EXCEPT ![w].made = TRUE]
        /\ UNCHANGED <<tasks, made, approvals, packages, calls, faults>>

\* The worker is free from its report on: it may stop waiting for the answer,
\* and a report that is refused is not sent again.
Report(p, w, accepted, c) ==
    /\ Idle(p) /\ busy[w].task # 0
    /\ Start(p, IF Owned(w) /\ accepted
                THEN [c EXCEPT !.who = w, !.task = busy[w].task, !.name = tasks[busy[w].task].name] ELSE Call)
    /\ busy' = [busy EXCEPT ![w] = Hands]
    /\ UNCHANGED <<tasks, made, approvals, packages, staging, edge, faults>>

\* What handleComplete asks for: the files in staging, or the package in the pool.
Evidence(t) == IF Stages(t) THEN t \in staging ELSE tasks[t].kind = "build" => t \in edge

StartComplete(p, w) ==
    LET t    == busy[w].task
        work == IF Stages(t) THEN "stage" ELSE IF tasks[t].kind = "publish" THEN "publish"
                ELSE IF tasks[t].kind = "build" THEN "main" ELSE "job"
        left == CASE work = "stage" -> <<"end", "older", "package", "insert">>
                  [] work = "job"   -> <<"end">>
                  [] OTHER          -> <<"end", "package">>
        audit == [NoRow EXCEPT !.kind = "audit", !.name = tasks[t].name, !.of = t, !.priority = 40]
    IN  /\ busy[w].made
        /\ Report(p, w, Evidence(t), [Call EXCEPT !.work = work, !.row = audit, !.left = left])

Exhausted(t) == tasks[t].attempts >= MaxAttempts

StartFail(p, w, final) ==
    LET t == busy[w].task
        exhausted == final \/ Exhausted(t)
    IN  Report(p, w, TRUE, [Call EXCEPT !.work = "fail", !.spent = {u \in {t} : exhausted},
                                        !.left = IF exhausted /\ tasks[t].trust = "community"
                                                 THEN <<"fail", "package">> ELSE <<"fail">>])

\* The lease ends; who held a task that is over stays on its row.
Ended(t, status) == [tasks[t] EXCEPT !.status = status, !.over = FALSE,
                                     !.holder = IF status \in {"queued", "staged"} THEN None ELSE @]

EndTask(p) ==
    /\ At(p, "end")
    /\ LET c == calls[p]
       IN  tasks' = [tasks EXCEPT ![c.task] = Ended(c.task, IF c.work = "stage" THEN "staged" ELSE "done")]
    /\ Then(p)
    /\ UNCHANGED <<made, approvals, packages, staging, edge, busy, faults>>

\* Failed, or queued again behind its peers.
Retry(t, exhausted) == [Ended(t, IF exhausted THEN "failed" ELSE "queued") EXCEPT !.priority = @ + 10]

FailTask(p) ==
    /\ At(p, "fail")
    /\ tasks' = [tasks EXCEPT ![calls[p].task] = Retry(calls[p].task, calls[p].task \in calls[p].spent)]
    /\ Then(p)
    /\ UNCHANGED <<made, approvals, packages, staging, edge, busy, faults>>

\* The staged builds of the package that this one supersedes, and then one by
\* one the build and its queued audits.
Older(t) == {o \in InStatus({"staged"}) : /\ tasks[o].kind = "build" /\ o < t
                                          /\ tasks[o].trust = tasks[t].trust /\ tasks[o].name = tasks[t].name}

SelectOlder(p) ==
    /\ At(p, "older")
    /\ LET c == calls[p]
       IN  Start(p, [c EXCEPT !.todo = Older(c.task),
                              !.left = IF Older(c.task) = {} THEN Tail(@) ELSE <<"supersede">> \o Tail(@)])
    /\ UNCHANGED <<tasks, made, approvals, packages, staging, edge, busy, faults>>

Cancelled(S) == [t \in Id |-> IF t \in S THEN [tasks[t] EXCEPT !.status = "cancelled"] ELSE tasks[t]]
QueuedAudits(b) == {t \in InStatus({"queued"}) : tasks[t].kind = "audit" /\ tasks[t].of = b}

Supersede(p, o) ==
    /\ At(p, "supersede") /\ o \in calls[p].todo
    /\ tasks' = Cancelled({o} \cup QueuedAudits(o))
    /\ LET c == calls[p]
       IN  Start(p, [c EXCEPT !.todo = @ \ {o}, !.left = IF c.todo = {o} THEN Tail(@) ELSE @])
    /\ UNCHANGED <<made, approvals, packages, staging, edge, busy, faults>>

-----------------------------------------------------------------------------
(* Review: a maintainer who is not the package's owner.                    *)

\* Mutant: one's own package too.
ReviewsOwn(m, t) == m \in Maintainer

Reviews(m, t) == m \in Maintainer /\ m # OwnerOf[tasks[t].name]

\* handleProjectBuild, from a contributor's staged build.
StartProjectBuild(p, m, t) ==
    /\ Idle(p) /\ "review" \in Work /\ t \in InStatus({"staged"}) /\ tasks[t].trust = "community"
    /\ Reviews(m, t) /\ Room(2)
    /\ \A u \in InStatus({"queued", "leased", "staged"}) :
         ~(tasks[u].kind = "build" /\ tasks[u].trust = "project" /\ tasks[u].of = t)
    /\ Queue(p, "review", [NoRow EXCEPT !.kind = "build", !.name = tasks[t].name, !.of = t, !.priority = 30], <<>>)
    /\ UNCHANGED <<tasks, made, approvals, packages, staging, edge, busy, faults>>

\* Mutant: a contributor's build can be approved.
ApprovableAny(t) == t \in staging

\* What users get is the project's build.
Approvable(t) == tasks[t].trust = "project" /\ t \in staging

\* handleApprove: the publish job, the decision, the package, the audits.
StartApprove(p, m, t) ==
    /\ Idle(p) /\ "review" \in Work /\ t \in InStatus({"staged"}) /\ Approvable(t) /\ Reviews(m, t)
    /\ ~\E a \in approvals : a.task = t /\ a.decision = "approved"
    /\ Room(1)
    /\ Queue(p, "approve", [NoRow EXCEPT !.kind = "publish", !.name = tasks[t].name, !.of = t, !.by = m, !.priority = 20],
             <<"decide", "package", "audits">>)
    /\ UNCHANGED <<tasks, made, approvals, packages, staging, edge, busy, faults>>

\* handleReject: any maintainer; the decision, the task, the audits, the package.
StartReject(p, m, t) ==
    /\ Idle(p) /\ "review" \in Work /\ t \in InStatus({"staged"}) /\ m \in Maintainer
    /\ Start(p, [Call EXCEPT !.work = "reject", !.task = t, !.name = tasks[t].name,
                             !.left = <<"decide", "cancel", "audits", "package">>])
    /\ UNCHANGED <<tasks, made, approvals, packages, staging, edge, busy, faults>>

Decide(p) ==
    /\ At(p, "decide")
    /\ LET c == calls[p]
       IN  approvals' = approvals \cup {[task |-> c.task,
                                         decision |-> IF c.work = "approve" THEN "approved" ELSE "rejected"]}
    /\ Then(p)
    /\ UNCHANGED <<tasks, made, packages, staging, edge, busy, faults>>

\* The rejected build, and cancelPendingAudit.
CancelDecided(p) ==
    /\ At(p, "cancel") \/ At(p, "audits")
    /\ tasks' = Cancelled(IF At(p, "cancel") THEN {calls[p].task} ELSE QueuedAudits(calls[p].task))
    /\ Then(p)
    /\ UNCHANGED <<made, approvals, packages, staging, edge, busy, faults>>

-----------------------------------------------------------------------------
(* The scheduler's tick: requeueExpiredLeases, then the rules.             *)

\* Mutant: a lease of the last attempt is left to its worker.
ExpiredWithAttempts == {t \in InStatus({"leased"}) : tasks[t].over /\ tasks[t].attempts < MaxAttempts}

Expired == {t \in InStatus({"leased"}) : tasks[t].over}
IsDue(j) == /\ "schedule" \in Work /\ Room(1)
            /\ \A t \in InFlight : ~(tasks[t].kind = "job" /\ tasks[t].name = j)

StartTick(p) ==
    /\ Idle(p) /\ (Expired # {} \/ \E j \in Rule : IsDue(j))
    /\ Start(p, [Call EXCEPT !.work = "tick", !.todo = Expired,
                             !.spent = {t \in Expired : Exhausted(t)},
                             !.left = IF Expired = {} THEN <<"rules">> ELSE <<"requeue", "rules">>])
    /\ UNCHANGED <<tasks, made, approvals, packages, staging, edge, busy, faults>>

\* The statement asks again whether the task is leased, and by nothing else.
Requeued(t, exhausted) == IF tasks[t].status = "leased" THEN Retry(t, exhausted) ELSE tasks[t]

Requeue(p, t) ==
    /\ At(p, "requeue") /\ t \in calls[p].todo
    /\ tasks' = [tasks EXCEPT ![t] = Requeued(t, t \in calls[p].spent)]
    /\ LET c == calls[p]
           rest == IF c.todo = {t} THEN Tail(c.left) ELSE c.left
       IN  Start(p, [c EXCEPT !.todo = @ \ {t}, !.task = t,
                              !.left = IF tasks[t].kind = "build" /\ tasks[t].trust = "community"
                                       THEN <<"follow">> \o rest ELSE rest])
    /\ UNCHANGED <<made, approvals, packages, staging, edge, busy, faults>>

\* "The package follows its task", if it still says it is building.
Follow(p) ==
    /\ At(p, "follow")
    /\ LET c == calls[p]
       IN  packages' = [packages EXCEPT ![tasks[c.task].name] =
             IF @ = "building" THEN IF c.task \in c.spent THEN "registered" ELSE "waiting" ELSE @]
    /\ Then(p)
    /\ UNCHANGED <<tasks, made, approvals, staging, edge, busy, faults>>

\* A rule that is due and has no job in flight gets one; time is left out.
Rules(p) ==
    /\ At(p, "rules")
    /\ \/ Then(p)
       \/ \E j \in Rule : IsDue(j) /\ Start(p, [calls[p] EXCEPT !.row = JobRow(j), !.left = <<"insert">> \o @])
    /\ UNCHANGED <<tasks, made, approvals, packages, staging, edge, busy, faults>>

-----------------------------------------------------------------------------
(* Time and faults.                                                        *)

\* A job's token is good for as long as the lease it comes with; that of the
\* claim runs out first.
TokenRunsOut(w) ==
    /\ busy[w].task # 0 /\ Live(w) /\ Profile[w].trust = "project"
    /\ busy' = [busy EXCEPT ![w] = IF @.first THEN [@ EXCEPT !.first = FALSE] ELSE [@ EXCEPT !.renewed = FALSE]]
    /\ UNCHANGED <<tasks, made, approvals, packages, staging, edge, calls, faults>>

\* Nobody renews the lease; a community worker's heartbeats may be lost.
LeaseRunsOut(t) ==
    /\ t \in InStatus({"leased"}) /\ ~tasks[t].over
    /\ \A w \in Worker : ~(busy[w].task = t /\ tasks[t].holder = w /\ Live(w) /\ Profile[w].trust = "project")
    /\ tasks' = [tasks EXCEPT ![t].over = TRUE]
    /\ UNCHANGED <<made, approvals, packages, staging, edge, busy, calls, faults>>

\* The runtime ends an invocation, or a connection takes its answer.
End(p) ==
    /\ ~Idle(p) /\ faults < MaxFaults
    /\ Start(p, Call) /\ faults' = faults + 1
    /\ UNCHANGED <<tasks, made, approvals, packages, staging, edge, busy>>

Kill(w) ==
    /\ busy[w].task # 0 /\ faults < MaxFaults
    /\ busy' = [busy EXCEPT ![w] = Hands] /\ faults' = faults + 1
    /\ UNCHANGED <<tasks, made, approvals, packages, staging, edge, calls>>

\* The writes an invocation has left.
Write(p) ==
    \/ Insert(p) \/ SetPackage(p) \/ Answer(p) \/ Beat(p) \/ EndTask(p) \/ FailTask(p) \/ SelectOlder(p)
    \/ Decide(p) \/ CancelDecided(p) \/ Follow(p) \/ Rules(p)
    \/ \E t \in Id : Supersede(p, t) \/ Requeue(p, t)

Ask(p) ==
    \/ \E n \in Name, ref \in Ref : StartBuild(p, n, ref) \/ StartEnqueue(p, n, ref)
    \/ \E j \in Rule : QueueJob(p, j)
    \/ \E t \in Id : CancelTask(p, t)
    \/ \E n \in Name : DeletePackage(p, n)
    \/ \E m \in Maintainer, t \in Id : StartProjectBuild(p, m, t) \/ StartApprove(p, m, t) \/ StartReject(p, m, t)

Reports(p, w) == StartComplete(p, w) \/ \E final \in BOOLEAN : StartFail(p, w, final)

Next ==
    \/ \E p \in Proc : Write(p) \/ Ask(p) \/ StartTick(p) \/ End(p)
    \/ \E p \in Proc, w \in Worker : StartHeartbeat(p, w) \/ Reports(p, w) \/ \E t \in Id : Claim(p, w, t)
    \/ \E w \in Worker : Produce(w) \/ TokenRunsOut(w) \/ Kill(w)
    \/ \E t \in Id : LeaseRunsOut(t)

\* Invocations go on, leases nobody renews run out, work comes to an end and
\* is reported, workers ask for more, and the cron ticks. A request gets an
\* invocation in the end: the number of Proc bounds what overlaps, not what
\* the platform serves (hence SF).
Fairness ==
    /\ \A p \in Proc : WF_vars(Write(p))
    /\ \A t \in Id : WF_vars(LeaseRunsOut(t))
    /\ \A w \in Worker : /\ WF_vars(Produce(w))
                         /\ SF_vars(\E p \in Proc : Reports(p, w))
                         /\ SF_vars(\E p \in Proc, t \in Id : Claim(p, w, t))
    /\ SF_vars(\E p \in Proc : StartTick(p))

Spec == Init /\ [][Next]_vars /\ Fairness

-----------------------------------------------------------------------------
(* Properties.                                                             *)

\* Whatever overlaps: what is in edge was built by the project from its own
\* recipe, or is the project's build that a maintainer other than the
\* package's owner asked to publish.
EdgeIsTheProjects ==
    \A b \in edge : /\ tasks[b].kind = "build" /\ tasks[b].trust = "project"
                    /\ tasks[b].of # 0 =>
                         \E t \in Made : /\ tasks[t].kind = "publish" /\ tasks[t].of = b
                                         /\ tasks[t].by # OwnerOf[tasks[b].name]

\* Whatever overlaps: a build that is done, and a package that is published,
\* are in edge.
DoneIsServed ==
    /\ \A t \in InStatus({"done"}) : tasks[t].kind = "build" => t \in edge
    /\ \A n \in Name : packages[n] = "published" => \E b \in edge : tasks[b].name = n

\* A task that ended stays as it ended; a staged build is published, rejected
\* or superseded, and nothing else.
Final ==
    [][\A t \in Made : /\ tasks[t].status \in {"done", "failed", "cancelled"} => tasks'[t].status = tasks[t].status
                       /\ tasks[t].status = "staged" => tasks'[t].status \in {"staged", "done", "cancelled"}]_vars

\* Every task ends, whichever workers and invocations die: it is done, staged,
\* failed or cancelled.
Settles == \A t \in Id : (t \in InFlight) ~> (t \notin InFlight)

=============================================================================
