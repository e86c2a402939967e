----------------------------- MODULE JobAccess -----------------------------
(***************************************************************************)
(* What a job may do with its token and what it has to do: the scopes the  *)
(* pool issues for a task (worker/src/jobtoken.ts), the scope each route   *)
(* asks for (auth.ts, index.ts), and the calls the worker's jobs make      *)
(* (crates/pkg-repo/src/work.rs).                                          *)
(***************************************************************************)
EXTENDS Scheduler

Scope(name, of) == <<name, of>>
EventScope == Scope("events", None)
PoolScope  == Scope("pool:write", None)
TaskScope(t)    == Scope("task", t)
StagingScope(t) == Scope("staging", t)
Writes(rings)  == {Scope("release", r) : r \in rings} \cup {Scope("artifacts", r) : r \in rings}
Renders(rings) == {Scope("artifacts", r) : r \in rings}

\* The tasks of a package on its way into edge: the build of a recipe on main,
\* of a contributor, of the project under review, the publishing of what was
\* approved and the audit of what was staged. The last two are about a build;
\* the others are about no task but themselves.
This  == "this task"
Built == "the staged build"
PackageTask(kind, trust, review) == [kind |-> kind, params |-> Params, trust |-> trust, review |-> review]
PackageTasks ==
    {PackageTask("build", "project", FALSE), PackageTask("build", "community", FALSE), PackageTask("build", "project", TRUE),
     PackageTask("publish", "project", FALSE), PackageTask("audit", "project", FALSE)}
Stages(t) == t.trust = "community" \/ t.review

\* The rings a sync names: those of its sources, or the one of its only source.
SourceRings(j) == IF j.params.ring # None THEN {j.params.ring} ELSE SYNC_SOURCES[j.params.arch]

RingOf(j)     == IF j.params.ring = None THEN "edge" ELSE j.params.ring
OneRing(j)    == {RingOf(j)}   \* mutant: the rings the sources name are forgotten
RingsNamed(j) == {RingOf(j)} \cup SourceRings(j)

scopesFor(j) ==
    LET ring == RingOf(j)
    IN {TaskScope(This), EventScope} \cup
       CASE j.kind = "build"    -> IF Stages(j) THEN {StagingScope(This)} ELSE {PoolScope} \cup Writes({ring})
         [] j.kind = "publish"  -> {StagingScope(Built), PoolScope} \cup Writes({"edge"})
         [] j.kind = "audit"    -> {StagingScope(Built)}
         [] j.kind = "sync"     -> {PoolScope} \cup Writes(RingsNamed(j))
         [] j.kind = "promote"  -> Writes({j.params.to})
         [] j.kind = "rollback" -> Writes({ring})
         [] j.kind = "render"   -> Renders({ring})
         [] j.kind = "security" -> {Scope("security:write", None)} \cup Writes({"rc", "stable"})
         [] j.kind = "gc"       -> {Scope("gc", None)}
         [] j.kind = "relayout" -> {Scope("relayout", None)} \cup Renders(Ring)
         [] j.kind = "enqueue"  -> {Scope("factory:write", None)}
         [] j.kind = "verify"   -> {PoolScope} \cup Writes(Ring)
         [] OTHER               -> {}

\* A call of the API: its route, and what it is about: a task, the ring of the
\* release, or of the release whose databases are stored.
Call(route, of) == [route |-> route, of |-> of]
OfTask(t) == {Call(r, t) : r \in {"tasks/heartbeat", "tasks/complete", "tasks/fail"}}
Stage(t)  == Call("tasks/artifacts", t)
Fetch(t)  == Call("tasks/artifacts/package", t)

\* What a route asks of a job's token.
Needs(call) ==
    CASE call \in OfTask(call.of)             -> TaskScope(call.of)
      [] call \in {Stage(call.of), Fetch(call.of)} -> StagingScope(call.of)
      [] call.route \in {"pool", "pool/sig", "pool/sign", "pool/multipart", "packages"} -> PoolScope
      [] call.route = "releases"             -> Scope("release", call.of)
      [] call.route = "releases/artifacts"   -> Scope("artifacts", call.of)
      [] call.route = "pool/gc"              -> Scope("gc", None)
      [] call.route = "pool/relayout"        -> Scope("relayout", None)
      [] call.route \in {"security/advisories", "security/matches", "security/prune"} -> Scope("security:write", None)
      [] call.route = "factory/enqueue"      -> Scope("factory:write", None)
      [] call.route = "events"               -> EventScope

authorize(j, call) == Needs(call) \in scopesFor(j)
\* A staged package, of all of the evidence, is served to its publish job only.
MayFetch(j, call) == call = Fetch(call.of) => j.kind = "publish"
\* What a registered worker's own token opens: claiming, and the task in its hands.
workerMay(call) == call \in OfTask(This) \cup {Call("claim", None), Stage(This)}

Upload    == {Call(r, None) : r \in {"pool", "pool/sig", "pool/sign", "pool/multipart", "packages"}}
Event     == {Call("events", None)}
Pin(rings)    == {Call("releases", r) : r \in rings}
Render(rings) == {Call("releases/artifacts", r) : r \in rings}

\* The calls a job cannot do without. The upload of what a promotion aligns is
\* not one of them: it is refused, and counted as a failure of the alignment.
Calls(j) ==
    OfTask(This) \cup Event \cup
    CASE j.kind = "build"    -> IF Stages(j) THEN {Stage(This)} ELSE Upload \cup Pin({"edge"}) \cup Render({"edge"})
      [] j.kind = "publish"  -> {Fetch(Built)} \cup Upload \cup Pin({"edge"}) \cup Render({"edge"})
      [] j.kind = "audit"    -> {Stage(Built)}
      [] j.kind = "sync"     -> Upload \cup Pin(SourceRings(j)) \cup Render(SourceRings(j))
      [] j.kind = "promote"  -> Pin({j.params.to}) \cup Render({j.params.to})
      [] j.kind = "rollback" -> Pin({j.params.ring}) \cup Render({j.params.ring})
      [] j.kind = "render"   -> Render({j.params.ring})
      [] j.kind = "security" -> {Call(r, None) : r \in {"security/advisories", "security/matches", "security/prune"}}
                                \cup Pin({"rc", "stable"}) \cup Render({"rc", "stable"})
      [] j.kind = "gc"       -> {Call("pool/gc", None)}
      [] j.kind = "relayout" -> {Call("pool/relayout", None)} \cup Render(Ring)
      [] j.kind = "enqueue"  -> {Call("factory/enqueue", None)}
      [] j.kind = "verify"   -> Upload \cup LET rings == IF j.params.ring = None THEN Ring ELSE {j.params.ring}
                                            IN Pin(rings) \cup Render(rings)
      [] OTHER               -> {}

\* A package's tasks can be finished with the token of their claim; a
\* contributor's worker needs its own token alone.
MayFinish(j, calls) == \A call \in calls : authorize(j, call) /\ MayFetch(j, call)
PackagesMayFinish ==
    /\ \A t \in PackageTasks : MayFinish(t, Calls(t))
    /\ \A call \in Calls(PackageTask("build", "community", FALSE)) \ Event : workerMay(call)

\* So can a queued job: every call it cannot do without is within the scopes
\* (jobtoken.ts and auth.ts say "exactly the scopes that task needs"), for each
\* kind and its parameters.
JobsMayFinish == PackagesMayFinish /\ \A j \in Jobs : tasks[j].rows # <<>> => MayFinish(j, Calls(j))
=============================================================================
