----------------------------- MODULE Scheduler -----------------------------
(***************************************************************************)
(* The pool's scheduler (worker/src/scheduler.ts) and what it starts: the  *)
(* daily bookkeeping (provenance.ts, cost.ts, audience.ts, metrics.ts) and *)
(* the jobs it and the maintainers (jobs.ts) queue for project workers.    *)
(*                                                                         *)
(* A tick of the cron is one invocation: it takes the steps its time and   *)
(* deployment give it, in order, and may end after any of them. Times are  *)
(* minutes; what is compared with the clock is kept as an age, which is    *)
(* not counted past Old.                                                   *)
(***************************************************************************)
EXTENDS Integers, FiniteSets, SequencesExt

CONSTANTS
    Deployments,  \* [kinds, analytics, github]: JOB_KINDS, whether the analytics and the GitHub token are set;
                  \* and what of its life is looked at, [weekdays, minutes, prompt, requests, recipes, pins]: the days
                  \* (0 is Sunday) and the minutes at which the clock stops, and whether it waits for the workers; what
                  \* maintainers ask for by hand; the [blob, meta] a package of the OPR may have; what a release may pin
    Opr,          \* packages of the OPR's repository, 1 .. n in the order of its tree
    FetchBudget,  \* the fetches after which a scan stops (400)
    MaxAttempts,  \* max_attempts (3)
    MaxRows,      \* bound: tasks in flight of one job
    None          \* null

Ring == {"edge", "rc", "stable"}
Arch == {"x86_64", "aarch64"}

ASSUME SchedulerAssumption ==
    /\ Opr \subseteq Nat \ {0} /\ IsFiniteSet(Opr) /\ FetchBudget \in Nat \ {0}
    /\ MaxAttempts \in Nat \ {0} /\ MaxRows \in Nat \ {0}
    /\ \A d \in Deployments : d.minutes \subseteq 0 .. 1439 /\ 0 \in d.minutes /\ d.weekdays \subseteq 0 .. 6
    /\ None \notin Nat /\ None \notin Ring
    /\ \A d \in Deployments : \A r \in d.recipes :
         None \notin {[blob |-> r.blob, source |-> r.meta], [blob |-> r.blob, source |-> "unknown"]}

-----------------------------------------------------------------------------
(* Jobs and the rules that make them.                                      *)

Params == [ring |-> None, from |-> None, to |-> None, note |-> None, arch |-> None, force |-> FALSE]

Rule(kind, every, slot, weekday, params) ==
    [kind |-> kind, every |-> every, slot |-> slot, weekday |-> weekday, params |-> params]
Daily(from, to, note) == [Params EXCEPT !.from = from, !.to = to, !.note = note]
RULES == <<Rule("sync", 180, None, None, Params), Rule("security", 180, None, None, Params),
           Rule("enqueue", 60, None, None, Params),
           Rule("promote", 0, 360, None, Daily("edge", "rc", "daily rc")),
           Rule("promote", 0, 540, None, Daily("rc", "stable", "daily stable")),
           Rule("health", 0, 510, None, Params), Rule("gc", 0, 240, 0, Params), Rule("verify", 0, 180, 6, Params)>>

\* The rule GitHub still runs: the recipe bumps.
WorkflowRule == Rule("factory-update.yml", 0, 345, None, Params)

Job(kind, params, arch) == [kind |-> kind, params |-> params, arch |-> arch]
Workflow == Job(WorkflowRule.kind, Params, None)

syncJobFor(a) == Job("sync", [Params EXCEPT !.arch = a], a)
jobsOf(rule) ==
    CASE rule.kind = "sync" -> <<syncJobFor("x86_64"), syncJobFor("aarch64")>>
      [] rule.kind = "health" ->
            [i \in 1 .. 6 |-> LET a == <<"x86_64", "aarch64">>[((i - 1) % 2) + 1]
                              IN Job("health", [Params EXCEPT !.ring = <<"edge", "rc", "stable">>[((i - 1) \div 2) + 1], !.arch = a], a)]
      [] OTHER -> <<Job(rule.kind, rule.params, "x86_64")>>

\* The rules' jobs, by rule and place in its list, and the order they are gone through.
JobSlots == UNION {{k} \X DOMAIN jobsOf(RULES[k]) : k \in DOMAIN RULES}
JobAt(s) == jobsOf(RULES[s[1]])[s[2]]
UpTo(s, t) == s[1] < t[1] \/ (s[1] = t[1] /\ s[2] <= t[2])

\* The rings of the sources of an architecture: the OPR has a channel for each
\* ring on x86_64; all else is synced into edge.
SYNC_SOURCES == [x86_64 |-> Ring, aarch64 |-> {"edge"}]

\* What a maintainer's body becomes, when the handler accepts it.
ArchOf(b) == IF b.params.arch = None THEN "x86_64" ELSE b.params.arch
Accepted(b) ==
    CASE b.kind = "sync" -> ArchOf(b) \in Arch /\ b.params.ring \in {None} \cup SYNC_SOURCES[ArchOf(b)]
      [] b.kind = "promote" -> b.params.from \in Ring /\ b.params.to \in Ring \ {b.params.from}
      [] b.kind \in {"render", "health"} -> b.params.ring \in Ring /\ ArchOf(b) \in Arch
      [] b.kind = "rollback" -> b.params.ring \in Ring /\ b.params.to # None
      [] b.kind = "verify" -> b.params.ring \in {None} \cup Ring
      [] OTHER -> b.kind \in {"gc", "relayout", "security", "enqueue"}
Asked(b) ==
    CASE b.kind \in {"sync", "render", "health"} ->
            Job(b.kind, [Params EXCEPT !.ring = b.params.ring, !.arch = ArchOf(b)], ArchOf(b))
      [] b.kind \in {"security", "enqueue"} -> Job(b.kind, Params, IF b.arch \in Arch THEN b.arch ELSE "x86_64")
      [] b.kind \in {"gc", "relayout"} -> Job(b.kind, Params, "x86_64")
      [] OTHER -> Job(b.kind, b.params, "x86_64")

Scheduled(d) == {j \in {JobAt(s) : s \in JobSlots} : j.kind \in d.kinds}
RuleOf(j) == IF j = Workflow THEN WorkflowRule ELSE CHOOSE r \in ToSet(RULES) : j \in ToSet(jobsOf(r))

\* The kinds that write, which the guard pauses; and what starts once a day.
Writers == {"sync", "promote", "render", "security", "enqueue"}
OnceADay(d) == {j \in Scheduled(d) : RuleOf(j).slot # None} \cup {Workflow}

-----------------------------------------------------------------------------
VARIABLES
    env,       \* the deployment
    minute,    \* of the day, UTC
    weekday,
    tick,      \* the invocation of the cron: the steps and the slots of the jobs it has left, the job it found due
    tasks,     \* table build_tasks: per job, what is in flight and the age of the newest row
    busy,      \* the project workers, one per architecture: the job in hand
    events,    \* table events: the scheduler's 'dispatch' events since midnight, the age of the latest 'metrics' event
    settings,  \* table settings: the marks of today's daily work, and whether cost_guard is there
    opr,       \* table opr_packages: [blob, source] of each package, or None
    scan,      \* the scan in progress: the tree it read, and whether it was complete
    over,      \* the month heads over budget
    repo,      \* the OPR's repository: [blob, meta] of each package, or None
    runs       \* GitHub: whether the workflow runs, and the age of its latest run

Jobs == DOMAIN tasks

jobVars   == <<tasks, busy>>
bookVars  == <<settings, opr, scan>>
worldVars == <<env, minute, weekday, over, repo, runs>>
schedVars == <<env, minute, weekday, tick, tasks, busy, events, settings, opr, scan, over, repo, runs>>

Old == 1441
Later(age, d) == IF age + d > Old THEN Old ELSE age + d

Idle   == [on |-> FALSE, steps |-> {}, jobs |-> {}, due |-> None, done |-> FALSE]
NoScan == [tree |-> [n \in Opr |-> None], complete |-> FALSE]

Init ==
    /\ env \in Deployments
    /\ minute = 0 /\ weekday \in env.weekdays
    /\ tick = Idle
    /\ tasks = [j \in Scheduled(env) \cup {Asked(b) : b \in {r \in env.requests : Accepted(r)}} |-> [rows |-> <<>>, last |-> Old]]
    /\ busy = [w \in Arch |-> None]
    /\ events = [dispatched |-> [j \in OnceADay(env) |-> 0], metrics |-> Old]
    /\ settings = [done |-> {}, guard |-> FALSE]
    /\ opr = [n \in Opr |-> None] /\ scan = NoScan
    /\ over = FALSE
    /\ repo = [n \in Opr |-> None]
    /\ runs = [running |-> FALSE, last |-> Old]

-----------------------------------------------------------------------------
(* A tick.                                                                 *)

\* The steps of runScheduler, in order, and those with something to do at this time.
GuardFirst == <<"requeue", "guard", "provenance", "mark", "metrics", "cost", "audience", "jobs", "dispatch">>   \* mutant
Order == <<"requeue", "provenance", "mark", "metrics", "cost", "audience", "guard", "jobs", "dispatch">>
Due(s) ==
    CASE s \in {"provenance", "mark"} -> minute >= 315 /\ env.recipes # {}
      [] s = "metrics"  -> "metrics" \in env.kinds
      [] s = "cost"     -> minute >= 390 /\ env.analytics
      [] s = "audience" -> minute >= 30 /\ env.analytics
      [] s = "dispatch" -> env.github
      [] OTHER          -> TRUE
Steps == {s \in ToSet(Order) : Due(s)}

\* The first of the steps left, in that order.
At(s) == /\ tick.on /\ s \in tick.steps
         /\ \A k \in DOMAIN Order : Order[k] \in tick.steps => \E i \in 1 .. k : Order[i] = s
Go(s) == tick' = [tick EXCEPT !.steps = @ \ {s}]
Ended == [Idle EXCEPT !.done = TRUE]

Tick ==
    /\ ~tick.on /\ ~tick.done
    /\ tick' = [Idle EXCEPT !.on = TRUE, !.steps = Steps]
    /\ UNCHANGED <<jobVars, bookVars, events, worldVars>>

\* The invocation is over: it did all it had to, or it is cut short.
TickEnds ==
    /\ tick.on /\ tick.steps = {}
    /\ tick' = Ended
    /\ UNCHANGED <<jobVars, bookVars, events, worldVars>>

TickCut ==
    /\ tick.on /\ tick.steps # {}
    /\ tick' = Ended /\ scan' = NoScan
    /\ UNCHANGED <<jobVars, events, settings, opr, worldVars>>

\* The clock goes on between two ticks. Midnight makes every mark yesterday's.
After(S, x) == LET later == {y \in S : y > x} IN CHOOSE y \in (IF later = {} THEN S ELSE later) :
                                                     \A z \in (IF later = {} THEN S ELSE later) : y <= z
Clock ==
    /\ ~tick.on
    /\ LET next == After(env.minutes, minute)
           d    == IF next > minute THEN next - minute ELSE next - minute + 1440
       IN /\ minute' = next
          /\ weekday' = IF next = 0 THEN After(env.weekdays, weekday) ELSE weekday
          /\ tasks' = [j \in Jobs |-> [tasks[j] EXCEPT !.last = Later(@, d)]]
          /\ runs' = [runs EXCEPT !.last = Later(@, d)]
          /\ events' = [dispatched |-> [j \in DOMAIN events.dispatched |-> IF next = 0 THEN 0 ELSE events.dispatched[j]],
                        metrics    |-> Later(events.metrics, d)]
          /\ settings' = IF next = 0 THEN [settings EXCEPT !.done = {}] ELSE settings
    /\ tick' = Idle
    /\ UNCHANGED <<env, busy, opr, scan, over, repo>>

\* requeueExpiredLeases: the row of a worker that stopped goes back in the
\* queue, or is failed when it is out of attempts.
RemoveRow(s, i) == SubSeq(s, 1, i - 1) \o SubSeq(s, i + 1, Len(s))
Back(s, i) == IF s[i].attempts >= MaxAttempts THEN RemoveRow(s, i) ELSE [s EXCEPT ![i].status = "queued"]
Returned(j, i) == [tasks EXCEPT ![j].rows = Back(@, i)]
Lost == {l \in Jobs \X (1 .. MaxRows) : l[2] \in DOMAIN tasks[l[1]].rows /\ tasks[l[1]].rows[l[2]].status = "lost"}
Requeue ==
    /\ At("requeue")
    /\ \/ \E l \in Lost : tasks' = Returned(l[1], l[2]) /\ tick' = tick
       \/ Lost = {} /\ Go("requeue") /\ UNCHANGED tasks
    /\ UNCHANGED <<busy, events, bookVars, worldVars>>

\* syncProvenance. The packages whose PKGBUILD changed, in the order of the
\* tree, until the fetches are used up; each costs one, or two with metadata.
Changed    == {n \in Opr : repo[n] # None /\ (opr[n] = None \/ opr[n].blob # repo[n].blob)}
Fetches(S) == Cardinality(S) + Cardinality({n \in S : repo[n].meta # None})
Taken      == {n \in Changed : Fetches({k \in Changed : k < n}) < FetchBudget}
CompleteAtBudget == Fetches(Taken) <= FetchBudget   \* mutant: off by one
Complete   == Fetches(Taken) < FetchBudget
\* A metadata file that could not be fetched counts as one that says nothing.
Scanned(n, got) == [blob |-> repo[n].blob, source |-> IF got /\ repo[n].meta # None THEN repo[n].meta ELSE "unknown"]

\* The batches of fifty are written one after the other, the packages that
\* left last; `upto` is where an invocation that ended early stopped.
Provenance ==
    /\ At("provenance")
    /\ \/ tick' = [tick EXCEPT !.steps = @ \ {"provenance", "mark"}] /\ UNCHANGED <<opr, scan>>   \* scanned today, or GitHub did not answer
       \/ /\ "provenance" \notin settings.done
          /\ \E lost \in SUBSET Taken :
                \/ /\ opr' = [n \in Opr |-> IF n \in Taken THEN Scanned(n, n \notin lost) ELSE IF repo[n] = None THEN None ELSE opr[n]]
                   /\ scan' = [tree |-> repo, complete |-> Complete]
                   /\ Go("provenance")
                \/ \E upto \in Taken :
                   /\ opr' = [n \in Opr |-> IF n \in Taken /\ n <= upto THEN Scanned(n, n \notin lost) ELSE opr[n]]
                   /\ scan' = scan
                   /\ tick' = Ended
    /\ UNCHANGED <<jobVars, events, settings, worldVars>>

ProvenanceMark ==
    /\ At("mark")
    /\ settings' = IF scan.complete THEN [settings EXCEPT !.done = @ \cup {"provenance"}] ELSE settings
    /\ scan' = NoScan
    /\ Go("mark")
    /\ UNCHANGED <<jobVars, events, opr, worldVars>>

snapshotMetrics ==
    /\ At("metrics")
    /\ events' = IF events.metrics < 29 THEN events ELSE [events EXCEPT !.metrics = 0]
    /\ Go("metrics")
    /\ UNCHANGED <<jobVars, bookVars, worldVars>>

\* dailyCost: the event, the mark and the guard are one batch; an estimate that
\* fails leaves them all, and the next tick tries again.
dailyCost ==
    /\ At("cost")
    /\ \/ UNCHANGED settings
       \/ /\ "cost" \notin settings.done
          /\ settings' = [done |-> settings.done \cup {"cost"}, guard |-> over]
    /\ Go("cost")
    /\ UNCHANGED <<jobVars, events, opr, scan, worldVars>>

\* dailyAudience marks the day also when the measurement failed.
dailyAudience ==
    /\ At("audience")
    /\ settings' = [settings EXCEPT !.done = @ \cup {"audience"}]
    /\ Go("audience")
    /\ UNCHANGED <<jobVars, events, opr, scan, worldVars>>

\* The guard is read once; what it leaves of the rules is gone through in order.
costGuard ==
    /\ At("guard")
    /\ LET runs_(j) == j.kind \in env.kinds /\ ~(settings.guard /\ j.kind \in Writers)
       IN tick' = [tick EXCEPT !.steps = @ \ {"guard"}, !.jobs = {s \in JobSlots : runs_(JobAt(s))}]
    /\ UNCHANGED <<jobVars, bookVars, events, worldVars>>

isDue(rule, running, last) ==
    /\ ~running
    /\ \/ rule.slot = None /\ last >= rule.every + 5
       \/ /\ rule.slot # None /\ rule.weekday \in {None, weekday}
          /\ minute >= rule.slot + 10
          /\ last > minute - rule.slot
DueUnlessQueued(j) ==   \* mutant: a leased task is not in progress
    isDue(RuleOf(j), \E r \in ToSet(tasks[j].rows) : r.status = "queued", tasks[j].last)

\* recentJobs finds the tasks by kind and parameters, whatever their architecture.
Alike(j)  == {k \in Jobs : k.kind = j.kind /\ k.params = j.params}
DueJob(j) == \A k \in Alike(j) : isDue(RuleOf(j), tasks[k].rows # <<>>, tasks[k].last)

\* A job of the rules is looked up; when it is due its task is created by a
\* later statement, and journalled by another.
Consider ==
    /\ At("jobs") /\ tick.due = None
    /\ \/ tick.jobs = {} /\ Go("jobs")
       \/ \E s \in tick.jobs :
             /\ \A t \in tick.jobs : UpTo(s, t)
             /\ tick' = [tick EXCEPT !.jobs = @ \ {s}, !.due = IF DueJob(JobAt(s)) THEN JobAt(s) ELSE None]
    /\ UNCHANGED <<jobVars, bookVars, events, worldVars>>

createJob(j, by) ==
    tasks' = [tasks EXCEPT ![j] = [rows |-> Append(@.rows, [by |-> by, status |-> "queued", attempts |-> 0]), last |-> 0]]

Journalled(j) == [events EXCEPT !.dispatched = [k \in DOMAIN @ |-> IF k = j THEN @[k] + 1 ELSE @[k]]]

Create ==
    /\ At("jobs") /\ tick.due # None
    /\ createJob(tick.due, "scheduled")
    /\ \/ tick' = [tick EXCEPT !.due = None] /\ events' = Journalled(tick.due)
       \/ tick' = Ended /\ UNCHANGED events   \* the invocation ended before the event
    /\ UNCHANGED <<busy, bookVars, worldVars>>

\* The rule GitHub runs is looked up there and dispatched; GitHub may not
\* answer.
recentRuns == runs
dispatch   == runs' = [running |-> TRUE, last |-> 0]
DispatchWorkflow ==
    /\ At("dispatch")
    /\ \/ UNCHANGED <<events, runs>>
       \/ /\ isDue(WorkflowRule, recentRuns.running, recentRuns.last)
          /\ dispatch /\ events' = Journalled(Workflow)
    /\ Go("dispatch")
    /\ UNCHANGED <<jobVars, bookVars, env, minute, weekday, over, repo>>

-----------------------------------------------------------------------------
(* A maintainer queues a job by hand; the guard does not hold them back.   *)

handleQueueJob(b) ==
    /\ b \in env.requests /\ Accepted(b) /\ Len(tasks[Asked(b)].rows) < MaxRows
    /\ createJob(Asked(b), "manual")
    /\ UNCHANGED <<tick, busy, events, bookVars, worldVars>>

-----------------------------------------------------------------------------
(* Workers. One takes a task of its architecture, works, and reports it    *)
(* done or failed; or it stops, and the lease runs out.                    *)

Claim(w) ==
    /\ busy[w] = None
    /\ \E j \in Jobs : \E i \in DOMAIN tasks[j].rows :
          LET row == tasks[j].rows[i] IN
          /\ j.arch = w /\ row.status = "queued"
          /\ tasks' = [tasks EXCEPT ![j].rows[i] = [row EXCEPT !.status = "leased", !.attempts = row.attempts + 1]]
          /\ busy' = [busy EXCEPT ![w] = j]
    /\ UNCHANGED <<tick, events, bookVars, worldVars>>

InHand(w) == CHOOSE i \in DOMAIN tasks[busy[w]].rows : tasks[busy[w]].rows[i].status = "leased"
Report(w) == busy[w] # None /\ busy' = [busy EXCEPT ![w] = None] /\ UNCHANGED <<tick, events, bookVars, worldVars>>

CompleteJob(w) == Report(w) /\ tasks' = [tasks EXCEPT ![busy[w]].rows = RemoveRow(@, InHand(w))]
FailJob(w)     == Report(w) /\ tasks' = Returned(busy[w], InHand(w))
Die(w)         == Report(w) /\ tasks' = [tasks EXCEPT ![busy[w]].rows[InHand(w)].status = "lost"]

-----------------------------------------------------------------------------
(* What is outside: the bill, the maintainer at the database, GitHub.      *)

Spend == env.analytics /\ over' = ~over /\ UNCHANGED <<tick, jobVars, events, bookVars, env, minute, weekday, repo, runs>>

LiftGuard ==
    /\ settings.guard
    /\ settings' = [settings EXCEPT !.guard = FALSE]
    /\ UNCHANGED <<tick, jobVars, events, opr, scan, worldVars>>

Push ==
    /\ \E n \in Opr, is \in env.recipes \cup {None} : repo' = [repo EXCEPT ![n] = is]
    /\ UNCHANGED <<tick, jobVars, events, bookVars, env, minute, weekday, over, runs>>

\* The workflow's own schedule starts it too, late or not at all; it ends.
WorkflowRuns ==
    /\ env.github
    /\ runs' = IF runs.running THEN [runs EXCEPT !.running = FALSE] ELSE [running |-> TRUE, last |-> 0]
    /\ UNCHANGED <<tick, jobVars, events, bookVars, env, minute, weekday, over, repo>>

TickStep ==
    \/ Tick \/ TickEnds \/ Requeue \/ Provenance \/ ProvenanceMark \/ snapshotMetrics \/ dailyCost \/ dailyAudience
    \/ costGuard \/ Consider \/ Create \/ DispatchWorkflow
World == TickCut \/ Spend \/ LiftGuard \/ Push \/ WorkflowRuns

-----------------------------------------------------------------------------
(* Properties.                                                             *)

\* A run already queued or in progress is never doubled, and what has a slot
\* starts at most once a day (scheduler.ts, the head comment and isDue),
\* whatever dies, is requeued or is queued by hand in between.
ScheduledOnce ==
    /\ \A j \in Jobs : Cardinality({i \in DOMAIN tasks[j].rows : tasks[j].rows[i].by = "scheduled"}) <= 1
    /\ \A j \in DOMAIN events.dispatched : events.dispatched[j] <= 1

\* While the guard is up the scheduler creates no job that writes (cost.ts,
\* head comment), also in the tick whose own estimate raised it.
PausedWhileUp ==
    [][\A j \in Jobs :
          (settings.guard /\ j.kind \in Writers /\ Len(tasks'[j].rows) > Len(tasks[j].rows)) => Last(tasks'[j].rows).by = "manual"]_schedVars

\* When a day's scan is marked done, the table holds the packages of the tree
\* it read with its PKGBUILDs and no other (provenance.ts), however many ticks
\* the scan took, whatever was cut short and whatever was pushed in between.
ProvenanceExact ==
    [][("provenance" \in settings'.done \ settings.done) =>
          \A n \in Opr : IF scan.tree[n] = None THEN opr[n] = None ELSE opr[n] # None /\ opr[n].blob = scan.tree[n].blob]_schedVars
=============================================================================
