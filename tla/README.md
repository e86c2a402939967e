# A TLA+ model of the omarchy package pool

TLA+ modules, TLC configurations and TLAPS proofs for the program in this
repository: the pool that keeps, promotes and serves packages (a Cloudflare
Worker over D1 and R2), the daemons that build and sync into it, and the local
transaction engine.

## 1. The system

| part | state | operations | talks to |
|---|---|---|---|
| release store: `worker/src/routes/releases.ts`, `db.ts`, `routes/gc.ts` | D1 tables `releases`, `release_deltas`, `release_packages`, `release_artifacts`, `ring_heads`, `ring_packages`, `packages`; R2 objects | create a release (sync, publish, promotion, rollback), read one, retention | called over HTTP by every job below |
| rendering: `crates/pkg-repo/src/ops.rs`, `syncdb.rs`, `sign.rs` | the pacman databases at the live keys | one database per ring, source and architecture | reads the head, puts artifacts |
| job queue: `worker/src/routes/factory.ts`, `jobs.ts`, `jobtoken.ts` | `build_tasks`, `build_workers` | enqueue, claim, heartbeat, complete, fail, cancel, lease expiry | workers claim; the scheduler creates and requeues |
| review: `worker/src/routes/review.ts` | `approvals`, `factory_packages`, task statuses | project build, approve, reject | creates publish jobs in the queue |
| scheduler and bookkeeping: `worker/src/scheduler.ts`, `provenance.ts`, `cost.ts`, `metrics.ts`, `audience.ts` | `settings` (marks, cost guard), `events`, `opr_packages` | cron tick: requeue, daily books, guard, decide what is due, create jobs | the queue, GitHub |
| promotion: `crates/pkg-repo/src/gate.rs`, `work.rs` | `events` (the evidence) | gate, promote, align, render, health, roll back | release store, rendering |
| objects and sync: `worker/src/routes/pool.ts`, `packages.ts`, `relayout.ts`, `crates/pkg-repo/src/sync.rs` | R2 objects and signatures, `packages` | upload, sign, index, mirror an upstream, move the layout | release store |
| security: `worker/src/routes/security.ts`, `crates/pkg-repo/src/security.rs`, `osv.rs` | `advisories`, `package_advisories`, the edge cache | read the feeds, match, prune, fast-track | index, release store |
| people: `worker/src/routes/contributors.ts`, `blocks.ts`, `auth.ts`, `governance.ts`, `updates.ts`, `record.ts` | `contributors`, `factory_maintainers`, `package_requests`, `factory_packages`, the records in R2 | sign in, request, register, build, block, apply the governance file, bump | queue, review |
| seal: `worker/src/routes/seal.ts` | attestations in R2 | the chain of an object, its attestation | queue, review, objects |
| worker daemon: `crates/pkg-repo/src/work.rs` | one task at a time | claim, heartbeat thread, run, report | job queue |
| transaction engine: `poc/crates/pkg-store` | redb tables, the file system | commit, recover | none |
| version, dependency and ABI rules: `crates/pkg-manifest`, `crates/pkg-check` | none | pure functions | client, sync |
| client, extraction, hooks, search, pages | rows and files for display | | |

Nothing in the Worker locks: a handler is a sequence of awaited D1 and R2
calls, and two requests interleave between any two of them. Only a single
statement, or one `batch`, is atomic. That, the end of an invocation between
two calls, and rows read by one call and used by a later one are what make the
system hard.

### What each part keeps, and what makes it correct

**Release store.** An append-only history per ring. The row of a release names
its parent, its delta (`release_deltas`) lists what it changed against the
release before it, and every `CHECKPOINT_EVERY` releases the full membership is
kept as well (`release_packages`). `ring_heads` and `ring_packages` are the head
and its rows. Hard: two creators of a ring read the parent, the next seq and
the last checkpoint one await at a time and then run one batch; a reader that
reconstructs an old release writes its rows and flag while the retention job
deletes deltas and index rows; the retention job can end between any two calls.
Correct when: numbering has no gap or duplicate, the live rows are the head's
selection, every release inside retention can be rebuilt exactly, a promotion
holds its source, what is served is indexed and stored.

**Rendering.** One pacman database per source and architecture of a ring at a
live key, and an artifact row on the release it was rendered for. A release that
leaves an architecture alone carries the rows of its parent over. Correct when:
the artifact rows of a head describe the databases at the live keys.

**Job queue, review, scheduler, worker daemon.** A row of `build_tasks` goes
from queued to leased and on to done, staged, failed or cancelled; a lease has an
expiry that heartbeats move. Hard: every handler checks ownership or status in
one statement and writes in another, a lease may run out in between, a
maintainer may cancel or decide in between. Correct when: a build enters edge
only if it was approved and built by the project, a task in flight ends, nothing
is attempted without end, the package's status says what its build does.

**Scheduler and bookkeeping.** One cron tick takes its steps in a fixed order,
each in a statement or more, and is cut short when the invocation's time is up;
the next tick decides from the rows, marks and events that were written. Hard:
a job and the event that records it are two writes, a daily step marks its day
in one statement and works in others, the guard is raised by the tick that then
reads it. Correct when: nothing is started twice, the guard pauses what writes,
a day marked done is done.

**Promotion.** The gate evaluates evidence (soak, health, verification) about a
head, the promotion makes a release of the next ring, renders it, checks it and
rolls back to the head it remembered. Hard: a worker may stop at any call, the
job is tried again, syncs, fast-tracks and other promotions move the rings in
between. Correct when: what is promoted has soaked, a failed promotion leaves
the ring and its databases as they were, and the rings do move.

**Objects and sync.** An upload goes to R2 under its file name and to the index
by row; a sync compares an upstream database with the ring and uploads, then
sends one release. Hard: the name is asked for before the bytes are put, an
upstream rebuilds a file under the name it had, the layout moves below all of
it, and everybody may stop at any call. Correct when: a row names its own
bytes, signed, and what could be fetched can still be fetched.

**Security.** A run reads the rings, asks the feeds, writes what it found in
batches and prunes what is older than its start; the gate and the fast-track
read the tables meanwhile. Correct when: a finding that still holds is never
missing, and one that no run repeats goes.

**People and their packages.** Who signs in has a role from a file on main; a
request is checked against names and projects and then written as row,
document, signature, pointer and registration; a block ends what is under way;
a daily check queues a build for every release upstream. Hard: each is several
awaits, any of which may be the last. Correct when: what is registered is on
the record, names and projects have one owner, a blocked person has no work in
the system, bumps of one release do not pile up and none is left waiting, and
roles are what the file says.

**Seal.** The chain shown with an object is found by the hash of its bytes:
the last project build with that result, its approval and evidence. Correct
when: the chain is that of the build which made the bytes.

**Transaction engine.** `installed_packages`, `tracked_files` and
`transactions` in redb, and the file system: each replaced or removed file is
parked beside itself until the transaction is committed and cleaned up. Hard: a
process killed at any system call, failing steps, a failing rollback, a
recovery killed in its turn. Correct when: files and tables change together or
not at all, user files survive, nothing is left that no record names.

**Version, dependency and ABI rules.** Pure functions whose order laws
(antisymmetry, transitivity) everything above relies on.

## 2. The modules

| module | what it is |
|---|---|
| `ReleaseStore` | the release store, its readers, renders and retention |
| `RingHistory` | abstract: a store of full, immutable selections; `ReleaseStore!History` is the refinement |
| `ReleaseStoreProofs`, `ReleaseHistoryProofs` | theorems about `ReleaseStore`: types, numbering and deltas; reconstruction, retention and the refinement |
| `ReleaseReads` | paged walks of a ring and comparisons of releases, over `ReleaseStore` |
| `ReleaseReadsProofs` | theorems about `ReleaseReads`, over those about retention |
| `PkgStore` | the transaction engine and its recovery |
| `AtomicInstall` | abstract: a transaction in one step; `PkgStore!Atomic` is the refinement |
| `PkgStoreProofs` | theorems about `PkgStore`: tables, what a crash leaves, files and the refinement |
| `JobQueue` | the job queue, review and the workers' side of them |
| `JobQueueProofs` | theorems about `JobQueue` |
| `Contributors` | people: roles, requests and their record, registrations, builds, bumps, blocks |
| `ContributorsProofs` | theorems about `Contributors` |
| `Scheduler` | the cron tick, its rules and its books, and the project workers' claims |
| `JobAccess` | the scopes of a job's token, and the calls the job makes; over `Scheduler` |
| `Pipeline` | the jobs on the rings: gate, promotion, rollback, fast-track, sync; over `JobAccess` |
| `PipelineProofs` | theorems about the stack `Scheduler`, `JobAccess`, `Pipeline` |
| `PoolObjects` | objects, signatures and index; publishing jobs and the relayout |
| `Seal` | from a build's bytes in staging to the attestation of the object; over `PoolObjects` |
| `Advisories` | feeds, findings, pruning, the fast-track and the edge cache; over `Seal` |
| `PoolProofs` | theorems about the stack `PoolObjects`, `Seal`, `Advisories` |
| `MCReleaseStore`, `MCReleaseReads`, `MCPkgStore`, `MCJobQueue`, `MCContributors`, `MCPipeline`, `MCPool` | the instances: values, starts, symmetry |

So the modules compose in three stacks, `ReleaseReads` over `ReleaseStore`,
`Pipeline` over `JobAccess` over `Scheduler`, `Advisories` over `Seal` over
`PoolObjects`, with `PkgStore`, `JobQueue` and `Contributors` beside them. A stack is one
state machine; between the stacks what one gives another is taken whole (a
release of `Pipeline` is the selection it pins, a finished build of `Contributors`
is a status).

### ReleaseStore

A handler in the Worker is a sequence of awaited calls, so an action is the code
from one await that matters to the next: `StartCreate` (the read of the
source), `ReadParent`, `ReadSeq` (with the lookup of the adds), `ChooseBase`,
`ReadLastCheckpoint`, `Batch` (one D1 transaction: release row, delta, live
rows, head, checkpoint rows, artifact rows, or nothing when a constraint
fails), then the summary. `pc[p]` names the await an invocation stands at and
`my[p]` holds its local variables, so what was read before an await and used
after it is visibly stale. Reads whose answer cannot change (a release row is
never rewritten except for its flag and summary) go with the next step. A
reconstruction walks the parents one await each, replays the deltas, then saves
rows, flag and summary. The retention job (`gc.ts`) is a process of its own with
one action per statement, and may end at each.

A package is a model value; `Meta` gives it name, source, architecture and
R2 key, so two index rows may share an object and two builds a slot. What the
request's SQL selects is written as set expressions (`Base`, `Target`,
`Delta`). Left out: listings and page formats, the JSON of the answers, the
chunking of long batches of the index lookup, the signature of a database.

`held` is a history variable, the selection each release was made to hold; no
action reads it.

With `Serial`, the callers keep to one writer per ring, and retention runs while
nobody else is at work. The code aims at that schedule (one scheduler, tasks
with a lease) and enforces none of it, so the properties that need it are
checked under it and the ones that do not are checked, and proved, without it.

### ReleaseReads

A request is one step. `walk` is a client that reads a ring in pages
(`client.rs`, `api.rs`): the first answer names the release, every later page asks
for that release and for the rows after the cursor (name, architecture,
source), until a page is not full or `next` is missing. Between two pages the
ring moves on and retention works, also dying half-way; no request falls between
the statements of a retention job that goes on (`Serial`). A comparison is a pure function of two
selections, `Compare`, and a request for it leaves behind what reading its sides
leaves behind: checkpoint rows.

### PkgStore

An action is one system call (a rename, a link, the removal of a staging
directory) or one redb write transaction. `run` is the process: its step, the
record of the transaction in memory, the operations left to do. `Kill` may come
between any two steps; a `Fallible` class of calls may return an error instead
of taking effect; `MaxFaults` bounds both. The file system and the tables
survive a kill as they are: a process dies, the machine does not, so unsynced
writes are not lost and fsync has no action. redb locks its file, hence one
process. The operations of a plan are applied in any order: the code's order is
that of the file lists and each operation has a place of its own.

Left out: directories (shared between packages, leftovers ignored by the code),
modes, owners, symbolic links, the capability table. A file's content is the
manifest that ships it, or `User`.

With `Reopens`, a caller that got `RollbackFailed` opens the store again before
its next transaction, which is what the error's text asks for; nothing in the
code prevents it from going on.

### JobQueue

Every awaited D1 statement or batch that writes is one action. A handler starts
with its reads and guards (`StartComplete`, `StartApprove`, ...) and then has a
list of writes left, `calls[p].left`; what it read (`todo`, `spent`, `row`) is
used by writes that may come much later, and `End` may cut the list anywhere.
`calls[p].work` is the handler: it tells which status the package gets and
which rows a step writes. Two handlers interleave at every write when `Proc` has
two members.

`tasks` is the table `build_tasks`. `of` is the build a row is about
(`params.review` of a project build, `params.task` of an audit or a publish
job), `by` the approver, `over` says that `lease_expires_at` has passed (the
clock is left out: `LeaseRunsOut` may come whenever nobody renews). `busy[w]` is
a worker: its task, and which of its tokens are alive. A claim and a heartbeat
each answer with a job token of thirty minutes; `first` is that of the claim,
`renewed` that of the latest heartbeat. The daemon builds its client from the
first and never replaces it, so `Produce` asks for `first` when the work goes to
the pool. A community worker has a token of its own that does not run out.

`staging` and `edge` are the R2 prefixes, by build. `Produce` puts the package
there; the log and the recipe may be lost on the way, since the worker only logs
that, and then `handleComplete` refuses the completion (`Evidence`).

`Work` says which callers an instance has: it bounds the runs and changes no
action. Left out here: more than one architecture, the registration of workers
and packages, version bumps, blocks (`Contributors` has those), the bytes
(`Seal`), what an audit says, dry runs, the clock of shared workers, and the
rules of the scheduler (`Scheduler`). The pool jobs other than publish are one
kind that does nothing to packages.

### Contributors

As in `JobQueue`, `calls[p].left` is the list of awaited writes a handler has left,
and `End` cuts it anywhere. `bucket` holds documents and signatures apart, since
`putRecord` writes one after the other. A URL is the project's home, how it is
spelled (repository, release page, tarball, other) and the release it names:
`parseProjectUrl` says what becomes of each form; the letter case of a GitHub URL,
which the code does not normalise, is left out. The governance file is one of
the versions of `File`, an empty version standing for one that cannot be read.
`age` of a task counts its two deadlines (14 days to shared workers, 30 to
unmaintained), `DaysPass` moves it. What workers and maintainers do to a task is
one step.

`Serial` lets a handler start when none is under way, apart from what died: the
lookups of name and project and the insert are awaits of one handler, and
nothing but the primary key of names keeps two handlers apart.

### Scheduler, JobAccess and Pipeline

`tick` is one invocation of the cron: the steps left (`requeue`, provenance scan
and its mark, metrics, cost, audience, guard, the rules, the workflow), the jobs
left to look at (each named by its rule and its place among the rule's jobs), the
one found due. `TickCut` ends it after any step. Times are
minutes of the day, and the clock stops at those of the deployment; what the
code compares with the clock is an age, kept up to `Old`, a day and a minute.
`tasks` keeps, per kind and parameters, the rows in flight and the age of the
newest. `RULES` is the table of `scheduler.ts`; `handleQueueJob` is a maintainer.

`JobAccess` has three tables side by side: what token a claim issues for a task
(`jobtoken.ts`), what each route asks for (`auth.ts`, `index.ts`), and which calls
the Rust jobs make. They are written in two languages by different programs;
`JobsMayFinish` says they agree.

In `Pipeline`, a worker's job is its list of calls, `work[w].pc`, per target ring.
A ring's head is the selection it pins and whether it was taken from another
release; `promo[r]` is the latest sourced release on the line of parents, which
`last_promotion` walks to, with its age. `served[r]` is what the rendered databases
list. `Fail` and `Stop` come between any two calls; a lost job is requeued by the
tick and tried again from its first call. Health and evidence come out either
way. Not in it: a promotion of one architecture.

### PoolObjects, Seal and Advisories

A build is its sha256. `objects` is the bucket: a key (directory, architecture,
file name) to the bytes, and whether R2 knows their sum, which it does not for
an upload in parts. `client[c]` is a sync or publish job at one build: ask what
is known, upload, sign, index (the row, then its batches), pin. `move` is the
relayout job, whose page is copied row by row, interleaved.

`Seal` adds builds, staging and approvals: an attempt is the bytes it makes, a
lapsed worker goes on uploading, `puts` are uploads under way that passed their
check. `factoryChain` is the lookup by hash, `Attest` the write of the attestation,
which may be lost with the invocation.

`Advisories` adds the tables and a run: it reads the rings first, asks the feeds
later, writes each advisory and finding in steps of its own, prunes, views the
candidates through the cache and pins. `cache` answers with what it was given
until `Expire`. Which builds an advisory affects, and which version is newer, are
constants.

## 3. The runs

| run | checks | states |
|---|---|---|
| `store_concurrent` | numbering, head and live rows, deltas, and a checkpoint behind every release, with two creators and readers overlapping at every await | 1.2 M |
| `store_promise` | one invocation at a time over two rings: reads, reconstruction and summaries exact, artifact rows current, and `History`: the rows implement the store of full copies; the retention job works at the end, over releases that are all inside retention | 1.5 M |
| `store_retention` | with the retention job taking turns and ending anywhere: what is inside retention can be rebuilt and its objects stay; beside paged walks and comparisons: a walk lists one release, a comparison turns one selection into the other | 0.9 M |
| `pkgstore` | kills and failures at every step: `RestAgrees`, `TrackedExact`, `LeftoversAreRecorded`, the refinement `Atomic`, and `Settles` | 0.3 M |
| `queue_settles` | contributors' and project builds, manual and scheduled jobs, cancellations, expiring leases and tokens, workers and invocations that die: every task ends, and what ended stays ended | 0.16 M |
| `queue_approval` | from a contributor's staged build to the published package, with rejections, removal of the registration and a death; and two handlers interleaving at every write while project builds are decided: what enters edge was approved, what is done is served | 1.1 M |
| `people` | requests, blocks, builds and bumps of two people and a maintainer, one request at a time, with an invocation that ends anywhere: `OnRecord`, `OwnRequest`, `OneNamePerProject`, `BlockedAreIdle` and `BumpsEnd` | 0.8 M |
| `people_overlap` | two daily checks that overlap at every await, or die: two builds of a release may come of it, never a third; and applies of four versions of the governance file, two of which may die, and sign-ins beside them: an apply that comes to its end has set every role | 1.0 M |
| `pipeline` | ticks cut short anywhere, workers that stop, jobs by hand, failing promotions, a bill over budget, a moving upstream: what starts and how often, the guard, the books, the scopes of tokens, the soak, the rollback | 1.1 M |
| `pool` | two publishers, upstream rebuilds, uploads in parts, the move of the layout, builds under review, security runs, each of which may stop: rows and their bytes, what stays fetchable, seals, findings, and that the move ends | 0.27 M |

Two more runs reach a state that a document or a comment of the repository says
cannot be:

| run | what happens |
|---|---|
| `pipeline_soak` | nothing goes wrong, rc is promoted into at 06:10 every day, and at 09:10 the gate of stable finds it three hours old, every day: stable does not move |
| `pool_seal` | a recipe on main is built twice at one version: the second publish keeps the first one's object, and the attestation of that object is signed anew, naming the second build |

`pipeline_soak` is checked under `Smooth`, in which every step that can be taken is
taken in the end and nothing fails, so the counterexample is not a system that
stopped.

**What is claimed of overlapping handlers.** Handlers of the queue check in one
statement and write in another, and the write names the row by id alone. With
one handler at a time (`queue_settles`) tasks that ended stay as they ended. With
two, a completion can land on a task that was cancelled or requeued after its
check, and `Final` does not hold; nor does the code promise it. What holds in
every interleaving is stated over what the handlers cannot undo: the builds in
edge and the publish jobs maintainers queued. For the same reason nothing says
that a task is queued once: looking for a duplicate and inserting are two
statements, and a duplicate ends like any other task. A rejection after an
approval leaves the publish job queued, and the build is published:
`EdgeIsTheProjects` asks who approved, not whether somebody else rejected later.

Likewise in the release store: a promotion reads its source's head before the
batch reads that ring's live rows, and `History` is claimed with one writer per
ring. `OwnRequest` and `OneNamePerProject` are claimed with one request at a time:
two that overlap between lookup and insert both pass the lookup.

So this is what the runs that take turns do not show. `ReadExact`, `SummaryExact`,
`RebuildExact` and `History` (`store_promise`) say nothing of creators that overlap:
`AllCanRebuild` is what is left of reconstruction then: `RebuildExact` and
`SummaryExact`, put into `store_concurrent.cfg`, are violated within seconds.
`Settles` (`queue_settles`) has no renewal between the SELECT of an expiry and its
UPDATE, and `DiffExact` nothing between the look-ups of a comparison and its rows. `OwnRequest`, `OneNamePerProject` and
`BlockedAreIdle` have no request that passed its door before another's write.
`RowsNameTheirBytes` has publishers of one source that take turns. The
hazards of PROJECT.json carry these limits as notes.

`AppliesMend` holds with overlapping sign-ins and deaths, where two things are so.
`OneApply`: one apply at a time; the cron ticks every ten minutes and an apply takes
seconds. `FreshSignIns`: when an apply has read the people, no sign-in still holds
what an earlier file said; a sign-in holds the role for one await. Nothing in the code
enforces either, and without the second TLC finds `AppliesMend` violated. `BumpsBounded` needs
neither.

### What the code does and no property says

Met while modelling, each either outside what a run assumes or promised by
nobody; the line is where it happens.

- Two creators of one ring: one reads its parent before the other's batch
  (`releases.ts:56`) and its seq after it (`:78`). The parent link skips the other's
  release and the delta does not, and its own is rebuilt without what the other
  changed.
- One that finds its release to be the head (`db.ts:39`), while another moves the ring,
  keeps the ring's new rows as the summary of its own release.
- An apply of the governance file that dies after its batch (`governance.ts:78`) leaves
  roles as they were: the hash says it was applied, and no tick looks again before
  the file changes. So does a sign-in that read its role before an apply
  (`contributors.ts:113`) and writes it after.
- The retention job ends between an object and its index row (`gc.ts:102`): a
  later release may pin a package without bytes. A reader that materialises a
  release between the selection of retention and its deletes sees it empty
  until the flag falls (`gc.ts:83-86`); the job that dies between rows and
  flags leaves flagged releases without rows outside retention, of which a
  comparison answers 200 with an empty side.
- The deletion of a committed transaction's record fails
  (`transaction.rs:185`): the files are rolled back, the tables are not.
  The classes "delete" and "cleanup" of
  `Fallible` model it; `pkgstore` leaves them out.
- A build outlives the token of its claim (`work.rs:438`): heartbeats keep the
  lease and renew another token, and the build is refused when it stages.
- A publish job in a worker's hands when its package is blocked
  (`blocks.ts:104`) keeps its token and can put the package back into edge; the
  packages of a blocked contributor are not pulled from the rings, and bumps of
  what was approved go on (`updates.ts:69`).
- Daily checks that overlap (`updates.ts:89`, `:93`), as a cron tick that outlives the
  next one, can each find no pending bump and each queue one; `BumpsBounded` says how
  many that can be.
- The uploads with which a promotion aligns the OPR channel are refused for the
  promotion's token and only logged (`jobtoken.ts`, `work.rs:1549`). A promotion
  that died after its release is tried again, finds nothing to promote and is
  neither rendered nor checked (`work.rs:1509`). The gate's head is read before
  the promotion reads it again.
- A maintainer may queue a fast track for the aarch64 worker (`jobs.ts:73`) or a
  promotion back into edge (`jobs.ts:37`), where that worker's sync also pins. Either
  moves a ring under a promotion that the x86_64 worker has in hand: the soak its
  gate saw is no longer that of the head it takes, and the automatic rollback puts
  back a release older than the one it replaced. `SoakHolds` and
  `RollbackRestores` are claimed where nobody asks for these (`OneFastTrack`,
  `Onward`).
- One request may add two packages of one slot (`releases.ts:61-76`): each replaces
  what the base had and not the other, both are then in the ring, and a comparison
  with such a release pairs each of them with every package of the slot on the
  other side. No caller does; `AddsApart` says so where it matters.
- An object without index row (a crash after the upload) keeps its file name
  for good; rows whose object is missing stall the relayout and its purge. Uploads
  in parts have no sum that R2 checks, and overwrite: of two rebuilds of one size
  the second is indexed over the bytes of the first, if a job that uploaded the
  first ended before its row (`ToldApart`).
- A row from before the `r2_key` column matches no `NOT LIKE 'ghost/%'`
  (`packages.ts:171`), so until the first call of the relayout the rebuild of such a
  package is stored in the new directory, where pacman looks first (`NullsAlone`).
- An approved build whose file name is stored with other bytes pins the old
  object and is done all the same (`factory.ts:352-360`).

**Bounds.** `MaxReleases` 3 or 4 with `CheckpointEvery` 2 gives a first
checkpoint, a release that only has a delta, a second checkpoint and a release
past it; `Keep` 1 or 2 then has releases outside retention, a base and a
protected one. Two invocations are enough for a read of one to go stale under a
batch of the other, and a third release lets the damage be read. The four
packages are two builds of a slot, a build of another source that shares an
object with the first, and a build of the other architecture. In `store_promise` the
retention job works at the end alone, over three releases that are all inside
retention and not rendered (`PromiseBound`): what it deletes is then no part of what
the properties promise. `store_retention` follows
four releases, one of which may roll back to the first, from inside retention or from
outside; and, with clients beside them, three: a build, then its successor or another
source's build of the name (`ReadsBound`). A walk pages
one row at a time, so that each boundary falls between two rows, and `MaxUnpaged`
is 1. In `PkgStore`, four transactions (install, upgrade, takeover, removal) and
three faults (a kill in commit, one in recovery, a failure) over two paths and
four manifests reach a kill at every label of commit, rollback, cleanup and
recovery, and a recovery of a recovery.

In `JobQueue`, two tasks and two attempts each, with two deaths, reach a retry, an
exhausted task, an expiry that overtakes a report and a duplicate. The way from
a contributor's build to edge takes seven rows and more, so `queue_approval`
starts from two states the queue comes to (`MCJobQueue`): the contributor's
build staged, with one handler at a time; and a project build staged while
another waits, with two handlers, no further deaths and no removal of the
registration (`ApprovalBound`, an action constraint). Each has room for two or
three rows, which are the rest of the way. One package is enough: handlers touch
rows of one name, and the queue's order between names is by priority and id
only. The owner is a maintainer as well, so that a decision over one's own
package is possible to ask for.

`people` starts from two states (`MCContributors`): requests, sign-ins and blocks
with no room for builds, and an approved package with room for two builds, two
releases upstream and a worker. Two names of one project, a request of each, and
a registration from before requests make the collisions. In both one maintainer
places the blocks and any other may lift them; in the second nobody signs in
anew, which touches nothing a build has (`PeopleBound`, an action constraint that
prunes no step fairness is about). One fault is a cut at any write;
`BumpsEnd` needs the age to reach both deadlines, which `DaysPass` counts in two
steps. `people_overlap` has two invocations and starts from two
states of its own. In one there are an approved package, its owner's worker and the
daily checks alone, with room for a third build, the one that must not come, and one
death. In the other there are people only, who sign in while applies go on: the file
adds one, drops another, is once unreadable and once says the same in other bytes,
and two deaths leave two applies half done before the one that mends. There the action
constraint, `OverlapBound`, also has the two assumptions above.

`pipeline` starts in one of several scenes (`MCPipeline`): the books over a
repository of two packages and a fetch budget of two, the bill and its guard
over a day, the workflow at GitHub, interval and weekly rules with a maintainer
beside them, the daily promotions with both due at one stop of the clock, forced
and failing promotions, a promotion beside the other worker's sync, and each job
by hand (promotions, syncs and security runs with their effect on the rings, the
others as a row in the queue). A scene has the stops at which
something falls due and one before; attempts are two, so that a job is retried
once and then fails. `pool` too: a scene per combination of builds, layout,
advisories and review that matters (`MCPool`); two builds of one file are enough
for a collision, a page of two rows for a page that moves something and one that
does not, two runs for one that starts over what another left.

**Deadlock** is not checked where the instance rests at its bounds with nobody
asking for anything (`queue_settles`, `queue_approval`, `people`,
`people_overlap`, `pool`, `pool_seal`); the releases, the transaction engine and the scheduler always have a
next step.

**Fairness.** `ReleaseStore` has safety properties only: nothing in it must
happen in the end. `PkgStore!Spec` is weakly fair to the process's own steps,
those of recovery and the opening of the store included: a process that is not
killed goes on, and faults are bounded. Without that assumption `Settles` would
say nothing of the code.

`JobQueue!Spec` is weakly fair to the writes of a handler that has started (it is
ended by a fault or goes on), to the work of a worker and to leases nobody renews.
Claims, reports and ticks are strongly fair: each needs a free invocation, and
the number of `Proc` bounds what overlaps, while the platform serves every
request sooner or later. No fairness is given to maintainers, to
contributors, to heartbeats or to the running out of tokens.

`Contributors` is weakly fair to writes and to the passing of days, strongly to
the daily check, which needs a free invocation; people, workers and GitHub owe
nothing, so `BumpsEnd` rests on the check's own deadline. `Advisories!FairSpec` is
weakly fair to the steps of the relayout alone: the job is tried again after a
death, and deaths are fewer than its attempts. `Pipeline!Smooth` is described
above; the other properties of `Pipeline` are checked without fairness.

## 4. The proofs

A theorem holds for every value of the constants its module's `ASSUME`s admit:
any number of invocations, rings, packages, people, tasks, any bound. Those
assumptions are types (`StoreAssumption`, `ReadsAssumption`, `PkgStoreAssumption`,
`QueueAssumption`, `ContributorsAssumption`, `SchedulerAssumption`, `PipelineAssumption`,
`PoolAssumption`, `SealAssumption`, `AdvisoriesAssumption`), that the cursor's order
knows the slot of every package (`ReadsAssumption`), that `flat` is no source and null
no build (`PoolAssumption`), that the soak is no longer than
the ages that are counted (`PipelineAssumption`), and what the handlers refuse at the
door (`RequestsAccepted`). Where a theorem
needs more, its `ASSUME` says so, and the sections below say why. Each proof has the same
shape: an inductive invariant, the lemma that `Init` has it, one lemma per
action, and a temporal step.

### Release store

| theorem | property | under |
|---|---|---|
| `TypeCorrect` | `TypeOK` | |
| `HeadIsLast` | `LiveIsHead` | |
| `DeltasExact` | `DeltaExact` | |
| `RetainedAreIntact` | `RetainedIntact` | `Serial` |
| `RetainedObjectsAreKept` | `RetainedObjectsKept` | `Serial` |
| `EveryReleaseRebuilds` | `RebuildExact` | `Serial`, no retention job |
| `EveryReleaseHasACheckpoint` | `AllCanRebuild` | no retention job |
| `ReadersGetTheRelease` | `ReadExact` | `Serial`, no retention job, one invocation |
| `SummariesAreTheReleases` | `SummaryExact` | the same |
| `ArtifactsAreCurrent` | `ArtifactsCurrent` | the same |
| `StoreKeepsThePromise` | `History` | the same |

*Types.* The types alone are not inductive: that a batch writes below `made`,
that the walk of a reconstruction follows ids of rows, and that an invocation at a
label has read what the label uses is `Control`, and `Types == TypeOK /\ Control`
is.

*Order.* What makes `LiveIsHead` inductive is `Numbered`: the seq an invocation has
read is at most one past the last of its ring, so of the batches that overlap,
UNIQUE (ring, seq) lets through only one that is the next. `DeltaExact` follows:
the live rows a batch computes its delta from are those of the head, whatever the
invocation read earlier. `Order` is the conjunction.

*Retention.* `RetentionInv == HistoryInv /\ Based /\ Indexed /\ VictimsFree`.
`HistoryInv` adds to `Order` that a release's parent is the one numbered before it
(`Linked`) and what `Serial` gives (`Scheduled`: at most one invocation that
creates in a ring, and nobody else while the job is at work). `Based` is the idea: every ring
with a release has a *base*, a checkpoint no younger than anything protected, from
which on rows and deltas are as the releases were made (`Sound`). The job
finds it again (the newest checkpoint at or before the oldest protected release),
and each of its three statements, rows, flags, deltas, leaves the base and what
follows it alone, so it may end after any of them. `Indexed` says that what
protected releases hold is indexed, and `VictimsFree` that what the job chose to
remove is held by none of them, at every await until it is removed: a package is
a victim only if no live row, protected delta or kept checkpoint names it, and what
a protected release holds came by one of these.

*Reconstruction.* `CanRebuild` and `Rebuilt` are recursive functions over the ids.
That they satisfy their equations at every id is proved by least counterexample
(`LeastExists`, from the well-founded order of the library; `CanRebuildIs`,
`RebuiltIs`), and so is that reconstruction is exact from the base up: the least
id of the ring where it is not has a parent where it is, and its delta is exact.
With that, a checkpoint that a reader writes in the middle changes nothing
(`Rebuilders`: whoever is rebuilding carries the selection of the release it
stands at).

*Creations that overlap.* A parent may then be a release that is no longer the head, or
none, whatever the number. `RootInv` says that whoever found no parent checkpoints its
release, from the await in which that is decided to the batch, and that parents are
older; the oldest release without a checkpoint behind it would have no parent, and be
one. That the reconstruction is exact is false then (section 3).

*Readers and the refinement.* `Whole` adds to `RetentionInv` that nothing leaves the
index and, per invocation, what the rows it has read so far amount to (`Reads`).
An invocation that reads the live rows and then writes what it made of them is
exact only if no batch came in between, which is why these four assume that
invocations take turns: with overlap a reader of the head answers with the rows of
the next head. The retention job is left out of them because a job that ends between
the deletion of rows and that of flags leaves, *outside* retention, releases that
are flagged and have no rows. `StoreKeepsThePromise` maps every batch that goes
through to `CreateRelease` of `RingHistory`, with the base, the additions and the
removals that the request named, and everything else to a stutter.

### Readers of a release

| theorem | property | under |
|---|---|---|
| `WalksListOneRelease` | `WalkExact` | `Serial` |
| `ComparisonsTurnOneIntoTheOther` | `DiffExact` | `Serial`, `AddsApart` |

Both go through the retention job, which may stop between any two of its statements.

*Walks.* `WalkInv` is `RetentionInv` and `Walked`: while the release a walk is pinned to is
inside retention, the walk has listed the packages of it up to its cursor, and all
of them once it is over. A release inside retention was inside it at every earlier
page, because what is protected only moves forward (`RetainedShrinks`), and each page
reads it as it was made (`MembersAreHeld`). What a page adds is a lemma about the
order of the slots (`PageIs`): its packages are those between two cursors, whatever
the limit. That `RetentionInv` survives a request is not obvious, since a request
writes checkpoints of releases of any age; it does because what it writes is exact
wherever the release is protected, and elsewhere nothing rests on it.

*Comparisons.* A comparison reads two selections and pairs their packages by slot, so it is
wrong as soon as a side has two packages of one slot. That cannot be had from
`RetentionInv`, which says nothing of releases outside retention, half swept, from
which a request may rebuild and which it may flag as checkpoints. `TidyInv` follows
those as well: the rows kept of any release are some of what it was made to hold,
which has one package for each slot, and a release with an older checkpoint in its
ring has its exact delta (`Backed`, in `Tidy`). The job keeps that because it drops rows,
then flags, then deltas, and a delta only goes when every older checkpoint of the
ring has gone (`Sweeping`), so it may end after any of them; and an invocation
under way rebuilds from a checkpoint it has really found (`Tracking`).

### Transaction engine

| theorem | property | under |
|---|---|---|
| `TypeCorrect` | `TypeOK` | |
| `OneOwner` | `TrackedExact` | |
| `RecoveryFindsAll` | `LeftoversAreRecorded` | `Careful` |
| `FilesAgree` | `RestAgrees` | `Careful` |
| `TransactionsAreAtomic` | `Atomic` | `Careful` |

`Careful` is two things the code leaves to others. `Reopens`: after
`RollbackFailed` the caller opens the store anew before its next transaction (the
engine keeps the record and expects it; nothing prevents the opposite). And the
cleanup after a commit and the deletion of a record do not fail: a cleanup that
fails is logged and its record deleted all the same, so its backups stay and a
later rollback over the same path may take one for its own; a record that cannot be
deleted after a commit sends the engine to rollback. Kills at any step, failing
operations, failing rollbacks and failing recoveries are all in.

`OwnersInv` (`TypeOK`, `TrackedExact`, `Accepted`: a plan under way was accepted against
the tables as they still are) carries the tables. `CrashInv` adds `Recorded`, the
record of an unfinished transaction names what is parked or staged, and how far the
process at work has come in it. `PromiseInv` adds `Planned` and `Agrees`: outside the
paths the record tells of, the files agree with the tables, and inside they are what
undoing the record would make agree. The abstract state of `Atomic` is that undone
state, which is why a rollback, half of one, and a recovery killed in its turn are
stutters, and the commit of the tables is the one step.

### Job queue and review

| theorem | property | under |
|---|---|---|
| `TypeCorrect` | `TypeOK` | |
| `EdgeOnlyFromReview` | `EdgeIsTheProjects` | |
| `DoneIsInEdge` | `DoneIsServed` | |
| `EndsAreFinal` | `Final` | one handler at a time |

`Inv == TypeOK /\ CallsFit /\ HandsFit /\ Placed` follows a build through everybody's
hands: what a handler has left to write is a tail of its own writes, about a row of
the right kind (`CallsFit`); when a worker has done the work of a publish job, the
build is in edge (`HandsFit`); every publish row is of a project build for a review
and asked for by somebody other than the owner, and what is in edge has one
(`Placed`). None of it can be undone by a handler that overlaps, so the first three
theorems assume nothing of the schedule. Rows' statuses can be undone, and `Final`
is proved for the schedule it is claimed for: `AllSteady` says that what a handler
read when it started still holds when it writes. The runs of `queue_approval` start in
the middle (a staged build, a handler away), the theorems at the empty queue.

### People

| theorem | property | under |
|---|---|---|
| `TypeCorrect` | `TypeOK /\ CallsFit` | |
| `RegistrationsAreOnRecord` | `OnRecord` | |
| `BumpsAreBounded` | `BumpsBounded` | |
| `RequestsAreTheOwners` | `OwnRequest` | `Serial` |
| `ProjectsHaveOneName` | `OneNamePerProject` | `Serial` |
| `BlockedStayIdle` | `BlockedAreIdle` | `Serial` |
| `AppliesMendRoles` | `AppliesMend` | `OneApply`, `FreshSignIns` |

`OnRecord` holds in every interleaving because the writes of a request have an
order (row, document, signature, pointer, registration) that every invocation keeps
and nobody takes one back: `Recorded` says of each invocation which of them are
done. `BumpsBounded` does although the look for a pending bump and the insert are two
awaits: `BumpsInv` counts the builds of a release together with the checks that have
looked, found none and not inserted yet. A check looks again before each insert, and finds none
only if there is no build; so whoever passes the look has the builds at zero, and from
there on the sum is at most the number of invocations. A check that died and ran
again adds nothing to it. The next three are claimed, and false without it, where requests
do not overlap: a name or project that was looked up may be taken before it is written, and a block
may come between the door and the insert. `SerialInv` says what the one invocation
under way may rely on (`CallsRely`) and what the tables satisfy between its writes
(`HandsInv`); `RolesInv` says that whoever signed in has the role of the file an apply is writing, or is
among those it still has to write, from the await in which it read the people on;
a death ends the apply and with it the claim, and the next apply compares every role
with its file anew. The two assumptions are stated over the whole behaviour
(`Spec /\ [](OneApply /\ FreshSignIns) => []AppliesMend`), not as a schedule.

### Scheduler, tokens and rings

| theorem | property | under |
|---|---|---|
| `StartsOnce` | `ScheduledOnce` | |
| `GuardPauses` | `PausedWhileUp` | |
| `ScanExact` | `ProvenanceExact` | |
| `JobsCanFinish` | `JobsMayFinish` | |
| `SoakKept` | `SoakHolds` | `OneFastTrack` |
| `RollbackGoesBack` | `RollbackRestores` | `OneFastTrack`, `Onward` |

They hold for any set of deployments: which rules run, at which stops of the clock,
what maintainers ask for, how large the repository and the budget of fetches are.

*Scheduler.* `SchedInv == TickInv /\ TasksInv /\ EnvInv`. `TickInv` is the order of a tick's steps:
the estimate comes before the guard's step and that before the rules, so that
while the guard is up no job left to look at, and none found due, is one that
writes. `TasksInv` says that a job found due has no task of the scheduler until it is
inserted, and that a task in a worker's hands is in the table. `DayInv` is what makes
the second half of `ScheduledOnce` inductive: a job dispatched today has a row, or a
run, since its slot, so `isDue` refuses it until midnight, also in the tick that
is cut short between the insert and the event. `ScanInv` says that from a complete
scan to its mark nothing else writes the table; the scan itself is exact because a
package that is left out for want of budget keeps the scan incomplete.

*Tokens.* `JobsCanFinish` goes through every kind of job the rules and a maintainer's
request can make (`FromRules`, `AskedJob`) and compares what its calls ask for with
what its claim grants.

*Rings.* `RingsInv` says how far each worker is in its job (`Fits`), that past the gate the
source has soaked and goes on soaking (`Soaked`), and that what a promotion goes
back to is what its ring served when the job began (`Restores`). It is inductive
because the two workers move different rings: what the aarch64 worker does is
`Aside`, it pins edge alone and promotes nothing. That is false of two jobs a
maintainer may queue by hand, which `OneFastTrack` and `Onward` leave out (section
3 says what happens with them). Everything the rules queue is in, with every stop and
every retry, and so are the promotions, syncs and security runs a maintainer queues.
Every other job queued by hand is claimed and done at once (`Begin`): a rollback, a
render, a health check, an import, a verification, a retention run, a relayout have
their rows, attempts and scopes in the model, not what they do. So the theorems about
rings say nothing of a ring that a maintainer rolls back or renders by hand.

### Objects, seal and security

| theorem | property | under |
|---|---|---|
| `SealsHaveApprovals` | `SealsAreOfApproved` | |
| `FindingsAreTheRuns` | `RunsReplaceFindings` | |
| `FindingsAreNotLost` | `FindingsStand` | |
| `RowsHaveTheirBytes` | `RowsNameTheirBytes` | `Orderly` |
| `FetchedStaysFetchable` | `FetchableStays` | `Orderly` |

Queue, staging, publishes, relayout and security runs interleave as they like.
`IInv == PoolInv /\ SealInv /\ RunInv`: ids in hand are of
rows, and rows keep the build they are of; a publish job, and what its worker
carries, is of a build a maintainer approved; a run that is past its reads has the
stamp that separates its findings from older ones, and has written a tail of them.

*Bytes.* A publishing job asks, uploads, signs and indexes in calls of their own, and
the relayout copies beside it. `ObjInv` says what each still has of what it read. A
job that stores a build stands alone in a place that only ghosts of other builds
share (`Free`), what it signed is what is there (`CanSign`, `Beside`), and a row that
the relayout has in its hands has not moved and finds in its new place what it last
saw (`Copied`). `Agrees` relates each row to its two keys; a ghost has its bytes in
neither, and that is why a row that can be fetched is never turned into one.

`Orderly` (`Seal`) is what this rests on, and each of its first three parts is
needed: with a scene of `MCPool` changed to lack it, TLC finds a violation.
Publishers of one source and architecture take turns; an upload in parts, whose
sum R2 does not know, has the size of no other build of its place (`ToldApart`);
what may be stored in the place of a row with no `r2_key` is that row's build
(`NullsAlone`); and the deployment starts with rows and objects that agree
(`StartsSound`). The systems of both runs are `Orderly`: `MCPool` has it as an
`ASSUME`.

### Only model-checked

- Liveness: `Settles` (both), `BumpsEnd`, `LayoutMoves`. Fairness is out of the prover's
  reach.
- The two runs that find a violation.

## 5. Not modelled

- Pages, search, graph and statistics: they read and display.
- The thin client, which reads the API and wraps pacman (its paged read is
  `ReleaseReads`); extraction of packages; hooks.
- Version order, constraints and the ABI comparison: pure functions over
  strings; modules that need an order take it as a constant.
- Of people: the trust a maintainer gives a worker, categories, sessions and
  tokens as such, the content of checklists.
- The edge cache outside the security routes, by which a comparison may be
  answered for five minutes after retention pruned a side.
- What a rollback queued by hand does to its ring in `Pipeline`, and a render
  queued by hand to its databases (`ReleaseStore` has rollbacks and renders as
  calls of the store).
- Promotions of one architecture in `Pipeline` (`ReleaseStore` has them), the
  history's limit of fifty releases for the last promotion, and a GitHub run that
  is not visible right after its dispatch.
- Formats everywhere: database files, signatures, JSON, SQL text, HTML.

## 6. Plan

1. `Versions`: `vercmp`, constraints, and the ABI comparison as operators, against
   a reference order over bounded versions (antisymmetry, transitivity).
2. The block of a package composed with a publish job in hand, and the trust of
   workers, once `Contributors` is split so that the instance stays small.
