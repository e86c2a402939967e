--------------------------- MODULE MCContributors ---------------------------
(***************************************************************************)
(* Small instances of Contributors: a maintainer, one whom the file on     *)
(* main adds, and a contributor, with a package of a project and an older  *)
(* registration of the same project.                                       *)
(***************************************************************************)
EXTENDS Contributors, TLC

CONSTANTS ann, eva, mia, pkg, tool, home

MCFile  == <<{eva}, {}, {eva, ann}>>
MCUrl   == {[home |-> home, form |-> f, tag |-> MaxTag] : f \in {"repository", "tarball", "other"}}
MCOlder == [n \in {tool} |-> [owner |-> ann, project |-> home]]

StartsFrom(version, registrations, asked, builds, release, hosts, ended) ==
    /\ main = version /\ known = version /\ maintainers = File[version]
    /\ contributors = [l \in Login |-> [role |-> roleFor(l), by |-> None]]
    /\ workers = hosts /\ checked = FALSE
    /\ packages = [n \in Name |-> IF n \in DOMAIN registrations THEN registrations[n] ELSE None]
    /\ requests = [i \in 1 .. asked |-> [name |-> pkg, owner |-> mia, project |-> home, migrated |-> FALSE,
                                       record |-> TRUE]]
    /\ bucket = (1 .. asked) \X {"request.json", "request.json.sig"}
    /\ tasks = builds
    /\ approvals = [n \in Name |-> IF n = pkg /\ asked > 0 THEN 1 ELSE 0]
    /\ latest = [j \in Project |-> release]
    /\ calls = [p \in Proc |-> Call] /\ faults = ended

\* Ann's builds of an earlier registration failed and it was removed: there is
\* room for requests, roles and blocks.
Asking ==
    StartsFrom(1, [n \in {tool} |-> Registration(ann, home, "registered", 0, 1)], 0,
               [i \in 1 .. MaxTasks |-> [Build(tool, ann, 1, 0) EXCEPT !.status = "failed"]], MaxTag,
               [w \in 1 .. MaxWorkers |-> [owner |-> ann, revoked |-> TRUE]], 0)

\* Mia's package is approved: there is room for builds, bumps and blocks.
Building ==
    StartsFrom(Len(File), [n \in {pkg} |-> Registration(mia, home, "approved", MaxRequests, 1)], MaxRequests,
               <<>>, 1, <<>>, 0)

\* Bound (action constraint): of the maintainers eva places the blocks, and where
\* builds are followed nobody signs in anew: that is asked of the others.
Asked == tasks # <<>> /\ tasks[1].name = tool
PeopleBound ==
    \A p \in Proc : /\ calls'[p].work = "block" => calls'[p].who = eva
                    /\ ~Asked => calls'[p].work # "signIn"

PeopleSpec == (Asking \/ Building) /\ [][Next]_vars /\ Fairness

\* Where invocations overlap: the file on main adds eva and drops mia, and its
\* fourth version says the same in other bytes. Nobody asks for anything.
MCFiles   == <<{mia}, {}, {eva}, {eva}>>
MCNoUrl   == {}
MCNoOlder == [n \in {} |-> [owner |-> mia, project |-> home]]

\* Mia's package is approved and she has a worker: the daily checks overlap.
\* One of them may die.
Checking ==
    StartsFrom(Len(File), [n \in {pkg} |-> Registration(mia, home, "approved", 1, 1)], 1,
               <<>>, MaxTag, <<[owner |-> mia, revoked |-> FALSE]>>, MaxFaults - 1)

\* There are people only.
Applying == StartsFrom(1, MCNoOlder, 0, <<>>, MaxTag, <<>>, 0)

\* Bound (action constraint): the checks alone; or applies, of which one is under
\* way at a time, and sign-ins that hold no role of an earlier file.
OverlapBound ==
    IF requests # <<>> THEN workers' = workers /\ \A p \in Proc : calls'[p].work \in {"none", "updates"}
    ELSE /\ \A p \in Proc : calls'[p].work \in {"none", "governance", "signIn"}
         /\ OneApply' /\ FreshSignIns'

OverlapSpec == (Checking \/ Applying) /\ [][Next]_vars

\* Invocations are interchangeable.
MCInvocations == Permutations(Proc)
=============================================================================
