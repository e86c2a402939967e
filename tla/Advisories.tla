----------------------------- MODULE Advisories -----------------------------
(***************************************************************************)
(* The security layer over the index (worker/src/routes/security.ts and    *)
(* the edge cache of index.ts; crates/pkg-repo/src/security.rs, osv.rs and *)
(* the security job of work.rs): the feeds are matched against what the    *)
(* rings serve, the findings of the run replace those of the run before,   *)
(* and the fast-track pulls clean versions into a ring.                    *)
(***************************************************************************)
EXTENDS Seal

CONSTANTS
    Adv,      \* advisories, each about one package name
    About,    \* [Adv -> package name]
    Affects,  \* [Adv -> SUBSET Build]: the builds it is open on
    Osv,      \* the advisories that are about embedded components
    Embeds,   \* the builds whose manifest lists components
    Newer,    \* pairs of builds of a package: the second has the newer version
    MaxRuns   \* bound: security jobs

\* The feeds a system starts with hold advisories.
ASSUME AdvisoriesAssumption == \A d \in Deployments : d.feeds \subseteq Adv

VARIABLES
    feeds,       \* the advisories published so far
    advisories,  \* table advisories: advisory -> updated_at, 0 for no row
    matches,     \* table package_advisories: <<id, advisory>> -> [at, status]
    run,         \* the security job
    runs,        \* security jobs so far; the stamp of the last
    cache        \* the edge cache: the answers of GET /security and /security/components

tables  == <<advisories, matches>>
secVars == <<feeds, tables, run, runs, cache>>
vars    == <<poolVars, sealVars, secVars>>

Target == "stable"   \* the ring the fast-track is asked for
Source == "edge"     \* the ring it takes clean versions from

NoRun == [pc |-> "idle", at |-> 0, feed |-> {}, objects |-> {}, found |-> {}, left |-> {}, picks |-> {}]

Init ==
    /\ PoolInit /\ SealInit
    /\ feeds = env.feeds
    /\ advisories = [a \in Adv |-> 0]
    /\ matches = <<>>
    /\ run = NoRun
    /\ runs = 0
    /\ cache = <<>>

Name(i)   == NameOf[rows[i].file]
Served    == UNION {rings[r] : r \in DOMAIN rings}
InRing(r) == IF r \in DOMAIN rings THEN rings[r] ELSE {}

-----------------------------------------------------------------------------
(* What GET answers, through the edge cache (cachedApi): an answer that is *)
(* there and not over is given again.                                      *)

\* handleComponents: the served rows with components in the index.
Components == {i \in Served : rows[i].whole /\ rows[i].sha \in Embeds}

Open(i) == {a \in Adv : <<i, a>> \in DOMAIN matches /\ matches[<<i, a>>].status = "vulnerable"}

\* "Clean must mean examined": with components if a vulnerable row of the
\* name has some.
Clean(i, examined) == Open(i) = {} /\ (Name(i) \in examined => rows[i].whole /\ rows[i].sha \in Embeds)

\* handleSecurity for the target: its vulnerable rows, each with the clean
\* rows of the name that the source ring serves.
Security ==
    LET vulnerable == {i \in InRing(Target) : Open(i) # {}}
        examined   == {Name(i) : i \in {v \in vulnerable : rows[v].whole /\ rows[v].sha \in Embeds}}
    IN  {p \in vulnerable \X InRing(Source) : Name(p[2]) = Name(p[1]) /\ Clean(p[2], examined)}

Answer(path) == IF path = "components" THEN Components ELSE Security
Cached(path) == path \in DOMAIN cache
Get(path)    == IF Cached(path) THEN cache[path] ELSE Answer(path)
Kept(path)   == [p \in (DOMAIN cache) \cup {path} |-> IF p = path THEN Get(path) ELSE cache[p]]

\* Anybody reads, and an answer's max-age is over in time.
Visit(path) ==
    /\ Works("security") /\ Works("visit") /\ ~Cached(path)
    /\ cache' = Kept(path)
    /\ UNCHANGED <<poolVars, sealVars, feeds, tables, run, runs>>

Expire(path) ==
    /\ Cached(path)
    /\ cache' = [p \in (DOMAIN cache) \ {path} |-> cache[p]]
    /\ UNCHANGED <<poolVars, sealVars, feeds, tables, run, runs>>

-----------------------------------------------------------------------------
(* A run: read the rings, ask OSV, write what was found, prune, fast-track.*)

\* A feed publishes an advisory.
Publish(a) ==
    /\ Works("security") /\ a \notin feeds
    /\ feeds' = feeds \cup {a}
    /\ UNCHANGED <<poolVars, sealVars, tables, run, runs, cache>>

\* match_arch: every object of an advisory's package, affected or not.
Tracker(objects_) == {m \in objects_ \X (run.feed \ Osv) : About[m[2]] = Name(m[1])}
\* match_osv: the objects that embed what the advisory is about.
Embedding(objects_, components) ==
    {m \in (objects_ \cap components) \X (feeds \cap Osv) : About[m[2]] = Name(m[1]) /\ rows[m[1]].sha \in Affects[m[2]]}

\* fetch_feeds reads the tracker's feed, run_at is taken, the rings are read;
\* OSV is asked later.
Begin ==
    /\ Works("security") /\ run.pc = "idle" /\ runs < MaxRuns
    /\ runs' = runs + 1
    /\ run' = [NoRun EXCEPT !.pc = "match", !.at = runs + 1, !.feed = feeds, !.objects = Served]
    /\ UNCHANGED <<poolVars, sealVars, feeds, tables, cache>>

Match ==
    /\ run.pc = "match"
    /\ LET found == Tracker(run.objects) \cup Embedding(run.objects, Get("components"))
           about == {m[2] : m \in found}
       IN  run' = [run EXCEPT !.pc = IF found = {} THEN "prune" ELSE "advisories", !.found = found, !.left = about]
    /\ cache' = Kept("components")
    /\ UNCHANGED <<poolVars, sealVars, feeds, tables, runs>>

\* handlePutAdvisories, in batches; the matches come after the last.
PutAdvisory(a) ==
    /\ run.pc = "advisories" /\ a \in run.left
    /\ advisories' = [advisories EXCEPT ![a] = run.at]
    /\ run' = IF run.left = {a} THEN [run EXCEPT !.pc = "matches", !.left = run.found]
              ELSE [run EXCEPT !.left = @ \ {a}]
    /\ UNCHANGED <<poolVars, sealVars, feeds, matches, runs, cache>>

Status(m) == IF rows[m[1]].sha \in Affects[m[2]] THEN "vulnerable" ELSE "fixed"

\* Mutant: a finding that is there keeps its stamp.
UpsertKeeps(m) == IF m \in DOMAIN matches THEN matches[m] ELSE [at |-> run.at, status |-> Status(m)]

\* ON CONFLICT: the status and the stamp are this run's.
Upsert(m) == [at |-> run.at, status |-> Status(m)]

\* handlePutMatches, in batches.
PutMatch(m) ==
    /\ run.pc = "matches" /\ m \in run.left
    /\ matches' = [n \in (DOMAIN matches) \cup {m} |-> IF n = m THEN Upsert(m) ELSE matches[n]]
    /\ run' = IF run.left = {m} THEN [run EXCEPT !.pc = "prune", !.left = {}] ELSE [run EXCEPT !.left = @ \ {m}]
    /\ UNCHANGED <<poolVars, sealVars, feeds, advisories, runs, cache>>

\* Mutant: what the run before last left stays.
StaleLate(at) == at < run.at - 1

Stale(at) == at < run.at

\* handlePrune: the findings and then the advisories, with what still hangs on
\* them, of the runs before.
Prune ==
    /\ run.pc \in {"prune", "pruneAdvisories"}
    /\ LET gone == {m \in DOMAIN matches : Stale(IF run.pc = "prune" THEN matches[m].at ELSE advisories[m[2]])}
       IN  matches' = [m \in (DOMAIN matches) \ gone |-> matches[m]]
    /\ advisories' = IF run.pc = "prune" THEN advisories
                     ELSE [a \in Adv |-> IF Stale(advisories[a]) THEN 0 ELSE advisories[a]]
    /\ run' = [run EXCEPT !.pc = IF @ = "prune" THEN "pruneAdvisories" ELSE "view"]
    /\ UNCHANGED <<poolVars, sealVars, feeds, runs, cache>>

\* fast_track_candidates: the view, as the cache gives it, and the newer ones.
View ==
    /\ run.pc = "view"
    /\ LET newer == {p \in Get("security") : <<rows[p[1]].sha, rows[p[2]].sha>> \in Newer}
       IN  run' = IF newer = {} THEN NoRun ELSE [run EXCEPT !.pc = "pin", !.picks = {p[2] : p \in newer}]
    /\ cache' = Kept("security")
    /\ UNCHANGED <<poolVars, sealVars, feeds, tables, runs>>

\* fast_track: a release with what the source ring serves by now of that
\* name and version.
FastTrack ==
    /\ run.pc = "pin"
    /\ LET picks == run.picks \cap InRing(Source)
       IN  rings' = [rings EXCEPT ![Target] = {j \in @ : \A i \in picks : Slot(j) # Slot(i)} \cup picks]
    /\ run' = NoRun
    /\ UNCHANGED <<env, bucket, rows, client, move, faults, sealVars, feeds, tables, runs, cache>>

RunEnds ==
    /\ run.pc # "idle" /\ faults < MaxFaults
    /\ faults' = faults + 1 /\ run' = NoRun
    /\ UNCHANGED <<env, bucket, rows, rings, client, move, sealVars, feeds, tables, runs, cache>>

Secures ==
    \/ Begin \/ Match \/ Prune \/ View \/ FastTrack \/ RunEnds
    \/ \E a \in Adv : Publish(a) \/ PutAdvisory(a)
    \/ \E m \in run.left : PutMatch(m)
    \/ \E path \in {"components", "security"} : Visit(path) \/ Expire(path)

Next == Secures \/ (SealNext /\ UNCHANGED secVars)

Spec == Init /\ [][Next]_vars

\* A relayout whose worker dies is tried again (MaxFaults is below the
\* attempts of a job), and its steps are calls that end.
FairSpec == Spec /\ WF_vars(Copying /\ UNCHANGED <<sealVars, secVars>>)

-----------------------------------------------------------------------------
(* Properties.                                                             *)

\* A finding that the run at work has made again is not missing from the
\* index at any moment, wherever this run or one before it stopped: the pages,
\* the gate and the fast-track read the index while runs write it.
FindingsStand ==
    [][\A m \in DOMAIN matches : m \in run.found => m \in DOMAIN matches']_vars

\* A run that has pruned leaves its own findings and no other, with the
\* advisory of each, however the runs before it ended.
RunsReplaceFindings ==
    run.pc \in {"view", "pin"} =>
        /\ DOMAIN matches = run.found
        /\ \A m \in run.found : advisories[m[2]] = run.at /\ matches[m] = [at |-> run.at, status |-> Status(m)]

\* The layout moves to its end: whatever is rebuilt beside it, and with rows
\* whose bytes were overwritten long ago, no page is copied for ever and nothing
\* stays in the flat directories. (Where an object is missing the job stalls.)
LayoutMoves ==
    Works("relayout") /\ (\A i \in Id : objects[r2_key(rows[i])] # Absent) =>
        <>[](\A key \in DOMAIN objects : key[1] = Flat => objects[key] = Absent)

=============================================================================
