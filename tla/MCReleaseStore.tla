--------------------------- MODULE MCReleaseStore ---------------------------
(***************************************************************************)
(* Small instances of ReleaseStore: two rings, two sources, two            *)
(* architectures, and the requests that the callers of the API send.       *)
(***************************************************************************)
EXTENDS ReleaseStore, TLC

CONSTANTS edge, stable, a1, a2, o1, c1

\* a1 and a2 are two builds of one name of one source; o1 is another source's
\* build of that name, stored under the key of a1; c1 is the other architecture's.
MCMeta == [p \in Pkg |->
             CASE p = a1 -> [name |-> "a", source |-> "arch", arch |-> "x86_64",  key |-> "k1"]
               [] p = a2 -> [name |-> "a", source |-> "arch", arch |-> "x86_64",  key |-> "k2"]
               [] p = o1 -> [name |-> "a", source |-> "opr",  arch |-> "x86_64",  key |-> "k1"]
               [] p = c1 -> [name |-> "a", source |-> "arch", arch |-> "aarch64", key |-> "k3"]]

Body == [ring |-> edge, fromRing |-> None, fromRelease |-> 0, add |-> {}, remove |-> {},
         removeFrom |-> {}, removeArch |-> None, arch |-> None]

\* A sync of one source and architecture, which replaces or drops its rows.
SyncA1  == [Body EXCEPT !.add = {a1}, !.removeArch = "x86_64"]
SyncA2  == [Body EXCEPT !.add = {a2}, !.removeArch = "x86_64"]
SyncC1  == [Body EXCEPT !.add = {c1}, !.removeArch = "aarch64"]
DropA   == [Body EXCEPT !.removeFrom = {<<"arch", "a">>}, !.removeArch = "x86_64"]
\* A publish of the other source, a removal by hand, a promotion and a rollback.
Publish == [Body EXCEPT !.add = {o1}]
Promote     == [Body EXCEPT !.ring = stable, !.fromRing = edge]
PromoteArch == [Promote EXCEPT !.arch = "x86_64"]
Rollback(r, i)     == [Body EXCEPT !.ring = r, !.fromRelease = i]
RollbackArch(r, i) == [Rollback(r, i) EXCEPT !.arch = "x86_64"]

PromiseRequests == {SyncA1, SyncA2, SyncC1, DropA, Publish, Promote, PromoteArch, Rollback(edge, 1),
                    RollbackArch(stable, 1), RollbackArch(stable, 2)}
RetentionRequests == {SyncA1, SyncA2, Publish, Rollback(edge, 1)}
RacingRequests == {SyncA1, SyncA2, Promote}

\* Bound (action constraint): the retention job works at the end, over releases
\* that are all inside retention and that no database has been rendered of.
Retires == made = MaxReleases /\ Made \subseteq UNION {Protected(r) : r \in Ring} /\ \A i \in Made : artifacts[i] = {}
PromiseBound == /\ aged' # aged => Retires
                /\ aged # {} => Retires'
                /\ gc' # gc => aged # {}

\* Invocations are interchangeable.
ProcSymmetry == Permutations(Proc)
=============================================================================
