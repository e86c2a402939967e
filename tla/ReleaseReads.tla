---------------------------- MODULE ReleaseReads ----------------------------
(***************************************************************************)
(* The readers of the release store that see a release through more than   *)
(* one row set or more than one request: the paged walk of a ring          *)
(* (handleGetRelease with limit= and after=, as crates/pkg-repo/src/       *)
(* client.rs and crates/omarchy-cli/src/api.rs call it) and the comparison *)
(* of two releases (handleReleaseDiff).                                    *)
(*                                                                         *)
(* One request is one step here; between the requests of a walk the ring   *)
(* moves on and the retention job works, also half-way only. With Serial   *)
(* no request falls between the statements of a retention job.             *)
(***************************************************************************)
EXTENDS ReleaseStore, FiniteSetsExt

CONSTANTS
    SlotOrder,   \* the slots <<name, repo_arch, source>> in the order SQL sorts them
    Limits,      \* ?limit= of the callers; 0 is none
    MaxUnpaged   \* MAX_UNPAGED

ASSUME ReadsAssumption ==
    /\ IsFiniteSet(Pkg) /\ SlotOrder \in Seq(Range(SlotOrder))
    /\ \A p \in Pkg : \E k \in DOMAIN SlotOrder : SlotOrder[k] = <<Meta[p].name, Meta[p].arch, Meta[p].source>>
    /\ Limits \subseteq Nat /\ MaxUnpaged \in Nat

VARIABLE walk   \* a client's walk of a ring: the release it is pinned to (0 before the first page), the slot
                \* its next page starts after, what it has listed, and whether it is over

readVars == <<vars, walk>>

NoWalk == [release |-> 0, arch |-> None, limit |-> 0, after |-> 0, rows |-> {}, over |-> FALSE]

ReadsInit == Init /\ walk = NoWalk

-----------------------------------------------------------------------------
(* What a request reads of a release.                                      *)

\* releaseMembers of release i throws unless it is a head or a checkpoint, or
\* can be rebuilt from one behind it.
Readable(i) == IsHead(i) \/ releases[i].checkpoint \/ (CanRebuild[i] /\ Rebuilt[i] \subseteq packages)
MembersOf(i) == packages \cap (IF IsHead(i) THEN ringPackages[HeadRing(i)] ELSE Rebuilt[i])

\* Reading a release that is neither leaves its checkpoint behind.
Materialise(S) ==
    LET fresh == {i \in S : ~IsHead(i) /\ ~releases[i].checkpoint}
    IN  /\ releasePackages' = [i \in Id |-> IF i \in fresh THEN Rebuilt[i] ELSE releasePackages[i]]
        /\ releases' = [i \in Id |-> IF i \in fresh THEN [releases[i] EXCEPT !.checkpoint = TRUE] ELSE releases[i]]
        /\ UNCHANGED <<made, deltas, artifacts, ringHeads, ringPackages, held, pool, databases, pc, my, gc>>

OfArch(S, a) == IF a = None THEN S ELSE InArch(S, a)

\* The release's row knows its count once its summary is stored.
releaseCount(i, a) ==
    Cardinality(OfArch(IF releases[i].summary # None THEN releases[i].summary ELSE MembersOf(i), a))

-----------------------------------------------------------------------------
(* The paged walk.                                                         *)

Place(p) == CHOOSE k \in DOMAIN SlotOrder : SlotOrder[k] = <<Meta[p].name, Meta[p].arch, Meta[p].source>>

\* Mutant: the cursor names no source, and skips the other sources' builds of the name.
FollowsName(p, k) == k = 0 \/ (Place(p) > k /\ <<SlotOrder[k][1], SlotOrder[k][2]>> # <<Meta[p].name, Meta[p].arch>>)

\* The rows after a cursor (name, repo_arch, source), and the first `limit` of them.
Follows(p, k) == Place(p) > k
Page(S, limit) == {p \in S : limit = 0 \/ Cardinality({q \in S : Place(q) < Place(p)}) < limit}

\* A full page names its last row in `next`; a shorter one is the last.
handleGetRelease(r) ==
    LET i     == IF walk.release = 0 THEN ringHeads[r] ELSE walk.release
        total == releaseCount(i, walk.arch)
        page  == Page({p \in OfArch(MembersOf(i), walk.arch) : Follows(p, walk.after)}, walk.limit)
    IN  /\ MayStart /\ ~walk.over /\ i # 0 /\ releases[i].ring = r
        /\ IF ~Readable(i) \/ (walk.limit = 0 /\ total > MaxUnpaged)
           THEN walk' = NoWalk /\ UNCHANGED vars
           ELSE /\ Materialise({i})
                /\ walk' = [walk EXCEPT !.release = i, !.rows = @ \cup page,
                                        !.over = walk.limit = 0 \/ Cardinality(page) < walk.limit,
                                        !.after = IF page = {} THEN @ ELSE Max({Place(p) : p \in page})]

StartWalk(a, limit) ==
    /\ walk.over \/ walk = NoWalk
    /\ walk' = [NoWalk EXCEPT !.arch = a, !.limit = limit]
    /\ walk' # walk
    /\ UNCHANGED vars

-----------------------------------------------------------------------------
(* The comparison of two releases.                                         *)

\* Mutant: another source taking a name over counts as an upgrade.
RowKeyOfName(p) == <<Meta[p].name, Meta[p].arch>>

RowKey(p) == <<Meta[p].source, Meta[p].name, Meta[p].arch>>

Compare(before, after) ==
    LET was(p) == {b \in before : RowKey(b) = RowKey(p)}
    IN  [added    |-> {p \in after : was(p) = {}},
         removed  |-> {b \in before : \A p \in after : RowKey(p) # RowKey(b)},
         upgraded |-> {u \in before \X after : RowKey(u[1]) = RowKey(u[2]) /\ u[1] # u[2]}]

\* Both sides are read, `to` (the head unless it is named) first, `from` (its
\* parent unless it is named) after it; a side that cannot be read is a 410.
handleReleaseDiff(to, from) ==
    LET other == IF from = 0 THEN releases[to].parent ELSE from
    IN  /\ MayStart /\ to \in Made /\ from \in Made \cup {0}
        /\ Materialise({i \in {to, other} \ {0} : Readable(i) /\ (i = other => Readable(to))})
        /\ UNCHANGED walk

-----------------------------------------------------------------------------
ReadsNext ==
    \/ Next /\ UNCHANGED walk
    \/ \E a \in Arch, n \in Limits : StartWalk(a, n)
    \/ \E r \in Ring : handleGetRelease(r)
    \/ \E to, from \in Id0 : handleReleaseDiff(to, from)

ReadsSpec == ReadsInit /\ [][ReadsNext]_readVars

-----------------------------------------------------------------------------
(* Properties.                                                             *)

Retained == UNION {Protected(r) : r \in Ring}

\* A walk that ends while its release is inside retention has listed exactly
\* that release, whatever became of the ring and of the older releases in
\* between: "a ring that moves on mid-render cannot mix two selections"
\* (client.rs), and no row is skipped at a page boundary (db.ts).
WalkExact == walk.over /\ walk.release \in Retained => walk.rows = OfArch(held[walk.release], walk.arch)

\* A selection with one package for each slot.
OneEach(S) == \A p, q \in S : SameSlot(p, q) => p = q

\* No creation adds two packages of one slot.
AddsApart == \A q \in Requests : OneEach(q.add)

\* Between two releases inside retention, of one ring or of two, a diff is
\* answered, and what it lists as added, removed and upgraded turns the one
\* selection into the other.
DiffExact ==
    \A to, from \in Retained :
        /\ Readable(to) /\ Readable(from)
        /\ LET d == Compare(MembersOf(from), MembersOf(to))
           IN  held[to] = (held[from] \ (d.removed \cup {u[1] : u \in d.upgraded})) \cup d.added \cup {u[2] : u \in d.upgraded}
=============================================================================
