--------------------------- MODULE MCReleaseReads ---------------------------
(***************************************************************************)
(* A small instance of ReleaseReads, over the packages of MCReleaseStore:  *)
(* the releases and the retention job alone, and beside clients.           *)
(***************************************************************************)
EXTENDS MCReleaseStore, ReleaseReads

\* By name, architecture and source, as SQL compares text.
MCSlotOrder == <<<<"a", "aarch64", "arch">>, <<"a", "x86_64", "arch">>, <<"a", "x86_64", "opr">>>>

\* No client is looked at.
Nobody == [NoWalk EXCEPT !.over = TRUE]
ScenesNext == \/ walk = Nobody /\ Next /\ UNCHANGED walk
              \/ walk # Nobody /\ ReadsNext
ScenesSpec == Init /\ walk \in {NoWalk, Nobody} /\ [][ScenesNext]_readVars

\* Bound (action constraint): beside clients three releases are made, first a
\* build, then its successor or another source's build of the name.
ReadsBound ==
    walk # Nobody =>
        \A p \in Proc : my'[p].req \notin {None, my[p].req} =>
            made < 3 /\ my'[p].req \in (IF made = 0 THEN {SyncA1} ELSE {SyncA2, Publish})

\* What the theorem about the diffs assumes of the creations holds of these.
ASSUME Single == AddsApart
=============================================================================
