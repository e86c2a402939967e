----------------------------- MODULE RingHistory ----------------------------
(***************************************************************************)
(* What the release store promises, with no deltas, checkpoints or live    *)
(* rows in sight: every release is a full, immutable selection, a ring     *)
(* serves its last one, and a new release is an edit of an older one.      *)
(***************************************************************************)
EXTENDS Integers, Sequences

CONSTANTS Ring, Pkg, Meta, Requests, MaxReleases, None

VARIABLES selections,  \* the selection of each release, in the order they were made
          serves       \* the release each ring serves, 0 before its first

history == <<selections, serves>>

Selection(i) == IF i = 0 THEN {} ELSE selections[i]

OfArch(S, a) == {p \in S : Meta[p].arch = a}

\* The edit a request asks for: its adds take their slots (name, source and
\* architecture), its removals go, everything else of the selection stays.
Edit(q, S) ==
    LET drops(p)    == /\ Meta[p].name \in q.remove \/ <<Meta[p].source, Meta[p].name>> \in q.removeFrom
                       /\ q.removeArch \in {None, Meta[p].arch}
        replaced(p) == \E a \in q.add : [Meta[a] EXCEPT !.key = Meta[p].key] = Meta[p]
    IN  {p \in S : ~drops(p) /\ ~replaced(p)} \cup q.add

\* What the edit starts from: the release the request names (a rollback, a
\* promotion), one architecture of it over what the ring serves, or the
\* ring's own selection.
StartsFrom(q) ==
    LET own  == Selection(serves[q.ring])
        from == Selection(IF q.fromRelease # 0 THEN q.fromRelease ELSE serves[q.fromRing])
    IN  IF q.fromRelease = 0 /\ q.fromRing = None THEN own
        ELSE IF q.arch # None /\ serves[q.ring] # 0
             THEN OfArch(from, q.arch) \cup (own \ OfArch(own, q.arch))
             ELSE from

CreateRelease(q) ==
    /\ Len(selections) < MaxReleases
    /\ q.fromRelease <= Len(selections)
    /\ q.fromRelease = 0 /\ q.fromRing # None => serves[q.fromRing] # 0
    /\ selections' = Append(selections, Edit(q, StartsFrom(q)))
    /\ serves' = [serves EXCEPT ![q.ring] = Len(selections) + 1]

Init == selections = <<>> /\ serves = [r \in Ring |-> 0]

Next == \E q \in Requests : CreateRelease(q)

Spec == Init /\ [][Next]_history
=============================================================================
