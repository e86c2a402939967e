----------------------------- MODULE MCJobQueue -----------------------------
(***************************************************************************)
(* Small instances of JobQueue: one package, its owner's worker and a      *)
(* project worker with an agent; the owner is a maintainer as well.        *)
(***************************************************************************)
EXTENDS JobQueue, TLC

CONSTANTS pkg, owner, other, home, host, draft, sync

MCProfile == [w \in Worker |->
    IF w = home THEN [trust |-> "community", owner |-> owner, shared |-> FALSE, agent |-> TRUE]
                ELSE [trust |-> "project", owner |-> other, shared |-> FALSE, agent |-> TRUE]]
MCOwnerOf == [n \in Name |-> owner]

\* Two states the queue comes to after the first rows of its history. One: the
\* contributor's third build is staged and its audit is queued. It is followed
\* with one invocation at a time, a fault, and removals of the registration.
row(kind, trust, of, status, priority) ==
    [NoRow EXCEPT !.kind = kind, !.trust = trust, !.name = pkg, !.of = of, !.status = status,
                  !.attempts = IF status = "queued" THEN 0 ELSE 1, !.priority = priority,
                  !.ref = IF trust = "community" THEN draft ELSE None]
Staged ==
    <<row("build", "community", 0, "cancelled", 100), row("audit", "project", 1, "cancelled", 40),
      row("build", "community", 0, "cancelled", 100), row("audit", "project", 3, "cancelled", 40),
      row("build", "community", 0, "staged", 100),    row("audit", "project", 5, "queued", 40)>>

\* The other: the project's build of the contributor's first build is staged;
\* the second build superseded the first and was rejected, with the project's
\* build of it queued by then. The audits are done. It is followed with two
\* invocations that interleave.
Reviewed ==
    <<row("build", "community", 0, "cancelled", 100), row("audit", "project", 1, "done", 40),
      row("build", "project", 1, "staged", 30),        row("audit", "project", 3, "done", 40),
      row("build", "community", 0, "cancelled", 100), row("audit", "project", 5, "done", 40),
      row("build", "project", 5, "queued", 30)>>

StartsFrom(rows, decisions, files, status) ==
    /\ tasks = [t \in Id |-> IF t <= Len(rows) THEN rows[t] ELSE NoRow]
    /\ made = Len(rows)
    /\ approvals = decisions /\ edge = {}
    /\ packages = [n \in Name |-> status]
    /\ staging = files
    /\ busy = [w \in Worker |-> Hands]

Away == [Call EXCEPT !.left = <<"away">>]   \* an invocation that is not looked at
Alone == \E p \in Proc : calls[p] = Away

ApprovalInit ==
    \/ /\ StartsFrom(Staged, {}, {1, 3, 5}, "staged")
       /\ \E one \in Proc : calls = [p \in Proc |-> IF p = one THEN Call ELSE Away]
       /\ faults = 0
    \/ /\ StartsFrom(Reviewed, {[task |-> 5, decision |-> "rejected"]}, {1, 3, 5}, "registered")
       /\ calls = [p \in Proc |-> Call] /\ faults = MaxFaults
\* Bound (action constraint): an invocation that is not looked at stays away, and
\* where two interleave the registration stays.
ApprovalBound ==
    /\ \A p \in Proc : calls[p] = Away => calls'[p] = Away
    /\ ~Alone => packages'[pkg] # "none"
ApprovalSpec == ApprovalInit /\ [][Next]_vars

ProcSymmetry == Permutations(Proc)
=============================================================================
