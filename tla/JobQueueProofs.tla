--------------------------- MODULE JobQueueProofs ---------------------------
(***************************************************************************)
(* Theorems about JobQueue, for every set of invocations, workers, names   *)
(* and maintainers and every value of the bounds: its types, what reaches  *)
(* edge, what is called done and published, and that an end is an end.     *)
(***************************************************************************)
EXTENDS JobQueue, TLAPS

Name0    == Name \cup Rule \cup {None}
Status   == {"queued", "leased", "staged", "done", "failed", "cancelled"}
AnyRow   == [kind : {"build", "audit", "publish", "job"}, trust : {"community", "project"}, name : Name0,
             ref : Ref \cup {None}, of : Id0, by : Maintainer \cup {None}, status : Status,
             attempts : Nat, priority : Nat, holder : Worker \cup {None}, over : BOOLEAN]

\* The writes a handler may have left, by handler.
StepsOf ==
    [none |-> {}, build |-> {"insert", "package"}, enqueue |-> {"insert"}, job |-> {"insert", "end"},
     claim |-> {"package", "answer"}, beat |-> {"beat", "answer"},
     stage |-> {"end", "older", "supersede", "package", "insert"},
     publish |-> {"end", "package"}, main |-> {"end", "package"}, fail |-> {"fail", "package"},
     review |-> {"insert"}, approve |-> {"insert", "decide", "package", "audits"},
     reject |-> {"decide", "cancel", "audits", "package"}, tick |-> {"requeue", "follow", "rules", "insert"}]
Handler  == DOMAIN StepsOf
Steps    == {"insert", "end", "package", "answer", "beat", "older", "supersede", "fail", "decide", "audits", "cancel",
             "requeue", "follow", "rules"}

AnyCall  == [work : Handler, who : Worker \cup {None}, task : Id0, name : Name0, row : AnyRow, todo : SUBSET Id,
             spent : SUBSET Id, left : Seq(Steps)]
AnyHands == [task : Id0, first : BOOLEAN, renewed : BOOLEAN, made : BOOLEAN]

TypeOK ==
    /\ tasks \in [Id -> AnyRow]
    /\ made \in Id0
    /\ approvals \subseteq [task : Id0, decision : {"approved", "rejected"}]
    /\ packages \in [Name -> {"none", "registered", "waiting", "building", "staged", "approved", "published"}]
    /\ staging \subseteq Id /\ edge \subseteq Id0
    /\ busy \in [Worker -> AnyHands]
    /\ calls \in [Proc -> AnyCall]
    /\ faults \in 0 .. MaxFaults

-----------------------------------------------------------------------------
\* What the rows and the invocations carry, in terms of the rows T (1 .. m of
\* them made) and the builds E in edge.

\* A publish job was asked for by somebody else than the owner, of the
\* project's build for a review of the same package.
Allowed(r, T, m) ==
    r.kind = "publish" => /\ r.of \in 1 .. m /\ T[r.of].kind = "build" /\ T[r.of].trust = "project"
                          /\ T[r.of].of # 0 /\ T[r.of].name = r.name
                          /\ r.by # OwnerOf[r.name]

Fits(c, T, m, E) ==
    /\ c.left \in Seq(StepsOf[c.work])
    /\ c.work = "claim" => c.task \in 1 .. m
    /\ c.work = "job" => c.left \in Seq({"insert"}) \/ (c.task \in 1 .. m /\ T[c.task].kind # "build")
    /\ c.work = "publish" => /\ c.task \in 1 .. m /\ T[c.task].kind = "publish"
                             /\ T[c.task].of \in E /\ T[c.task].name = c.name
    /\ c.work = "main" => c.task \in E /\ c.task \in 1 .. m /\ T[c.task].name = c.name
    /\ c.row.status = "queued" /\ Allowed(c.row, T, m)

CallsFit == \A p \in Proc : Fits(calls[p], tasks, made, edge)

\* A worker's task is a row; when the work of a publish job is done, the build
\* it is about is in edge.
HandsFit ==
    \A w \in Worker : /\ busy[w].task # 0 => busy[w].task \in Made
                      /\ busy[w].made => /\ busy[w].task # 0
                                         /\ tasks[busy[w].task].kind = "publish" => tasks[busy[w].task].of \in edge

InEdge(b) ==
    /\ b \in Made /\ tasks[b].kind = "build" /\ tasks[b].trust = "project"
    /\ tasks[b].of # 0 => \E t \in Made : tasks[t].kind = "publish" /\ tasks[t].of = b

Placed ==
    /\ \A t \in Made : Allowed(tasks[t], tasks, made)
    /\ \A s \in staging : s \in Made /\ Stages(s)
    /\ \A b \in edge : InEdge(b)

Inv == TypeOK /\ CallsFit /\ HandsFit /\ Placed

-----------------------------------------------------------------------------
\* The library's names for the ends of a sequence, for the provers.
LEMMA Tails ==
  ASSUME NEW S, NEW s \in Seq(S), s # <<>>
  PROVE  Head(s) \in S /\ Tail(s) \in Seq(S)
  OBVIOUS

LEMMA Prefixed ==
  ASSUME NEW S, NEW x \in S, NEW s \in Seq(S)
  PROVE  <<x>> \o s \in Seq(S)
  OBVIOUS

LEMMA Empty == \A S : <<>> \in Seq(S)
  OBVIOUS

LEMMA NoRowTyped == NoRow \in AnyRow
  BY QueueAssumption DEF NoRow, AnyRow, Name0, Status, Id0

LEMMA CallTyped == Call \in AnyCall
  <1>1. "none" \in Handler
    BY DEF Handler, StepsOf
  <1>2. <<>> \in Seq(Steps)
    BY Empty
  <1>3. 0 \in Id0
    BY QueueAssumption DEF Id0
  <1> QED
    BY NoRowTyped, <1>1, <1>2, <1>3 DEF Call, AnyCall, Name0

\* A handler that starts or goes on keeps the calls typed.
LEMMA StartTyped ==
  ASSUME TypeOK, NEW p \in Proc, NEW c \in AnyCall, Start(p, c)
  PROVE  calls' \in [Proc -> AnyCall]
  BY CallTyped DEF TypeOK, Start

LEMMA ThenTyped ==
  ASSUME TypeOK, NEW p \in Proc, ~Idle(p), Then(p)
  PROVE  calls' \in [Proc -> AnyCall]
  <1> DEFINE c == [calls[p] EXCEPT !.left = Tail(@)]
  <1>1. calls[p] \in AnyCall /\ calls[p].left # <<>>
    BY DEF TypeOK, Idle
  <1>2. Tail(calls[p].left) \in Seq(Steps)
    BY <1>1, Tails DEF AnyCall
  <1>3. c \in AnyCall
    BY <1>1, <1>2 DEF AnyCall
  <1> QED
    BY <1>3, StartTyped DEF Then

LEMMA QueueTyped ==
  ASSUME TypeOK, NEW p \in Proc, NEW w \in Handler, NEW r \in AnyRow, NEW after \in Seq(Steps), Queue(p, w, r, after)
  PROVE  calls' \in [Proc -> AnyCall]
  <1> DEFINE c == [Call EXCEPT !.work = w, !.name = r.name, !.row = r, !.task = r.of, !.left = <<"insert">> \o after]
  <1>1. <<"insert">> \o after \in Seq(Steps)
    BY Prefixed DEF Steps
  <1>2. c \in AnyCall
    BY CallTyped, <1>1 DEF AnyCall, AnyRow
  <1> QED
    BY <1>2, StartTyped DEF Queue

\* What the ends, retries, renewals and cancellations make of a row is a row.
LEMMA RowsTyped ==
  ASSUME TypeOK
  PROVE  /\ \A t \in Id, s \in Status : [tasks[t] EXCEPT !.status = s] \in AnyRow /\ Ended(t, s) \in AnyRow
         /\ \A t \in Id, b \in BOOLEAN : [tasks[t] EXCEPT !.over = b] \in AnyRow
         /\ \A t \in Id : \A x : Retry(t, x) \in AnyRow /\ Requeued(t, x) \in AnyRow
         /\ \A S : Cancelled(S) \in [Id -> AnyRow]
  <1>1. \A t \in Id : tasks[t] \in AnyRow
    BY DEF TypeOK
  <1>2. \A t \in Id, s \in Status : [tasks[t] EXCEPT !.status = s] \in AnyRow /\ Ended(t, s) \in AnyRow
    BY <1>1 DEF Ended, AnyRow
  <1>3. ASSUME NEW t \in Id, NEW x
        PROVE  Retry(t, x) \in AnyRow
    <2> DEFINE e == Ended(t, IF x THEN "failed" ELSE "queued")
    <2>1. e \in AnyRow
      BY <1>2 DEF Status
    <2> HIDE DEF e
    <2>2. [e EXCEPT !.priority = @ + 10] \in AnyRow
      BY <2>1 DEF AnyRow
    <2> QED
      BY <2>2 DEF Retry, e
  <1>4. \A S : Cancelled(S) \in [Id -> AnyRow]
    BY <1>1, <1>2 DEF Cancelled, Status
  <1>5. \A t \in Id, b \in BOOLEAN : [tasks[t] EXCEPT !.over = b] \in AnyRow
    BY <1>1 DEF AnyRow
  <1> QED
    BY <1>1, <1>2, <1>3, <1>4, <1>5 DEF Requeued

\* The handlers that begin.
LEMMA AskTyped ==
  ASSUME TypeOK, NEW p \in Proc, Ask(p)
  PROVE  TypeOK'
  <1>1. ASSUME NEW n \in Name, NEW ref \in Ref, StartBuild(p, n, ref)
        PROVE  TypeOK'
    <2> DEFINE r == [NoRow EXCEPT !.kind = "build", !.trust = "community", !.name = n, !.ref = ref]
    <2> DEFINE c == [Call EXCEPT !.work = "build", !.name = n, !.left = <<"package">>]
    <2>1. r \in AnyRow
      BY NoRowTyped DEF AnyRow, Name0
    <2>2. <<"package">> \in Seq(Steps) /\ "build" \in Handler
      BY DEF Steps, Handler, StepsOf
    <2>3. c \in AnyCall
      BY <2>2, CallTyped DEF AnyCall, Name0
    <2>4. calls' \in [Proc -> AnyCall]
      BY <1>1, <2>1, <2>2, <2>3, QueueTyped, StartTyped DEF StartBuild
    <2> QED
      BY <1>1, <2>4 DEF TypeOK, StartBuild
  <1>2. ASSUME NEW n \in Name, NEW ref \in Ref, StartEnqueue(p, n, ref)
        PROVE  TypeOK'
    <2> DEFINE r == [NoRow EXCEPT !.kind = "build", !.name = n, !.ref = ref]
    <2>1. r \in AnyRow
      BY NoRowTyped DEF AnyRow, Name0
    <2>2. calls' \in [Proc -> AnyCall]
      BY <1>2, <2>1, Empty, QueueTyped DEF StartEnqueue, Handler, StepsOf
    <2> QED
      BY <1>2, <2>2 DEF TypeOK, StartEnqueue
  <1>3. ASSUME NEW j \in Rule, QueueJob(p, j)
        PROVE  TypeOK'
    <2>1. JobRow(j) \in AnyRow
      BY NoRowTyped DEF JobRow, AnyRow, Name0
    <2>2. calls' \in [Proc -> AnyCall]
      BY <1>3, <2>1, Empty, QueueTyped DEF QueueJob, Handler, StepsOf
    <2> QED
      BY <1>3, <2>2 DEF TypeOK, QueueJob
  <1>4. ASSUME NEW t \in Id, CancelTask(p, t)
        PROVE  TypeOK'
    BY <1>4, RowsTyped DEF CancelTask, TypeOK, Status
  <1>5. ASSUME NEW n \in Name, DeletePackage(p, n)
        PROVE  TypeOK'
    <2>1. tasks' \in [Id -> AnyRow]
      BY <1>5, RowsTyped DEF DeletePackage, TypeOK, Status
    <2> QED
      BY <1>5, <2>1 DEF DeletePackage, TypeOK
  <1>6. ASSUME NEW m \in Maintainer, NEW t \in Id, StartProjectBuild(p, m, t)
        PROVE  TypeOK'
    <2> DEFINE r == [NoRow EXCEPT !.kind = "build", !.name = tasks[t].name, !.of = t, !.priority = 30]
    <2>1. t \in Id0 /\ tasks[t] \in AnyRow
      BY DEF Id, Id0, TypeOK
    <2>2. r \in AnyRow
      BY NoRowTyped, <2>1 DEF AnyRow
    <2>3. calls' \in [Proc -> AnyCall]
      BY <1>6, <2>2, Empty, QueueTyped DEF StartProjectBuild, Handler, StepsOf
    <2> QED
      BY <1>6, <2>3 DEF TypeOK, StartProjectBuild
  <1>7. ASSUME NEW m \in Maintainer, NEW t \in Id, StartApprove(p, m, t)
        PROVE  TypeOK'
    <2> DEFINE r == [NoRow EXCEPT !.kind = "publish", !.name = tasks[t].name, !.of = t, !.by = m, !.priority = 20]
    <2>1. t \in Id0 /\ tasks[t] \in AnyRow
      BY DEF Id, Id0, TypeOK
    <2>2. r \in AnyRow
      BY NoRowTyped, <2>1 DEF AnyRow
    <2>3. <<"decide", "package", "audits">> \in Seq(Steps)
      BY DEF Steps
    <2>4. calls' \in [Proc -> AnyCall]
      BY <1>7, <2>2, <2>3, QueueTyped DEF StartApprove, Handler, StepsOf
    <2> QED
      BY <1>7, <2>4 DEF TypeOK, StartApprove
  <1>8. ASSUME NEW m \in Maintainer, NEW t \in Id, StartReject(p, m, t)
        PROVE  TypeOK'
    <2> DEFINE c == [Call EXCEPT !.work = "reject", !.task = t, !.name = tasks[t].name,
                                 !.left = <<"decide", "cancel", "audits", "package">>]
    <2>1. t \in Id0 /\ tasks[t].name \in Name0
      BY DEF Id, Id0, TypeOK, AnyRow
    <2>2. <<"decide", "cancel", "audits", "package">> \in Seq(Steps) /\ "reject" \in Handler
      BY DEF Steps, Handler, StepsOf
    <2>3. c \in AnyCall
      BY <2>1, <2>2, CallTyped DEF AnyCall
    <2>4. calls' \in [Proc -> AnyCall]
      BY <1>8, <2>3, StartTyped DEF StartReject
    <2> QED
      BY <1>8, <2>4 DEF TypeOK, StartReject
  <1> QED
    BY <1>1, <1>2, <1>3, <1>4, <1>5, <1>6, <1>7, <1>8 DEF Ask

\* The writes.
LEMMA WriteTyped ==
  ASSUME TypeOK, CallsFit, NEW p \in Proc, Write(p)
  PROVE  TypeOK'
  <1> DEFINE c == calls[p]
  <1>c. c \in AnyCall
    BY DEF TypeOK
  <1>t. ASSUME ~Idle(p), Then(p)
        PROVE  calls' \in [Proc -> AnyCall]
    BY <1>t, ThenTyped
  <1>1. CASE Insert(p)
    <2>1. made + 1 \in Id /\ made + 1 \in Id0
      BY <1>1, QueueAssumption DEF Insert, TypeOK, Id, Id0
    <2>2. tasks' \in [Id -> AnyRow]
      BY <1>1, <1>c, <2>1 DEF Insert, TypeOK, AnyCall
    <2> QED
      BY <1>1, <1>t, <2>1, <2>2 DEF Insert, TypeOK, At
  <1>2. CASE SetPackage(p)
    <2>1. packages' \in [Name -> {"none", "registered", "waiting", "building", "staged", "approved", "published"}]
      <3>1. ~Idle(p) /\ Head(c.left) = "package"
        BY <1>2 DEF SetPackage, At
      <3>2. StatusAfter[c.work] \in {"registered", "waiting", "building", "staged", "approved", "published"}
        <4>1. "package" \in StepsOf[c.work]
          BY <3>1, Tails DEF CallsFit, Fits, Idle
        <4> QED
          BY <1>c, <4>1 DEF StepsOf, StatusAfter, AnyCall, Handler
      <3> QED
        BY <1>2, <3>2 DEF SetPackage, TypeOK, Registered
    <2>2. tasks' \in [Id -> AnyRow]
      <3> DEFINE b == tasks[c.task].of
      <3> DEFINE s == IF tasks[b].status = "staged" THEN "done" ELSE tasks[b].status
      <3>1. BuildPublished(c) = [tasks EXCEPT ![b] = [tasks[b] EXCEPT !.status = s]]
        BY DEF BuildPublished
      <3>2. ASSUME b \in Id
            PROVE  [tasks[b] EXCEPT !.status = s] \in AnyRow
        <4>1. s \in Status
          BY <3>2 DEF TypeOK, AnyRow, Status
        <4> HIDE DEF s, b
        <4> QED
          BY <3>2, <4>1, RowsTyped
      <3>3. BuildPublished(c) \in [Id -> AnyRow]
        <4> HIDE DEF b, s
        <4> QED
          BY <3>1, <3>2 DEF TypeOK
      <3> QED
        BY <1>2, <3>3 DEF SetPackage, TypeOK
    <2> QED
      BY <1>2, <1>t, <2>1, <2>2 DEF SetPackage, TypeOK, At
  <1>3. CASE Answer(p)
    <2> DEFINE w == c.who
    <2>h. \A v \in Worker : busy[v] \in AnyHands
      BY DEF TypeOK
    <2>a. [Hands EXCEPT !.task = c.task, !.first = TRUE] \in AnyHands
      BY <1>c DEF Hands, AnyHands, AnyCall
    <2>b. ASSUME w \in Worker
          PROVE  [busy[w] EXCEPT !.renewed = (Profile[w].trust = "project")] \in AnyHands
      BY <2>b, <2>h DEF AnyHands
    <2> DEFINE h == IF c.work = "claim" THEN [Hands EXCEPT !.task = c.task, !.first = TRUE]
                    ELSE IF busy[w].task = c.task
                         THEN [busy[w] EXCEPT !.renewed = (Profile[w].trust = "project")] ELSE busy[w]
    <2>c. w \in Worker => h \in AnyHands
      BY <2>h, <2>a, <2>b
    <2>d. busy' = [busy EXCEPT ![w] = h]
      BY <1>3 DEF Answer
    <2>1. busy' \in [Worker -> AnyHands]
      <3> HIDE DEF h, w
      <3> QED
        BY <2>c, <2>d DEF TypeOK
    <2> QED
      BY <1>3, <1>t, <2>1 DEF Answer, TypeOK, At
  <1>4. CASE Beat(p)
    <2>1. tasks' \in [Id -> AnyRow]
      BY <1>4, RowsTyped DEF Beat, TypeOK
    <2> QED
      BY <1>4, <1>t, <2>1 DEF Beat, TypeOK, At
  <1>5. CASE EndTask(p)
    <2>1. tasks' \in [Id -> AnyRow]
      BY <1>5, RowsTyped DEF EndTask, TypeOK, Status
    <2> QED
      BY <1>5, <1>t, <2>1 DEF EndTask, TypeOK, At
  <1>6. CASE FailTask(p)
    <2>1. tasks' \in [Id -> AnyRow]
      BY <1>6, RowsTyped DEF FailTask, TypeOK
    <2> QED
      BY <1>6, <1>t, <2>1 DEF FailTask, TypeOK, At
  <1>7. CASE SelectOlder(p)
    <2>1. Tail(c.left) \in Seq(Steps)
      BY <1>7, <1>c, Tails DEF SelectOlder, At, Idle, AnyCall
    <2>2. <<"supersede">> \o Tail(c.left) \in Seq(Steps)
      BY <2>1, Prefixed DEF Steps
    <2>3. Older(c.task) \subseteq Id
      BY QueueAssumption DEF Older, InStatus, Made, TypeOK, Id, Id0
    <2> DEFINE d == [c EXCEPT !.todo = Older(c.task),
                              !.left = IF Older(c.task) = {} THEN Tail(@) ELSE <<"supersede">> \o Tail(@)]
    <2>4. d \in AnyCall
      BY <1>c, <2>1, <2>2, <2>3 DEF AnyCall
    <2>5. calls' \in [Proc -> AnyCall]
      BY <1>7, <2>4, StartTyped DEF SelectOlder
    <2> QED
      BY <1>7, <2>5 DEF SelectOlder, TypeOK
  <1>8. CASE Decide(p)
    <2>1. approvals' \subseteq [task : Id0, decision : {"approved", "rejected"}]
      BY <1>8, <1>c DEF Decide, TypeOK, AnyCall
    <2> QED
      BY <1>8, <1>t, <2>1 DEF Decide, TypeOK, At
  <1>9. CASE CancelDecided(p)
    <2>1. tasks' \in [Id -> AnyRow]
      BY <1>9, RowsTyped DEF CancelDecided
    <2> QED
      BY <1>9, <1>t, <2>1 DEF CancelDecided, TypeOK, At
  <1>10. CASE Follow(p)
    <2>1. packages' \in [Name -> {"none", "registered", "waiting", "building", "staged", "approved", "published"}]
      BY <1>10 DEF Follow, TypeOK
    <2> QED
      BY <1>10, <1>t, <2>1 DEF Follow, TypeOK, At
  <1>11. CASE Rules(p)
    <2>1. ASSUME NEW j \in Rule, Start(p, [c EXCEPT !.row = JobRow(j), !.left = <<"insert">> \o @])
          PROVE  calls' \in [Proc -> AnyCall]
      <3>1. JobRow(j) \in AnyRow
        BY NoRowTyped DEF JobRow, AnyRow, Name0
      <3>2. <<"insert">> \o c.left \in Seq(Steps)
        BY <1>c, Prefixed DEF Steps, AnyCall
      <3>3. [c EXCEPT !.row = JobRow(j), !.left = <<"insert">> \o @] \in AnyCall
        BY <1>c, <3>1, <3>2 DEF AnyCall
      <3> QED
        BY <2>1, <3>3, StartTyped
    <2>2. calls' \in [Proc -> AnyCall]
      BY <1>11, <1>t, <2>1 DEF Rules, At
    <2> QED
      BY <1>11, <2>2 DEF Rules, TypeOK
  <1>12. CASE \E t \in Id : Supersede(p, t)
    <2>1. PICK o \in Id : Supersede(p, o)
      BY <1>12
    <2>2. Tail(c.left) \in Seq(Steps)
      BY <2>1, <1>c, Tails DEF Supersede, At, Idle, AnyCall
    <2> DEFINE d == [c EXCEPT !.todo = @ \ {o}, !.left = IF c.todo = {o} THEN Tail(@) ELSE @]
    <2>3. d \in AnyCall
      BY <1>c, <2>2 DEF AnyCall
    <2>4. calls' \in [Proc -> AnyCall]
      BY <2>1, <2>3, StartTyped DEF Supersede
    <2>5. tasks' \in [Id -> AnyRow]
      BY <2>1, RowsTyped DEF Supersede
    <2> QED
      BY <2>1, <2>4, <2>5 DEF Supersede, TypeOK
  <1>13. CASE \E t \in Id : Requeue(p, t)
    <2>1. PICK t \in Id : Requeue(p, t)
      BY <1>13
    <2> DEFINE rest == IF c.todo = {t} THEN Tail(c.left) ELSE c.left
    <2> DEFINE onward == IF tasks[t].kind = "build" /\ tasks[t].trust = "community" THEN <<"follow">> \o rest ELSE rest
    <2> DEFINE d == [c EXCEPT !.todo = @ \ {t}, !.task = t, !.left = onward]
    <2>2. rest \in Seq(Steps)
      BY <2>1, <1>c, Tails DEF Requeue, At, Idle, AnyCall
    <2>3. onward \in Seq(Steps)
      <3> HIDE DEF rest
      <3> QED
        BY <2>2, Prefixed DEF Steps
    <2>4. t \in Id0
      BY DEF Id, Id0
    <2>5. d \in AnyCall
      <3> HIDE DEF onward
      <3> QED
        BY <1>c, <2>3, <2>4 DEF AnyCall
    <2>6. calls' \in [Proc -> AnyCall]
      BY <2>1, <2>5, StartTyped DEF Requeue
    <2>7. tasks' \in [Id -> AnyRow]
      BY <2>1, RowsTyped DEF Requeue, TypeOK
    <2> QED
      BY <2>1, <2>6, <2>7 DEF Requeue, TypeOK
  <1> QED
    BY <1>1, <1>2, <1>3, <1>4, <1>5, <1>6, <1>7, <1>8, <1>9, <1>10, <1>11, <1>12, <1>13 DEF Write

\* Workers, and what they ask.
LEMMA WorkerTyped ==
  ASSUME TypeOK, NEW w \in Worker
  PROVE  /\ \A p \in Proc : StartHeartbeat(p, w) \/ Reports(p, w) \/ (\E t \in Id : Claim(p, w, t)) => TypeOK'
         /\ Produce(w) \/ TokenRunsOut(w) \/ Kill(w) => TypeOK'
  <1>b. busy[w] \in AnyHands /\ Hands \in AnyHands
    BY QueueAssumption DEF TypeOK, Hands, AnyHands, Id0
  <1> DEFINE k == busy[w].task
  <1>k. k \in Id0
    BY <1>b DEF AnyHands
  <1>1. ASSUME NEW p \in Proc, StartHeartbeat(p, w)
        PROVE  TypeOK'
    <2> DEFINE c == [Call EXCEPT !.work = "beat", !.who = w, !.task = k, !.left = <<"beat", "answer">>]
    <2>1. <<"beat", "answer">> \in Seq(Steps) /\ "beat" \in Handler
      BY DEF Steps, Handler, StepsOf
    <2>2. c \in AnyCall
      BY <1>k, <2>1, CallTyped DEF AnyCall
    <2>3. calls' \in [Proc -> AnyCall]
      BY <1>1, <2>2, StartTyped DEF StartHeartbeat
    <2> QED
      BY <1>1, <2>3 DEF StartHeartbeat, TypeOK
  <1>2. ASSUME NEW p \in Proc, NEW accepted, NEW c \in AnyCall, Report(p, w, accepted, c)
        PROVE  TypeOK'
    <2> DEFINE d == [c EXCEPT !.who = w, !.task = k, !.name = tasks[k].name]
    <2>1. ASSUME Owned(w)
          PROVE  d \in AnyCall
      <3>1. k # 0
        BY <1>2 DEF Report
      <3>2. k \in Id
        BY <1>k, <3>1, QueueAssumption DEF Id, Id0
      <3>3. tasks[k].name \in Name0
        BY <3>2 DEF TypeOK, AnyRow
      <3> QED
        BY <1>k, <3>3, <1>2 DEF AnyCall
    <2>2. calls' \in [Proc -> AnyCall]
      <3>1. Start(p, IF Owned(w) /\ accepted THEN d ELSE Call)
        BY <1>2 DEF Report
      <3>2. CASE Owned(w) /\ accepted
        BY <3>1, <3>2, <2>1, StartTyped
      <3>3. CASE ~(Owned(w) /\ accepted)
        BY <3>1, <3>3, CallTyped, StartTyped
      <3> QED
        BY <3>2, <3>3
    <2> QED
      BY <1>2, <1>b, <2>2 DEF Report, TypeOK
  <1>3. ASSUME NEW p \in Proc, StartComplete(p, w)
        PROVE  TypeOK'
    <2> DEFINE work == IF Stages(k) THEN "stage" ELSE IF tasks[k].kind = "publish" THEN "publish"
                       ELSE IF tasks[k].kind = "build" THEN "main" ELSE "job"
    <2> DEFINE left == CASE work = "stage" -> <<"end", "older", "package", "insert">>
                         [] work = "job"   -> <<"end">>
                         [] OTHER          -> <<"end", "package">>
    <2> DEFINE audit == [NoRow EXCEPT !.kind = "audit", !.name = tasks[k].name, !.of = k, !.priority = 40]
    <2> DEFINE c == [Call EXCEPT !.work = work, !.row = audit, !.left = left]
    <2>1. Report(p, w, Evidence(k), c)
      BY <1>3 DEF StartComplete
    <2>2. k \in Id
      BY <2>1, <1>k, QueueAssumption DEF Report, Id, Id0
    <2>3. tasks[k].name \in Name0
      BY <2>2 DEF TypeOK, AnyRow
    <2>4. audit \in AnyRow
      BY <2>3, <1>k, NoRowTyped DEF AnyRow
    <2>5. work \in {"stage", "publish", "main", "job"}
      OBVIOUS
    <2>6. left \in Seq(Steps)
      <3>1. /\ <<"end", "older", "package", "insert">> \in Seq(Steps)
            /\ <<"end">> \in Seq(Steps) /\ <<"end", "package">> \in Seq(Steps)
        BY DEF Steps
      <3> HIDE DEF work
      <3> QED
        BY <3>1
    <2>7. c \in AnyCall
      <3> HIDE DEF work, left, audit
      <3> QED
        BY <2>4, <2>5, <2>6, CallTyped DEF AnyCall, Handler, StepsOf
    <2> QED
      BY <2>1, <2>7, <1>2
  <1>4. ASSUME NEW p \in Proc, NEW final \in BOOLEAN, StartFail(p, w, final)
        PROVE  TypeOK'
    <2> DEFINE exhausted == final \/ Exhausted(k)
    <2> DEFINE left == IF exhausted /\ tasks[k].trust = "community" THEN <<"fail", "package">> ELSE <<"fail">>
    <2> DEFINE c == [Call EXCEPT !.work = "fail", !.spent = {u \in {k} : exhausted}, !.left = left]
    <2>1. Report(p, w, TRUE, c)
      BY <1>4 DEF StartFail
    <2>2. k \in Id
      BY <2>1, <1>k, QueueAssumption DEF Report, Id, Id0
    <2>3. left \in Seq(Steps) /\ "fail" \in Handler
      <3>1. <<"fail", "package">> \in Seq(Steps) /\ <<"fail">> \in Seq(Steps)
        BY DEF Steps
      <3> QED
        BY <3>1 DEF Handler, StepsOf
    <2>4. c \in AnyCall
      <3> HIDE DEF left, exhausted
      <3> QED
        BY <2>2, <2>3, CallTyped DEF AnyCall
    <2> QED
      BY <2>1, <2>4, <1>2
  <1>5. ASSUME NEW p \in Proc, NEW t \in Id, Claim(p, w, t)
        PROVE  TypeOK'
    <2> DEFINE left == IF tasks[t].trust = "community" THEN <<"package", "answer">> ELSE <<"answer">>
    <2> DEFINE c == [Call EXCEPT !.work = "claim", !.who = w, !.task = t, !.name = tasks[t].name, !.left = left]
    <2>1. tasks[t] \in AnyRow /\ t \in Id0 /\ tasks[t].name \in Name0 /\ tasks[t].attempts + 1 \in Nat
      BY DEF TypeOK, Id, Id0, AnyRow
    <2>2. left \in Seq(Steps) /\ "claim" \in Handler
      <3>1. <<"package", "answer">> \in Seq(Steps) /\ <<"answer">> \in Seq(Steps)
        BY DEF Steps
      <3> QED
        BY <3>1 DEF Handler, StepsOf
    <2>3. c \in AnyCall
      <3> HIDE DEF left
      <3> QED
        BY <2>1, <2>2, CallTyped DEF AnyCall
    <2>4. calls' \in [Proc -> AnyCall]
      BY <1>5, <2>3, StartTyped DEF Claim
    <2>5. Taken(w, t) \in AnyRow
      <3> DEFINE r == [tasks[t] EXCEPT !.status = "leased", !.holder = w, !.over = FALSE]
      <3>1. r \in AnyRow
        BY <2>1 DEF AnyRow, Status
      <3>3. Taken(w, t) = [r EXCEPT !.attempts = tasks[t].attempts + 1]
        BY DEF Taken
      <3> HIDE DEF r
      <3> QED
        BY <2>1, <3>1, <3>3 DEF AnyRow
    <2> QED
      BY <1>5, <2>4, <2>5 DEF Claim, TypeOK
  <1>6. ASSUME Produce(w)
        PROVE  TypeOK'
    <2>1. k \in Id
      BY <1>6, <1>k, QueueAssumption DEF Produce, Id, Id0
    <2>2. staging' \subseteq Id
      BY <1>6, <2>1 DEF Produce, TypeOK
    <2>3. edge' \subseteq Id0
      BY <1>6, <1>k, <2>1 DEF Produce, TypeOK, AnyRow
    <2>4. busy' \in [Worker -> AnyHands]
      BY <1>6 DEF Produce, TypeOK, AnyHands
    <2> QED
      BY <1>6, <2>2, <2>3, <2>4 DEF Produce, TypeOK
  <1>7. ASSUME TokenRunsOut(w)
        PROVE  TypeOK'
    BY <1>7 DEF TokenRunsOut, TypeOK, AnyHands
  <1>8. ASSUME Kill(w)
        PROVE  TypeOK'
    BY <1>8, <1>b, QueueAssumption DEF Kill, TypeOK
  <1> QED
    BY <1>1, <1>3, <1>4, <1>5, <1>6, <1>7, <1>8 DEF Reports

LEMMA InitTyped == Init => TypeOK
  BY CallTyped, NoRowTyped, QueueAssumption DEF Init, TypeOK, Id0, Hands, AnyHands

LEMMA NextTyped ==
  ASSUME TypeOK, CallsFit, [Next]_vars
  PROVE  TypeOK'
  <1>1. ASSUME NEW p \in Proc, StartTick(p)
        PROVE  TypeOK'
    <2> DEFINE left == IF Expired = {} THEN <<"rules">> ELSE <<"requeue", "rules">>
    <2> DEFINE c == [Call EXCEPT !.work = "tick", !.todo = Expired, !.spent = {t \in Expired : Exhausted(t)},
                                 !.left = left]
    <2>1. Expired \subseteq Id
      BY QueueAssumption DEF Expired, InStatus, Made, TypeOK, Id, Id0
    <2>2. left \in Seq(Steps)
      <3>1. <<"rules">> \in Seq(Steps) /\ <<"requeue", "rules">> \in Seq(Steps)
        BY DEF Steps
      <3> QED
        BY <3>1
    <2>3. c \in AnyCall
      <3> HIDE DEF left
      <3> QED
        BY <2>1, <2>2, CallTyped DEF AnyCall, Handler, StepsOf
    <2>4. calls' \in [Proc -> AnyCall]
      BY <1>1, <2>3, StartTyped DEF StartTick
    <2> QED
      BY <1>1, <2>4 DEF StartTick, TypeOK
  <1>2. ASSUME NEW p \in Proc, End(p)
        PROVE  TypeOK'
    <2>1. calls' \in [Proc -> AnyCall]
      BY <1>2, CallTyped, StartTyped DEF End
    <2> QED
      BY <1>2, <2>1, QueueAssumption DEF End, TypeOK
  <1>3. ASSUME NEW t \in Id, LeaseRunsOut(t)
        PROVE  TypeOK'
    <2>1. [tasks[t] EXCEPT !.over = TRUE] \in AnyRow
      BY RowsTyped
    <2> QED
      BY <1>3, <2>1 DEF LeaseRunsOut, TypeOK
  <1>4. CASE UNCHANGED vars
    BY <1>4 DEF vars, TypeOK
  <1> QED
    BY <1>1, <1>2, <1>3, <1>4, AskTyped, WriteTyped, WorkerTyped DEF Next

-----------------------------------------------------------------------------
\* What a row is about is written once, with the row.
Same(r, s) == r.kind = s.kind /\ r.trust = s.trust /\ r.name = s.name /\ r.of = s.of /\ r.by = s.by

Kept ==
    /\ \A t \in Made : t \in 1 .. made' /\ Same(tasks[t], tasks'[t])
    /\ edge \subseteq edge'

\* What the updates of a row leave alone.
LEMMA RowsSame ==
  ASSUME TypeOK
  PROVE  /\ \A t \in Id : Same(tasks[t], tasks[t])
         /\ \A t \in Id : \A s : Same(tasks[t], [tasks[t] EXCEPT !.status = s]) /\ Same(tasks[t], Ended(t, s))
         /\ \A t \in Id : \A b : Same(tasks[t], [tasks[t] EXCEPT !.over = b])
         /\ \A t \in Id : \A x : Same(tasks[t], Retry(t, x)) /\ Same(tasks[t], Requeued(t, x))
         /\ \A S : \A t \in Id : Same(tasks[t], Cancelled(S)[t])
         /\ \A t \in Id, w \in Worker : Same(tasks[t], Taken(w, t))
  <1>1. \A t \in Id : tasks[t] \in AnyRow
    BY DEF TypeOK
  <1>2. \A t \in Id : \A s : Same(tasks[t], [tasks[t] EXCEPT !.status = s]) /\ Same(tasks[t], Ended(t, s))
    BY <1>1 DEF Ended, AnyRow, Same
  <1>3. ASSUME NEW t \in Id, NEW x
        PROVE  Same(tasks[t], Retry(t, x))
    BY <1>1 DEF Retry, Ended, AnyRow, Same
  <1>4. \A S : \A t \in Id : Same(tasks[t], Cancelled(S)[t])
    BY <1>1 DEF Cancelled, Same, AnyRow
  <1>5. \A t \in Id : \A b : Same(tasks[t], [tasks[t] EXCEPT !.over = b])
    BY <1>1 DEF AnyRow, Same
  <1>6. \A t \in Id, w \in Worker : Same(tasks[t], Taken(w, t))
    BY <1>1 DEF Taken, AnyRow, Same
  <1> QED
    BY <1>1, <1>2, <1>3, <1>4, <1>5, <1>6 DEF Requeued, Same

\* Changing one row, and not what it is about.
LEMMA OneRowKept ==
  ASSUME TypeOK, NEW u, NEW r, tasks' = [tasks EXCEPT ![u] = r], u \in Id => Same(tasks[u], r),
         made' = made, edge \subseteq edge'
  PROVE  Kept
  <1>1. Made \subseteq Id /\ made \in Int
    BY QueueAssumption DEF TypeOK, Made, Id, Id0
  <1>2. \A t \in Id : Same(tasks[t], tasks'[t])
    BY DEF TypeOK, Same
  <1> QED
    BY <1>1, <1>2 DEF Kept, Made

LEMMA RowsKept ==
  ASSUME TypeOK, \A t \in Id : Same(tasks[t], tasks'[t]), made' = made, edge \subseteq edge'
  PROVE  Kept
  <1>1. Made \subseteq Id /\ made \in Int
    BY QueueAssumption DEF TypeOK, Made, Id, Id0
  <1> QED
    BY <1>1 DEF Kept, Made

LEMMA NextKept ==
  ASSUME TypeOK, [Next]_vars
  PROVE  Kept
  <1>m. Made \subseteq Id /\ made \in Int
    BY QueueAssumption DEF TypeOK, Made, Id, Id0
  <1>s. ASSUME UNCHANGED tasks, made' = made, edge \subseteq edge'
        PROVE  Kept
    BY <1>s, <1>m DEF Kept, Same, Made
  <1>1. ASSUME NEW p \in Proc, Write(p)
        PROVE  Kept
    <2>1. CASE Insert(p)
      BY <2>1, <1>m DEF Insert, Kept, Same, Made, TypeOK
    <2>2. CASE SetPackage(p)
      <3> DEFINE b == tasks[calls[p].task].of
      <3> DEFINE s == IF tasks[b].status = "staged" THEN "done" ELSE tasks[b].status
      <3>1. BuildPublished(calls[p]) = [tasks EXCEPT ![b] = [tasks[b] EXCEPT !.status = s]]
        BY DEF BuildPublished
      <3>2. b \in Id => Same(tasks[b], [tasks[b] EXCEPT !.status = s])
        BY RowsSame
      <3>3. tasks' = [tasks EXCEPT ![b] = [tasks[b] EXCEPT !.status = s]] \/ tasks' = tasks
        BY <2>2, <3>1 DEF SetPackage
      <3> HIDE DEF b, s
      <3>4. made' = made /\ edge \subseteq edge'
        BY <2>2 DEF SetPackage
      <3> QED
        BY <3>2, <3>3, <3>4, <1>s, OneRowKept
    <2>3. CASE Answer(p) \/ SelectOlder(p) \/ Decide(p) \/ Follow(p) \/ Rules(p)
      BY <2>3, <1>s DEF Answer, SelectOlder, Decide, Follow, Rules
    <2>4. CASE Beat(p)
      BY <2>4, RowsSame, OneRowKept DEF Beat
    <2>5. CASE EndTask(p)
      BY <2>5, RowsSame, OneRowKept DEF EndTask
    <2>6. CASE FailTask(p)
      BY <2>6, RowsSame, OneRowKept DEF FailTask
    <2>7. CASE CancelDecided(p)
      BY <2>7, RowsSame, RowsKept DEF CancelDecided
    <2>8. ASSUME NEW t \in Id, Supersede(p, t)
          PROVE  Kept
      BY <2>8, RowsSame, RowsKept DEF Supersede
    <2>9. ASSUME NEW t \in Id, Requeue(p, t)
          PROVE  Kept
      BY <2>9, RowsSame, OneRowKept DEF Requeue
    <2> QED
      BY <1>1, <2>1, <2>2, <2>3, <2>4, <2>5, <2>6, <2>7, <2>8, <2>9 DEF Write
  <1>2. ASSUME NEW p \in Proc, Ask(p)
        PROVE  Kept
    <2>1. ASSUME NEW t \in Id, CancelTask(p, t)
          PROVE  Kept
      BY <2>1, RowsSame, OneRowKept DEF CancelTask
    <2>2. ASSUME NEW n \in Name, DeletePackage(p, n)
          PROVE  Kept
      <3>1. \A t \in Id : Same(tasks[t], tasks'[t])
        BY <2>2, RowsSame DEF DeletePackage
      <3> QED
        BY <2>2, <3>1, RowsKept DEF DeletePackage
    <2> QED
      BY <1>2, <2>1, <2>2, <1>s DEF Ask, StartBuild, StartEnqueue, QueueJob, StartProjectBuild, StartApprove, StartReject
  <1>3. ASSUME NEW p \in Proc, StartTick(p) \/ End(p)
        PROVE  Kept
    BY <1>3, <1>s DEF StartTick, End
  <1>4. ASSUME NEW p \in Proc, NEW w \in Worker, StartHeartbeat(p, w) \/ Reports(p, w)
        PROVE  Kept
    BY <1>4, <1>s DEF StartHeartbeat, Reports, StartComplete, StartFail, Report
  <1>5. ASSUME NEW p \in Proc, NEW w \in Worker, NEW t \in Id, Claim(p, w, t)
        PROVE  Kept
    BY <1>5, RowsSame, OneRowKept DEF Claim
  <1>6. ASSUME NEW w \in Worker, Produce(w) \/ TokenRunsOut(w) \/ Kill(w)
        PROVE  Kept
    BY <1>6, <1>s DEF Produce, TokenRunsOut, Kill
  <1>7. ASSUME NEW t \in Id, LeaseRunsOut(t)
        PROVE  Kept
    BY <1>7, RowsSame, OneRowKept DEF LeaseRunsOut
  <1>8. CASE UNCHANGED vars
    BY <1>8, <1>s DEF vars
  <1> QED
    BY <1>1, <1>2, <1>3, <1>4, <1>5, <1>6, <1>7, <1>8 DEF Next

-----------------------------------------------------------------------------
\* What an invocation carries stays right while the rows stay what they are.
LEMMA FitsKept ==
  ASSUME TypeOK, Kept, NEW c, Fits(c, tasks, made, edge)
  PROVE  Fits(c, tasks', made', edge')
  <1>1. \A t \in 1 .. made : t \in 1 .. made' /\ Same(tasks[t], tasks'[t])
    BY DEF Kept, Made
  <1>2. Allowed(c.row, tasks, made) => Allowed(c.row, tasks', made')
    BY <1>1 DEF Allowed, Same
  <1>3. edge \subseteq edge'
    BY DEF Kept
  <1> QED
    BY <1>1, <1>2, <1>3 DEF Fits, Same

LEMMA StartFits ==
  ASSUME TypeOK, CallsFit, Kept, NEW p \in Proc, NEW c, Start(p, c), Fits(c, tasks, made, edge)
  PROVE  CallsFit'
  <1> DEFINE d == IF c.left = <<>> THEN Call ELSE c
  <1>1. Fits(Call, tasks, made, edge)
    BY Empty DEF Fits, Call, NoRow, Allowed
  <1>2. Fits(d, tasks, made, edge)
    BY <1>1
  <1>3. \A q \in Proc : \/ calls'[q] = calls[q] /\ Fits(calls[q], tasks, made, edge)
                        \/ calls'[q] = d
    BY DEF Start, TypeOK, CallsFit
  <1> HIDE DEF d
  <1>4. \A q \in Proc : Fits(calls'[q], tasks, made, edge)
    BY <1>2, <1>3
  <1>5. \A q \in Proc : Fits(calls'[q], tasks', made', edge')
    BY <1>4, FitsKept
  <1> QED
    BY <1>5 DEF CallsFit

LEMMA CallsStay ==
  ASSUME TypeOK, CallsFit, Kept, UNCHANGED calls
  PROVE  CallsFit'
  BY FitsKept DEF CallsFit

LEMMA ThenFits ==
  ASSUME TypeOK, CallsFit, Kept, NEW p \in Proc, ~Idle(p), Then(p)
  PROVE  CallsFit'
  <1> DEFINE c == calls[p]
  <1> DEFINE d == [c EXCEPT !.left = Tail(@)]
  <1>1. c \in AnyCall /\ Fits(c, tasks, made, edge) /\ c.left # <<>>
    BY DEF TypeOK, CallsFit, Idle
  <1>2. \A S : c.left \in Seq(S) => Tail(c.left) \in Seq(S)
    BY <1>1, Tails
  <1>3. d.left = Tail(c.left) /\ d.work = c.work /\ d.task = c.task /\ d.name = c.name /\ d.row = c.row
    BY <1>1 DEF AnyCall
  <1>4. Fits(d, tasks, made, edge)
    <2> HIDE DEF d, c
    <2> QED
      BY <1>1, <1>2, <1>3 DEF Fits
  <1> QED
    BY <1>4, StartFits DEF Then

\* The handler a step belongs to.
LEMMA OfHandler ==
  ASSUME TypeOK, CallsFit, NEW p \in Proc, NEW s, At(p, s)
  PROVE  /\ calls[p] \in AnyCall /\ calls[p].left # <<>> /\ s \in StepsOf[calls[p].work]
         /\ Tail(calls[p].left) \in Seq(StepsOf[calls[p].work]) /\ Fits(calls[p], tasks, made, edge)
  BY Tails DEF At, Idle, CallsFit, Fits, TypeOK

LEMMA WriteFits ==
  ASSUME TypeOK, CallsFit, Kept, NEW p \in Proc, Write(p)
  PROVE  CallsFit'
  <1> DEFINE c == calls[p]
  <1>1. ASSUME ~Idle(p), Then(p)
        PROVE  CallsFit'
    BY <1>1, ThenFits
  <1>2. CASE SelectOlder(p)
    <2> DEFINE left == IF Older(c.task) = {} THEN Tail(c.left) ELSE <<"supersede">> \o Tail(c.left)
    <2> DEFINE d == [c EXCEPT !.todo = Older(c.task), !.left = left]
    <2>1. At(p, "older") /\ Start(p, d)
      BY <1>2 DEF SelectOlder
    <2>2. c \in AnyCall /\ "older" \in StepsOf[c.work] /\ Tail(c.left) \in Seq(StepsOf[c.work])
          /\ Fits(c, tasks, made, edge)
      BY <2>1, OfHandler
    <2>3. c.work = "stage"
      BY <2>2 DEF AnyCall, Handler, StepsOf
    <2>4. <<"supersede">> \o Tail(c.left) \in Seq(StepsOf[c.work])
      BY <2>2, <2>3, Prefixed DEF StepsOf
    <2>5. left \in Seq(StepsOf[c.work])
      BY <2>2, <2>4
    <2>6. d.work = c.work /\ d.left = left /\ d.row = c.row
      BY <2>2 DEF AnyCall
    <2>7. Fits(d, tasks, made, edge)
      <3> HIDE DEF d, left, c
      <3> QED
        BY <2>2, <2>3, <2>5, <2>6 DEF Fits
    <2> QED
      BY <2>1, <2>7, StartFits
  <1>3. CASE Rules(p)
    <2>1. ASSUME NEW j \in Rule, Start(p, [c EXCEPT !.row = JobRow(j), !.left = <<"insert">> \o @])
          PROVE  CallsFit'
      <3> DEFINE d == [c EXCEPT !.row = JobRow(j), !.left = <<"insert">> \o @]
      <3>1. c \in AnyCall /\ "rules" \in StepsOf[c.work] /\ Fits(c, tasks, made, edge)
        BY <1>3, OfHandler DEF Rules
      <3>2. c.work = "tick"
        BY <3>1 DEF AnyCall, Handler, StepsOf
      <3>3. <<"insert">> \o c.left \in Seq(StepsOf[c.work])
        BY <3>1, <3>2, Prefixed DEF StepsOf, Fits
      <3>4. d.work = c.work /\ d.left = <<"insert">> \o c.left /\ d.row = JobRow(j)
        BY <3>1 DEF AnyCall
      <3>5. JobRow(j).kind = "job" /\ JobRow(j).status = "queued"
        BY DEF JobRow, NoRow
      <3>6. Fits(d, tasks, made, edge)
        <4> HIDE DEF d, c
        <4> QED
          BY <3>2, <3>3, <3>4, <3>5 DEF Fits, Allowed
      <3> QED
        BY <2>1, <3>6, StartFits
    <2> QED
      BY <1>1, <1>3, <2>1 DEF Rules, At
  <1>4. CASE \E t \in Id : Supersede(p, t)
    <2>1. PICK o \in Id : Supersede(p, o)
      BY <1>4
    <2> DEFINE left == IF c.todo = {o} THEN Tail(c.left) ELSE c.left
    <2> DEFINE d == [c EXCEPT !.todo = @ \ {o}, !.left = left]
    <2>2. At(p, "supersede") /\ Start(p, d)
      BY <2>1 DEF Supersede
    <2>3. c \in AnyCall /\ "supersede" \in StepsOf[c.work] /\ Tail(c.left) \in Seq(StepsOf[c.work])
          /\ Fits(c, tasks, made, edge)
      BY <2>2, OfHandler
    <2>4. c.work = "stage"
      BY <2>3 DEF AnyCall, Handler, StepsOf
    <2>5. left \in Seq(StepsOf[c.work])
      BY <2>3 DEF Fits
    <2>6. d.work = c.work /\ d.left = left /\ d.row = c.row
      BY <2>3 DEF AnyCall
    <2>7. Fits(d, tasks, made, edge)
      <3> HIDE DEF d, left, c
      <3> QED
        BY <2>3, <2>4, <2>5, <2>6 DEF Fits
    <2> QED
      BY <2>2, <2>7, StartFits
  <1>5. CASE \E t \in Id : Requeue(p, t)
    <2>1. PICK t \in Id : Requeue(p, t)
      BY <1>5
    <2> DEFINE rest == IF c.todo = {t} THEN Tail(c.left) ELSE c.left
    <2> DEFINE left == IF tasks[t].kind = "build" /\ tasks[t].trust = "community" THEN <<"follow">> \o rest ELSE rest
    <2> DEFINE d == [c EXCEPT !.todo = @ \ {t}, !.task = t, !.left = left]
    <2>2. At(p, "requeue") /\ Start(p, d)
      BY <2>1 DEF Requeue
    <2>3. c \in AnyCall /\ "requeue" \in StepsOf[c.work] /\ Tail(c.left) \in Seq(StepsOf[c.work])
          /\ Fits(c, tasks, made, edge)
      BY <2>2, OfHandler
    <2>4. c.work = "tick"
      BY <2>3 DEF AnyCall, Handler, StepsOf
    <2>5. rest \in Seq(StepsOf[c.work])
      BY <2>3 DEF Fits
    <2>6. <<"follow">> \o rest \in Seq(StepsOf[c.work])
      <3> HIDE DEF rest
      <3> QED
        BY <2>4, <2>5, Prefixed DEF StepsOf
    <2>7. left \in Seq(StepsOf[c.work])
      BY <2>5, <2>6
    <2>8. d.work = c.work /\ d.left = left /\ d.row = c.row
      BY <2>3 DEF AnyCall
    <2>9. Fits(d, tasks, made, edge)
      <3> HIDE DEF d, left, rest, c
      <3> QED
        BY <2>3, <2>4, <2>7, <2>8 DEF Fits
    <2> QED
      BY <2>2, <2>9, StartFits
  <1> QED
    BY <1>1, <1>2, <1>3, <1>4, <1>5
       DEF Write, Insert, SetPackage, Answer, Beat, EndTask, FailTask, Decide, CancelDecided, Follow, At

LEMMA QueueFits ==
  ASSUME TypeOK, CallsFit, Kept, NEW p \in Proc, NEW w \in {"build", "enqueue", "job", "review", "approve"}, NEW r,
         NEW after \in Seq(StepsOf[w]), w = "job" => after = <<>>, Queue(p, w, r, after),
         r.status = "queued", Allowed(r, tasks, made)
  PROVE  CallsFit'
  <1> DEFINE c == [Call EXCEPT !.work = w, !.name = r.name, !.row = r, !.task = r.of, !.left = <<"insert">> \o after]
  <1>1. c.work = w /\ c.row = r /\ c.left = <<"insert">> \o after
    BY DEF Call
  <1>2. "insert" \in StepsOf[w]
    BY DEF StepsOf
  <1>3. <<"insert">> \o after \in Seq(StepsOf[w])
    BY <1>2, Prefixed
  <1>4. w = "job" => <<"insert">> \o after \in Seq({"insert"})
    BY Empty, Prefixed
  <1>5. Fits(c, tasks, made, edge)
    <2> HIDE DEF c
    <2> QED
      BY <1>1, <1>3, <1>4 DEF Fits
  <1> QED
    BY <1>5, StartFits DEF Queue

LEMMA AskFits ==
  ASSUME TypeOK, CallsFit, Placed, Kept, NEW p \in Proc, Ask(p)
  PROVE  CallsFit'
  <1>e. \A w : <<>> \in Seq(StepsOf[w])
    BY Empty
  <1>1. ASSUME NEW n \in Name, NEW ref \in Ref, StartBuild(p, n, ref)
        PROVE  CallsFit'
    <2> DEFINE r == [NoRow EXCEPT !.kind = "build", !.trust = "community", !.name = n, !.ref = ref]
    <2> DEFINE c == [Call EXCEPT !.work = "build", !.name = n, !.left = <<"package">>]
    <2>1. r.kind = "build" /\ r.status = "queued" /\ NoRow.kind = "job" /\ NoRow.status = "queued"
      BY DEF NoRow
    <2>2. <<"package">> \in Seq(StepsOf["build"])
      BY DEF StepsOf
    <2>3. c.work = "build" /\ c.left = <<"package">> /\ c.row = NoRow
      BY DEF Call
    <2>4. Fits(c, tasks, made, edge)
      <3> HIDE DEF c
      <3> QED
        BY <2>1, <2>2, <2>3 DEF Fits, Allowed
    <2> HIDE DEF r, c
    <2>5. Start(p, c) \/ Queue(p, "build", r, <<"package">>)
      BY <1>1 DEF StartBuild, r, c
    <2> QED
      BY <2>1, <2>2, <2>4, <2>5, QueueFits, StartFits DEF Allowed
  <1>2. ASSUME NEW n \in Name, NEW ref \in Ref, StartEnqueue(p, n, ref)
        PROVE  CallsFit'
    <2> DEFINE r == [NoRow EXCEPT !.kind = "build", !.name = n, !.ref = ref]
    <2>1. r.kind = "build" /\ r.status = "queued"
      BY DEF NoRow
    <2>2. Queue(p, "enqueue", r, <<>>)
      BY <1>2 DEF StartEnqueue
    <2> HIDE DEF r
    <2> QED
      BY <1>e, <2>1, <2>2, QueueFits DEF Allowed
  <1>3. ASSUME NEW j \in Rule, QueueJob(p, j)
        PROVE  CallsFit'
    <2>1. JobRow(j).kind = "job" /\ JobRow(j).status = "queued"
      BY DEF JobRow, NoRow
    <2> QED
      BY <1>3, <1>e, <2>1, QueueFits DEF Allowed, QueueJob
  <1>4. ASSUME NEW m \in Maintainer, NEW t \in Id, StartProjectBuild(p, m, t)
        PROVE  CallsFit'
    <2> DEFINE r == [NoRow EXCEPT !.kind = "build", !.name = tasks[t].name, !.of = t, !.priority = 30]
    <2>1. r.kind = "build" /\ r.status = "queued"
      BY DEF NoRow
    <2>2. Queue(p, "review", r, <<>>)
      BY <1>4 DEF StartProjectBuild
    <2> HIDE DEF r
    <2> QED
      BY <1>e, <2>1, <2>2, QueueFits DEF Allowed
  <1>5. ASSUME NEW m \in Maintainer, NEW t \in Id, StartApprove(p, m, t)
        PROVE  CallsFit'
    <2> DEFINE r == [NoRow EXCEPT !.kind = "publish", !.name = tasks[t].name, !.of = t, !.by = m, !.priority = 20]
    <2>1. r.status = "queued" /\ r.of = t /\ r.name = tasks[t].name /\ r.by = m
      BY DEF NoRow
    <2>2. /\ t \in Made /\ tasks[t].trust = "project" /\ tasks[t].kind = "build" /\ tasks[t].of # 0
          /\ m # OwnerOf[tasks[t].name]
      BY <1>5 DEF StartApprove, Approvable, Placed, Stages, Reviews
    <2>3. Allowed(r, tasks, made)
      <3> HIDE DEF r
      <3> QED
        BY <2>1, <2>2 DEF Allowed, Made
    <2>4. <<"decide", "package", "audits">> \in Seq(StepsOf["approve"])
      BY DEF StepsOf
    <2>5. Queue(p, "approve", r, <<"decide", "package", "audits">>)
      BY <1>5 DEF StartApprove
    <2> HIDE DEF r
    <2> QED
      BY <2>1, <2>3, <2>4, <2>5, QueueFits
  <1>6. ASSUME NEW m \in Maintainer, NEW t \in Id, StartReject(p, m, t)
        PROVE  CallsFit'
    <2> DEFINE left == <<"decide", "cancel", "audits", "package">>
    <2> DEFINE c == [Call EXCEPT !.work = "reject", !.task = t, !.name = tasks[t].name, !.left = left]
    <2>1. left \in Seq(StepsOf["reject"])
      BY DEF StepsOf
    <2>2. c.work = "reject" /\ c.left = left /\ c.row = NoRow /\ NoRow.kind = "job" /\ NoRow.status = "queued"
      BY DEF Call, NoRow
    <2>3. Start(p, c)
      BY <1>6 DEF StartReject
    <2>4. Fits(c, tasks, made, edge)
      <3> HIDE DEF c, left
      <3> QED
        BY <2>1, <2>2 DEF Fits, Allowed
    <2> QED
      BY <2>3, <2>4, StartFits
  <1> QED
    BY <1>1, <1>2, <1>3, <1>4, <1>5, <1>6, CallsStay DEF Ask, CancelTask, DeletePackage

LEMMA WorkerFits ==
  ASSUME TypeOK, CallsFit, HandsFit, Kept, NEW p \in Proc, NEW w \in Worker
  PROVE  StartHeartbeat(p, w) \/ Reports(p, w) \/ (\E t \in Id : Claim(p, w, t)) => CallsFit'
  <1> DEFINE k == busy[w].task
  <1>n. NoRow.kind = "job" /\ NoRow.status = "queued"
    BY DEF NoRow
  <1>1. ASSUME StartHeartbeat(p, w)
        PROVE  CallsFit'
    <2> DEFINE c == [Call EXCEPT !.work = "beat", !.who = w, !.task = k, !.left = <<"beat", "answer">>]
    <2>1. <<"beat", "answer">> \in Seq(StepsOf["beat"])
      BY DEF StepsOf
    <2>2. c.work = "beat" /\ c.left = <<"beat", "answer">> /\ c.row = NoRow
      BY DEF Call
    <2>3. Start(p, c)
      BY <1>1 DEF StartHeartbeat
    <2>4. Fits(c, tasks, made, edge)
      <3> HIDE DEF c
      <3> QED
        BY <1>n, <2>1, <2>2 DEF Fits, Allowed
    <2> QED
      BY <2>3, <2>4, StartFits
  <1>2. ASSUME NEW accepted, NEW c, Report(p, w, accepted, c),
               Owned(w) /\ accepted
                 => Fits([c EXCEPT !.who = w, !.task = k, !.name = tasks[k].name], tasks, made, edge)
        PROVE  CallsFit'
    <2> DEFINE d == [c EXCEPT !.who = w, !.task = k, !.name = tasks[k].name]
    <2>1. Fits(Call, tasks, made, edge)
      BY <1>n, Empty DEF Fits, Call, Allowed
    <2>2. Start(p, IF Owned(w) /\ accepted THEN d ELSE Call)
      BY <1>2 DEF Report
    <2>3. CASE Owned(w) /\ accepted
      BY <1>2, <2>2, <2>3, StartFits
    <2>4. CASE ~(Owned(w) /\ accepted)
      BY <2>1, <2>2, <2>4, StartFits
    <2> QED
      BY <2>3, <2>4
  <1>3. ASSUME StartComplete(p, w)
        PROVE  CallsFit'
    <2> DEFINE work == IF Stages(k) THEN "stage" ELSE IF tasks[k].kind = "publish" THEN "publish"
                       ELSE IF tasks[k].kind = "build" THEN "main" ELSE "job"
    <2> DEFINE left == CASE work = "stage" -> <<"end", "older", "package", "insert">>
                         [] work = "job"   -> <<"end">>
                         [] OTHER          -> <<"end", "package">>
    <2> DEFINE audit == [NoRow EXCEPT !.kind = "audit", !.name = tasks[k].name, !.of = k, !.priority = 40]
    <2> DEFINE c == [Call EXCEPT !.work = work, !.row = audit, !.left = left]
    <2> DEFINE d == [c EXCEPT !.who = w, !.task = k, !.name = tasks[k].name]
    <2>1. busy[w].made /\ Report(p, w, Evidence(k), c)
      BY <1>3 DEF StartComplete
    <2>2. k \in Made /\ (tasks[k].kind = "publish" => tasks[k].of \in edge)
      BY <2>1 DEF HandsFit, Report
    <2>3. audit.kind = "audit" /\ audit.status = "queued"
      BY DEF NoRow
    <2>4. d.work = work /\ d.row = audit /\ d.left = left /\ d.task = k /\ d.name = tasks[k].name
      BY DEF Call
    <2>5. left \in Seq(StepsOf[work])
      <3>1. /\ <<"end", "older", "package", "insert">> \in Seq(StepsOf["stage"])
            /\ <<"end">> \in Seq(StepsOf["job"])
            /\ <<"end", "package">> \in Seq(StepsOf["publish"])
            /\ <<"end", "package">> \in Seq(StepsOf["main"])
        BY DEF StepsOf
      <3>2. work \in {"stage", "publish", "main", "job"}
        OBVIOUS
      <3> HIDE DEF work
      <3> QED
        BY <3>1, <3>2
    <2>6. /\ work = "job" => tasks[k].kind # "build"
          /\ work = "publish" => tasks[k].kind = "publish"
          /\ work = "main" => tasks[k].kind = "build" /\ ~Stages(k)
          /\ work # "claim"
      OBVIOUS
    <2>7. ASSUME Evidence(k)
          PROVE  Fits(d, tasks, made, edge)
      <3>1. work = "main" => k \in edge
        <4> HIDE DEF work
        <4> QED
          BY <2>6, <2>7 DEF Evidence
      <3> HIDE DEF d, left, work, audit
      <3> QED
        BY <2>2, <2>3, <2>4, <2>5, <2>6, <3>1 DEF Fits, Allowed, Made
    <2> HIDE DEF c
    <2> QED
      BY <2>1, <2>7, <1>2
  <1>4. ASSUME NEW final \in BOOLEAN, StartFail(p, w, final)
        PROVE  CallsFit'
    <2> DEFINE exhausted == final \/ Exhausted(k)
    <2> DEFINE left == IF exhausted /\ tasks[k].trust = "community" THEN <<"fail", "package">> ELSE <<"fail">>
    <2> DEFINE spent == {u \in {k} : exhausted}
    <2> DEFINE c == [Call EXCEPT !.work = "fail", !.spent = spent, !.left = left]
    <2> DEFINE d == [c EXCEPT !.who = w, !.task = k, !.name = tasks[k].name]
    <2>1. Report(p, w, TRUE, c)
      BY <1>4 DEF StartFail
    <2>2. <<"fail", "package">> \in Seq(StepsOf["fail"]) /\ <<"fail">> \in Seq(StepsOf["fail"])
      BY DEF StepsOf
    <2>3. left \in Seq(StepsOf["fail"])
      BY <2>2
    <2>4. d.work = "fail" /\ d.row = NoRow /\ d.left = left
      <3> HIDE DEF left, spent
      <3> QED
        BY DEF Call
    <2>5. Fits(d, tasks, made, edge)
      <3> HIDE DEF d, left
      <3> QED
        BY <1>n, <2>3, <2>4 DEF Fits, Allowed
    <2> HIDE DEF c
    <2> QED
      BY <2>1, <2>5, <1>2
  <1>5. ASSUME NEW t \in Id, Claim(p, w, t)
        PROVE  CallsFit'
    <2> DEFINE left == IF tasks[t].trust = "community" THEN <<"package", "answer">> ELSE <<"answer">>
    <2> DEFINE c == [Call EXCEPT !.work = "claim", !.who = w, !.task = t, !.name = tasks[t].name, !.left = left]
    <2>1. <<"package", "answer">> \in Seq(StepsOf["claim"]) /\ <<"answer">> \in Seq(StepsOf["claim"])
      BY DEF StepsOf
    <2>2. left \in Seq(StepsOf["claim"])
      BY <2>1
    <2>3. c.work = "claim" /\ c.row = NoRow /\ c.left = left /\ c.task = t
      <3> HIDE DEF left
      <3> QED
        BY DEF Call
    <2>4. t \in 1 .. made /\ Start(p, c)
      BY <1>5 DEF Claim, IsNext, Offered, InStatus, Made
    <2>5. Fits(c, tasks, made, edge)
      <3> HIDE DEF c, left
      <3> QED
        BY <1>n, <2>2, <2>3, <2>4 DEF Fits, Allowed
    <2> QED
      BY <2>4, <2>5, StartFits
  <1> QED
    BY <1>1, <1>3, <1>4, <1>5 DEF Reports

LEMMA NextFits ==
  ASSUME TypeOK, CallsFit, HandsFit, Placed, [Next]_vars
  PROVE  CallsFit'
  <1>k. Kept
    BY NextKept
  <1>n. NoRow.kind = "job" /\ NoRow.status = "queued"
    BY DEF NoRow
  <1>1. ASSUME NEW p \in Proc, StartTick(p)
        PROVE  CallsFit'
    <2> DEFINE left == IF Expired = {} THEN <<"rules">> ELSE <<"requeue", "rules">>
    <2> DEFINE spent == {t \in Expired : Exhausted(t)}
    <2> DEFINE c == [Call EXCEPT !.work = "tick", !.todo = Expired, !.spent = spent, !.left = left]
    <2>1. <<"rules">> \in Seq(StepsOf["tick"]) /\ <<"requeue", "rules">> \in Seq(StepsOf["tick"])
      BY DEF StepsOf
    <2>2. left \in Seq(StepsOf["tick"])
      BY <2>1
    <2>3. c.work = "tick" /\ c.row = NoRow /\ c.left = left
      <3> HIDE DEF left, spent
      <3> QED
        BY DEF Call
    <2>4. Start(p, c)
      BY <1>1 DEF StartTick
    <2>5. Fits(c, tasks, made, edge)
      <3> HIDE DEF c, left
      <3> QED
        BY <1>n, <2>2, <2>3 DEF Fits, Allowed
    <2> QED
      BY <1>k, <2>4, <2>5, StartFits
  <1>2. ASSUME NEW p \in Proc, End(p)
        PROVE  CallsFit'
    <2>1. Fits(Call, tasks, made, edge)
      BY <1>n, Empty DEF Fits, Call, Allowed
    <2> QED
      BY <1>2, <1>k, <2>1, StartFits DEF End
  <1>3. ASSUME UNCHANGED calls
        PROVE  CallsFit'
    BY <1>3, <1>k, CallsStay
  <1>4. ASSUME NEW w \in Worker, Produce(w) \/ TokenRunsOut(w) \/ Kill(w)
        PROVE  CallsFit'
    BY <1>4, <1>3 DEF Produce, TokenRunsOut, Kill
  <1>5. ASSUME NEW t \in Id, LeaseRunsOut(t)
        PROVE  CallsFit'
    BY <1>5, <1>3 DEF LeaseRunsOut
  <1>6. CASE UNCHANGED vars
    BY <1>6, <1>3 DEF vars
  <1> QED
    BY <1>k, <1>1, <1>2, <1>4, <1>5, <1>6, WriteFits, AskFits, WorkerFits DEF Next

-----------------------------------------------------------------------------
\* The workers' hands.
LEMMA HandsStay ==
  ASSUME TypeOK, HandsFit, Kept, NEW w \in Worker, NEW h, busy' = [busy EXCEPT ![w] = h],
         h.task # 0 => h.task \in Made,
         h.made => h.task # 0 /\ (tasks[h.task].kind = "publish" => tasks[h.task].of \in edge')
  PROVE  HandsFit'
  <1>1. \A t \in Made : t \in Made' /\ Same(tasks[t], tasks'[t])
    BY DEF Kept, Made
  <1>2. ASSUME NEW v \in Worker
        PROVE  /\ busy'[v].task # 0 => busy'[v].task \in Made
               /\ busy'[v].made => /\ busy'[v].task # 0
                                   /\ tasks[busy'[v].task].kind = "publish" => tasks[busy'[v].task].of \in edge'
    BY DEF HandsFit, TypeOK, Kept
  <1>3. ASSUME NEW v \in Worker
        PROVE  /\ busy'[v].task # 0 => busy'[v].task \in Made'
               /\ busy'[v].made => /\ busy'[v].task # 0
                                   /\ tasks'[busy'[v].task].kind = "publish" => tasks'[busy'[v].task].of \in edge'
    BY <1>1, <1>2 DEF Same
  <1> QED
    BY <1>3 DEF HandsFit

LEMMA HandsUnchanged ==
  ASSUME TypeOK, HandsFit, Kept, UNCHANGED busy
  PROVE  HandsFit'
  <1>1. \A t \in Made : t \in Made' /\ Same(tasks[t], tasks'[t])
    BY DEF Kept, Made
  <1>2. ASSUME NEW v \in Worker
        PROVE  /\ busy[v].task # 0 => busy[v].task \in Made
               /\ busy[v].made => /\ busy[v].task # 0
                                  /\ tasks[busy[v].task].kind = "publish" => tasks[busy[v].task].of \in edge'
    BY DEF HandsFit, Kept
  <1>3. ASSUME NEW v \in Worker
        PROVE  /\ busy'[v].task # 0 => busy'[v].task \in Made'
               /\ busy'[v].made => /\ busy'[v].task # 0
                                   /\ tasks'[busy'[v].task].kind = "publish" => tasks'[busy'[v].task].of \in edge'
    BY <1>1, <1>2 DEF Same
  <1> QED
    BY <1>3 DEF HandsFit

LEMMA NextHands ==
  ASSUME TypeOK, CallsFit, HandsFit, [Next]_vars
  PROVE  HandsFit'
  <1>k. Kept
    BY NextKept
  <1>h. Hands.task = 0 /\ Hands.made = FALSE
    BY DEF Hands
  <1>f. ASSUME NEW w \in Worker, busy' = [busy EXCEPT ![w] = Hands]
        PROVE  HandsFit'
    BY <1>f, <1>h, <1>k, HandsStay
  <1>1. ASSUME NEW p \in Proc, Answer(p)
        PROVE  HandsFit'
    <2> DEFINE c == calls[p]
    <2> DEFINE w == c.who
    <2> DEFINE h == IF c.work = "claim" THEN [Hands EXCEPT !.task = c.task, !.first = TRUE]
                    ELSE IF busy[w].task = c.task
                         THEN [busy[w] EXCEPT !.renewed = (Profile[w].trust = "project")] ELSE busy[w]
    <2>1. busy' = [busy EXCEPT ![w] = h]
      BY <1>1 DEF Answer
    <2>2. c \in AnyCall /\ Fits(c, tasks, made, edge)
      BY <1>1, OfHandler DEF Answer
    <2>3. CASE w \in Worker
      <3>1. busy[w] \in AnyHands
        BY <2>3 DEF TypeOK
      <3>2. \/ h.task = c.task /\ h.made = FALSE /\ c.work = "claim"
            \/ h.task = busy[w].task /\ h.made = busy[w].made
        BY <3>1 DEF AnyHands, Hands
      <3>3. c.work = "claim" => c.task \in Made
        BY <2>2 DEF Fits, Made
      <3>4. /\ busy[w].task # 0 => busy[w].task \in Made
            /\ busy[w].made => /\ busy[w].task # 0
                               /\ tasks[busy[w].task].kind = "publish" => tasks[busy[w].task].of \in edge'
        BY <2>3, <1>k DEF HandsFit, Kept
      <3> HIDE DEF h, w, c
      <3> QED
        BY <2>1, <2>3, <3>2, <3>3, <3>4, <1>k, HandsStay
    <2>4. CASE w \notin Worker
      <3>1. busy' = busy
        BY <2>1, <2>4 DEF TypeOK
      <3> QED
        BY <3>1, <1>k, HandsUnchanged
    <2> QED
      BY <2>3, <2>4
  <1>2. ASSUME NEW w \in Worker, Produce(w)
        PROVE  HandsFit'
    <2> DEFINE t == busy[w].task
    <2> DEFINE h == [busy[w] EXCEPT !.made = TRUE]
    <2>1. busy' = [busy EXCEPT ![w] = h] /\ t # 0
      BY <1>2 DEF Produce, TypeOK
    <2>2. h.task = t
      BY DEF TypeOK, AnyHands
    <2>3. tasks[t].kind = "publish" => tasks[t].of \in edge'
      BY <1>2 DEF Produce
    <2>4. t \in Made
      BY <2>1 DEF HandsFit
    <2> HIDE DEF h, t
    <2> QED
      BY <2>1, <2>2, <2>3, <2>4, <1>k, HandsStay
  <1>3. ASSUME NEW w \in Worker, TokenRunsOut(w)
        PROVE  HandsFit'
    <2> DEFINE h == IF busy[w].first THEN [busy[w] EXCEPT !.first = FALSE] ELSE [busy[w] EXCEPT !.renewed = FALSE]
    <2>1. busy' = [busy EXCEPT ![w] = h]
      BY <1>3 DEF TokenRunsOut, TypeOK
    <2>2. h.task = busy[w].task /\ h.made = busy[w].made
      BY DEF TypeOK, AnyHands
    <2>3. /\ busy[w].task # 0 => busy[w].task \in Made
          /\ busy[w].made => /\ busy[w].task # 0
                             /\ tasks[busy[w].task].kind = "publish" => tasks[busy[w].task].of \in edge'
      BY <1>k DEF HandsFit, Kept
    <2> HIDE DEF h
    <2> QED
      BY <2>1, <2>2, <2>3, <1>k, HandsStay
  <1>4. ASSUME NEW w \in Worker, Kill(w) \/ (\E p \in Proc : Reports(p, w))
        PROVE  HandsFit'
    BY <1>4, <1>f DEF Kill, Reports, StartComplete, StartFail, Report
  <1>5. ASSUME UNCHANGED busy
        PROVE  HandsFit'
    BY <1>5, <1>k, HandsUnchanged
  <1>6. ASSUME NEW p \in Proc, Write(p) \/ Ask(p) \/ StartTick(p) \/ End(p)
        PROVE  HandsFit'
    BY <1>6, <1>1, <1>5
       DEF Write, Ask, StartTick, End, Insert, SetPackage, Beat, EndTask, FailTask, SelectOlder, Decide, CancelDecided,
           Follow, Rules, Supersede, Requeue, StartBuild, StartEnqueue, QueueJob, CancelTask, DeletePackage,
           StartProjectBuild, StartApprove, StartReject
  <1>7. ASSUME NEW p \in Proc, NEW w \in Worker, StartHeartbeat(p, w) \/ (\E t \in Id : Claim(p, w, t))
        PROVE  HandsFit'
    BY <1>7, <1>5 DEF StartHeartbeat, Claim
  <1>8. CASE (\E t \in Id : LeaseRunsOut(t)) \/ UNCHANGED vars
    BY <1>8, <1>5 DEF LeaseRunsOut, vars
  <1> QED
    BY <1>2, <1>3, <1>4, <1>6, <1>7, <1>8 DEF Next

-----------------------------------------------------------------------------
\* Rows, staging and edge.
LEMMA OnlyInsert ==
  ASSUME [Next]_vars
  PROVE  (\E p \in Proc : Insert(p)) \/ made' = made
  <1>1. ASSUME NEW p \in Proc, Write(p)
        PROVE  Insert(p) \/ made' = made
    BY <1>1 DEF Write, SetPackage, Answer, Beat, EndTask, FailTask, SelectOlder, Decide, CancelDecided, Follow, Rules,
                Supersede, Requeue
  <1>2. ASSUME NEW p \in Proc, Ask(p) \/ StartTick(p) \/ End(p)
        PROVE  made' = made
    BY <1>2 DEF Ask, StartTick, End, StartBuild, StartEnqueue, QueueJob, CancelTask, DeletePackage, StartProjectBuild,
                StartApprove, StartReject
  <1>3. ASSUME NEW p \in Proc, NEW w \in Worker,
               StartHeartbeat(p, w) \/ Reports(p, w) \/ (\E t \in Id : Claim(p, w, t))
        PROVE  made' = made
    BY <1>3 DEF StartHeartbeat, Reports, StartComplete, StartFail, Report, Claim
  <1>4. ASSUME NEW w \in Worker, Produce(w) \/ TokenRunsOut(w) \/ Kill(w)
        PROVE  made' = made
    BY <1>4 DEF Produce, TokenRunsOut, Kill
  <1>5. CASE (\E t \in Id : LeaseRunsOut(t)) \/ UNCHANGED vars
    BY <1>5 DEF LeaseRunsOut, vars
  <1> QED
    BY <1>1, <1>2, <1>3, <1>4, <1>5 DEF Next

LEMMA OnlyProduce ==
  ASSUME [Next]_vars
  PROVE  (\E w \in Worker : Produce(w)) \/ UNCHANGED <<staging, edge>>
  <1>1. ASSUME NEW p \in Proc, Write(p)
        PROVE  UNCHANGED <<staging, edge>>
    BY <1>1 DEF Write, Insert, SetPackage, Answer, Beat, EndTask, FailTask, SelectOlder, Decide, CancelDecided, Follow,
                Rules, Supersede, Requeue
  <1>2. ASSUME NEW p \in Proc, Ask(p) \/ StartTick(p) \/ End(p)
        PROVE  UNCHANGED <<staging, edge>>
    BY <1>2 DEF Ask, StartTick, End, StartBuild, StartEnqueue, QueueJob, CancelTask, DeletePackage, StartProjectBuild,
                StartApprove, StartReject
  <1>3. ASSUME NEW p \in Proc, NEW w \in Worker,
               StartHeartbeat(p, w) \/ Reports(p, w) \/ (\E t \in Id : Claim(p, w, t))
        PROVE  UNCHANGED <<staging, edge>>
    BY <1>3 DEF StartHeartbeat, Reports, StartComplete, StartFail, Report, Claim
  <1>4. ASSUME NEW w \in Worker, TokenRunsOut(w) \/ Kill(w)
        PROVE  UNCHANGED <<staging, edge>>
    BY <1>4 DEF TokenRunsOut, Kill
  <1>5. CASE (\E t \in Id : LeaseRunsOut(t)) \/ UNCHANGED vars
    BY <1>5 DEF LeaseRunsOut, vars
  <1> QED
    BY <1>1, <1>2, <1>3, <1>4, <1>5 DEF Next

LEMMA NextPlaced ==
  ASSUME TypeOK, CallsFit, HandsFit, Placed, [Next]_vars
  PROVE  Placed'
  <1>k. Kept
    BY NextKept
  <1>m. \A t \in Made : t \in Made' /\ Same(tasks[t], tasks'[t])
    BY <1>k DEF Kept, Made
  <1>1. \A r : Allowed(r, tasks, made) => Allowed(r, tasks', made')
    BY <1>m DEF Allowed, Made, Same
  <1>2. \A t \in Made : Allowed(tasks'[t], tasks', made')
    BY <1>1, <1>m DEF Placed, Allowed, Same
  <1>3. \A t \in Made' : t \in Made \/ \E p \in Proc : Fits(calls[p], tasks, made, edge) /\ tasks'[t] = calls[p].row
    <2>1. ASSUME NEW p \in Proc, Insert(p)
          PROVE  \A t \in Made' : t \in Made \/ (Fits(calls[p], tasks, made, edge) /\ tasks'[t] = calls[p].row)
      <3>1. made \in Nat /\ made + 1 \in Id
        BY <2>1, QueueAssumption DEF Insert, TypeOK, Id0, Id
      <3>2. made' = made + 1 /\ tasks'[made + 1] = calls[p].row
        BY <2>1, <3>1 DEF Insert, TypeOK
      <3> QED
        BY <3>1, <3>2 DEF Made, CallsFit
    <2>2. ASSUME made' = made
          PROVE  Made' = Made
      BY <2>2 DEF Made
    <2>3. (\E p \in Proc : Insert(p)) \/ made' = made
      BY OnlyInsert
    <2> QED
      BY <2>1, <2>2, <2>3
  <1>4. \A t \in Made' : Allowed(tasks'[t], tasks', made')
    BY <1>1, <1>2, <1>3 DEF Fits
  <1>5. \A b : InEdge(b) => InEdge(b)'
    BY <1>m DEF InEdge, Same
  <1>6. CASE \E w \in Worker : Produce(w)
    <2>1. PICK w \in Worker : Produce(w)
      BY <1>6
    <2> DEFINE t == busy[w].task
    <2>2. t \in Made
      BY <2>1 DEF Produce, HandsFit
    <2>3. staging' \subseteq staging \cup {u \in {t} : Stages(t)} /\ UNCHANGED <<tasks, made>>
      BY <2>1 DEF Produce
    <2>4. \/ edge' = edge \cup {tasks[t].of} /\ tasks[t].kind = "publish"
          \/ edge' = edge \cup {t} /\ tasks[t].kind = "build" /\ ~Stages(t)
          \/ edge' = edge
      <3> DEFINE new == CASE tasks[t].kind = "publish" -> {tasks[t].of}
                          [] tasks[t].kind = "build" /\ ~Stages(t) -> {t}
                          [] OTHER -> {}
      <3>1. edge' = edge \cup new
        BY <2>1 DEF Produce
      <3>2. \/ new = {tasks[t].of} /\ tasks[t].kind = "publish"
            \/ new = {t} /\ tasks[t].kind = "build" /\ ~Stages(t)
            \/ new = {}
        OBVIOUS
      <3> HIDE DEF new
      <3> QED
        BY <3>1, <3>2
    <2>5. tasks[t].kind = "publish" => InEdge(tasks[t].of)
      BY <2>2 DEF Placed, Allowed, InEdge, Made
    <2>6. tasks[t].kind = "build" /\ ~Stages(t) => InEdge(t)
      BY <2>2, QueueAssumption DEF InEdge, Stages, TypeOK, AnyRow, Made, Id, Id0
    <2>7. \A b \in edge' : InEdge(b)
      BY <2>4, <2>5, <2>6 DEF Placed
    <2>8. \A s \in staging' : s \in Made /\ Stages(s)
      BY <2>2, <2>3 DEF Placed
    <2> QED
      BY <1>4, <2>3, <2>7, <2>8 DEF Placed, InEdge, Made, Stages
  <1>7. CASE UNCHANGED <<staging, edge>>
    <2>1. \A s \in staging : s \in Made' /\ Stages(s)'
      BY <1>m DEF Placed, Stages, Same
    <2>2. \A b \in edge : InEdge(b)'
      BY <1>5 DEF Placed
    <2> QED
      BY <1>4, <1>7, <2>1, <2>2 DEF Placed
  <1>8. (\E w \in Worker : Produce(w)) \/ UNCHANGED <<staging, edge>>
    BY OnlyProduce
  <1> QED
    BY <1>6, <1>7, <1>8

-----------------------------------------------------------------------------
LEMMA InitInv == Init => Inv
  <1> SUFFICES ASSUME Init
               PROVE  Inv
    OBVIOUS
  <1>1. Made = {}
    BY DEF Init, Made
  <1>2. CallsFit
    BY Empty DEF Init, CallsFit, Fits, Call, NoRow, Allowed
  <1>3. HandsFit
    BY DEF Init, HandsFit, Hands
  <1>4. Placed
    BY <1>1 DEF Init, Placed
  <1> QED
    BY <1>2, <1>3, <1>4, InitTyped DEF Inv

LEMMA NextInv == Inv /\ [Next]_vars => Inv'
  BY NextTyped, NextFits, NextHands, NextPlaced DEF Inv

\* The tables, the workers and the invocations hold what their types say.
THEOREM TypeCorrect == Spec => []TypeOK
  <1>1. Inv => TypeOK
    BY DEF Inv
  <1> QED
    BY <1>1, InitInv, NextInv, PTL DEF Spec

\* However handlers, workers, expired leases and reviews overlap and wherever
\* they end: what is in edge was built by the project (Produce), and if it was
\* built for a review, a maintainer other than the owner of its package asked
\* for the publish job (handleApprove).
THEOREM EdgeOnlyFromReview == Spec => []EdgeIsTheProjects
  <1>1. Inv => EdgeIsTheProjects
    <2> SUFFICES ASSUME Inv, NEW b \in edge
                 PROVE  /\ tasks[b].kind = "build" /\ tasks[b].trust = "project"
                        /\ tasks[b].of # 0 =>
                             \E t \in Made : /\ tasks[t].kind = "publish" /\ tasks[t].of = b
                                             /\ tasks[t].by # OwnerOf[tasks[b].name]
      BY DEF EdgeIsTheProjects
    <2>1. InEdge(b) /\ \A t \in Made : Allowed(tasks[t], tasks, made)
      BY DEF Inv, Placed
    <2> QED
      BY <2>1 DEF InEdge, Allowed
  <1> QED
    BY <1>1, InitInv, NextInv, PTL DEF Spec

-----------------------------------------------------------------------------
\* What is called done, and published.

\* Only two writes call a row done.
Ends(p) == EndTask(p) \/ (SetPackage(p) /\ calls[p].work = "publish")

LEMMA NotDone ==
  ASSUME TypeOK, [Next]_vars, \A p \in Proc : ~Ends(p) /\ ~Insert(p)
  PROVE  \A t \in Id : tasks'[t].status = "done" => tasks[t].status = "done"
  <1>r. \A t \in Id : tasks[t] \in AnyRow
    BY DEF TypeOK
  <1>u. ASSUME NEW u, NEW r, tasks' = [tasks EXCEPT ![u] = r], u \in Id => r.status # "done" \/ r.status = tasks[u].status
        PROVE  \A t \in Id : tasks'[t].status = "done" => tasks[t].status = "done"
    BY <1>u DEF TypeOK
  <1>c. \A S : \A t \in Id : Cancelled(S)[t].status = "done" => tasks[t].status = "done"
    BY <1>r DEF Cancelled, AnyRow
  <1>y. \A t \in Id : \A x : Retry(t, x).status # "done"
    BY <1>r DEF Retry, Ended, AnyRow
  <1>1. ASSUME NEW p \in Proc, Write(p)
        PROVE  \A t \in Id : tasks'[t].status = "done" => tasks[t].status = "done"
    <2>1. CASE SetPackage(p) \/ Answer(p) \/ SelectOlder(p) \/ Decide(p) \/ Follow(p) \/ Rules(p)
      BY <2>1 DEF SetPackage, Answer, SelectOlder, Decide, Follow, Rules, Ends
    <2>2. CASE Beat(p)
      <3> DEFINE u == calls[p].task
      <3>1. tasks' = [tasks EXCEPT ![u] = [tasks[u] EXCEPT !.over = FALSE]]
        BY <2>2 DEF Beat
      <3>2. u \in Id => [tasks[u] EXCEPT !.over = FALSE].status = tasks[u].status
        BY <1>r DEF AnyRow
      <3> QED
        BY <3>1, <3>2, <1>u
    <2>3. CASE FailTask(p)
      BY <2>3, <1>y, <1>u DEF FailTask
    <2>4. CASE CancelDecided(p) \/ \E t \in Id : Supersede(p, t)
      BY <2>4, <1>c DEF CancelDecided, Supersede
    <2>5. ASSUME NEW u \in Id, Requeue(p, u)
          PROVE  \A t \in Id : tasks'[t].status = "done" => tasks[t].status = "done"
      <3>1. tasks' = [tasks EXCEPT ![u] = Requeued(u, u \in calls[p].spent)]
        BY <2>5 DEF Requeue
      <3>2. Requeued(u, u \in calls[p].spent).status # "done" \/ Requeued(u, u \in calls[p].spent) = tasks[u]
        BY <1>y DEF Requeued
      <3> QED
        BY <3>1, <3>2, <1>u
    <2> QED
      BY <1>1, <2>1, <2>2, <2>3, <2>4, <2>5 DEF Write, Ends
  <1>2. ASSUME NEW p \in Proc, Ask(p)
        PROVE  \A t \in Id : tasks'[t].status = "done" => tasks[t].status = "done"
    <2>1. ASSUME NEW u \in Id, CancelTask(p, u)
          PROVE  \A t \in Id : tasks'[t].status = "done" => tasks[t].status = "done"
      BY <2>1, <1>r DEF CancelTask, TypeOK, AnyRow
    <2>2. ASSUME NEW n \in Name, DeletePackage(p, n)
          PROVE  \A t \in Id : tasks'[t].status = "done" => tasks[t].status = "done"
      BY <2>2, <1>r DEF DeletePackage, AnyRow
    <2> QED
      BY <1>2, <2>1, <2>2 DEF Ask, StartBuild, StartEnqueue, QueueJob, StartProjectBuild, StartApprove, StartReject
  <1>3. ASSUME NEW p \in Proc, StartTick(p) \/ End(p)
        PROVE  tasks' = tasks
    BY <1>3 DEF StartTick, End
  <1>4. ASSUME NEW p \in Proc, NEW w \in Worker, StartHeartbeat(p, w) \/ Reports(p, w)
        PROVE  tasks' = tasks
    BY <1>4 DEF StartHeartbeat, Reports, StartComplete, StartFail, Report
  <1>5. ASSUME NEW p \in Proc, NEW w \in Worker, NEW u \in Id, Claim(p, w, u)
        PROVE  \A t \in Id : tasks'[t].status = "done" => tasks[t].status = "done"
    <2>1. tasks' = [tasks EXCEPT ![u] = Taken(w, u)]
      BY <1>5 DEF Claim
    <2>2. Taken(w, u).status = "leased"
      BY <1>r DEF Taken, AnyRow
    <2> QED
      BY <2>1, <2>2, <1>u
  <1>6. ASSUME NEW w \in Worker, Produce(w) \/ TokenRunsOut(w) \/ Kill(w)
        PROVE  tasks' = tasks
    BY <1>6 DEF Produce, TokenRunsOut, Kill
  <1>7. ASSUME NEW u \in Id, LeaseRunsOut(u)
        PROVE  \A t \in Id : tasks'[t].status = "done" => tasks[t].status = "done"
    BY <1>7, <1>r DEF LeaseRunsOut, TypeOK, AnyRow
  <1>8. CASE UNCHANGED vars
    BY <1>8 DEF vars
  <1> QED
    BY <1>1, <1>2, <1>3, <1>4, <1>5, <1>6, <1>7, <1>8 DEF Next

LEMMA NextDone ==
  ASSUME Inv, \A t \in Made : tasks[t].status = "done" /\ tasks[t].kind = "build" => t \in edge, [Next]_vars,
         NEW t \in Made', tasks'[t].status = "done", tasks'[t].kind = "build"
  PROVE  t \in edge'
  <1>k. TypeOK /\ CallsFit /\ Kept /\ Made \subseteq Id
    BY NextKept, QueueAssumption DEF Inv, TypeOK, Made, Id, Id0
  <1>o. ASSUME t \in Made, tasks[t].status = "done"
        PROVE  t \in edge'
    BY <1>o, <1>k DEF Kept, Same
  <1>1. ASSUME NEW p \in Proc, Insert(p)
        PROVE  t \in edge'
    <2>1. made \in Nat /\ made + 1 \in Id /\ calls[p].row.status = "queued"
      BY <1>1, <1>k, QueueAssumption DEF Insert, TypeOK, Id0, Id, CallsFit, Fits
    <2>2. made' = made + 1 /\ tasks' = [tasks EXCEPT ![made + 1] = calls[p].row]
      BY <1>1 DEF Insert
    <2>3. tasks'[made + 1].status = "queued" /\ \A u \in Made : tasks'[u] = tasks[u]
      BY <1>k, <2>1, <2>2 DEF TypeOK, Made
    <2>4. t \in Made
      BY <2>1, <2>2, <2>3 DEF Made
    <2> QED
      BY <2>3, <2>4, <1>o
  <1>2. ASSUME NEW p \in Proc, EndTask(p)
        PROVE  t \in edge'
    <2> DEFINE c == calls[p]
    <2>1. c \in AnyCall /\ "end" \in StepsOf[c.work] /\ Fits(c, tasks, made, edge) /\ c.left # <<>> /\ Head(c.left) = "end"
      BY <1>2, <1>k, OfHandler DEF EndTask, At
    <2>2. c.work \in {"stage", "publish", "main", "job"}
      BY <2>1 DEF AnyCall, Handler, StepsOf
    <2>3. t \in Made /\ UNCHANGED <<made, edge>>
      BY <1>2 DEF EndTask, Made
    <2>4. tasks' = [tasks EXCEPT ![c.task] = Ended(c.task, IF c.work = "stage" THEN "staged" ELSE "done")]
      BY <1>2 DEF EndTask
    <2>5. CASE t # c.task
      BY <2>3, <2>4, <2>5, <1>k, <1>o DEF TypeOK
    <2>6. CASE t = c.task /\ c.work = "stage"
      <3>1. Ended(t, "staged").status = "staged"
        BY <1>k, <2>3 DEF Ended, TypeOK, AnyRow
      <3> QED
        BY <2>3, <2>4, <2>6, <3>1, <1>k DEF TypeOK
    <2>7. CASE t = c.task /\ c.work = "publish"
      BY <2>1, <2>3, <2>7, <1>k DEF Fits, Kept, Same
    <2>8. CASE t = c.task /\ c.work = "main"
      BY <2>1, <2>3, <2>8 DEF Fits
    <2>9. CASE t = c.task /\ c.work = "job"
      <3>1. ~(c.left \in Seq({"insert"}))
        BY <2>1, Tails
      <3> QED
        BY <2>1, <2>3, <2>9, <3>1, <1>k DEF Fits, Kept, Same
    <2> QED
      BY <2>2, <2>5, <2>6, <2>7, <2>8, <2>9
  <1>3. ASSUME NEW p \in Proc, SetPackage(p), calls[p].work = "publish"
        PROVE  t \in edge'
    <2> DEFINE c == calls[p]
    <2> DEFINE b == tasks[c.task].of
    <2>1. b \in edge
      BY <1>3, <1>k DEF CallsFit, Fits
    <2>2. t \in Made /\ UNCHANGED <<made, edge>> /\ tasks' = BuildPublished(c)
      BY <1>3 DEF SetPackage, Made
    <2>3. t # b => tasks'[t] = tasks[t]
      BY <2>2, <1>k DEF BuildPublished, TypeOK
    <2> QED
      BY <2>1, <2>2, <2>3, <1>o
  <1>4. CASE \A p \in Proc : ~Ends(p) /\ ~Insert(p)
    <2>1. made' = made
      BY <1>4, OnlyInsert
    <2>2. t \in Made
      BY <2>1 DEF Made
    <2> QED
      BY <1>4, <1>k, <1>o, <2>2, NotDone
  <1> QED
    BY <1>1, <1>2, <1>3, <1>4 DEF Ends

\* Only the end of a build on main and of a publish job says published.
LEMMA NextPublished ==
  ASSUME Inv, \A n \in Name : packages[n] = "published" => \E b \in edge : tasks[b].name = n, [Next]_vars,
         NEW n \in Name, packages'[n] = "published"
  PROVE  \E b \in edge' : tasks'[b].name = n
  <1>k. TypeOK /\ CallsFit /\ Kept
    BY NextKept DEF Inv
  <1>s. ASSUME NEW b \in edge, tasks[b].name = n
        PROVE  \E a \in edge' : tasks'[a].name = n
    <2>1. b \in Made
      BY DEF Inv, Placed, InEdge
    <2> QED
      BY <1>k, <1>s, <2>1 DEF Kept, Same
  <1>o. ASSUME packages[n] = "published"
        PROVE  \E b \in edge' : tasks'[b].name = n
    BY <1>o, <1>s
  <1>1. ASSUME NEW p \in Proc, SetPackage(p)
        PROVE  \E b \in edge' : tasks'[b].name = n
    <2> DEFINE c == calls[p]
    <2>1. c \in AnyCall /\ "package" \in StepsOf[c.work] /\ Fits(c, tasks, made, edge)
      BY <1>1, <1>k, OfHandler DEF SetPackage
    <2>2. packages' = Registered(c.name, StatusAfter[c.work])
      BY <1>1 DEF SetPackage
    <2>3. packages[n] = "published" \/ (n = c.name /\ StatusAfter[c.work] = "published")
      BY <2>2, <1>k DEF Registered, TypeOK
    <2>4. StatusAfter[c.work] = "published" => c.work \in {"publish", "main"}
      BY <2>1 DEF StatusAfter, StepsOf, AnyCall, Handler
    <2>5. CASE n = c.name /\ c.work = "main"
      BY <2>1, <2>5, <1>s DEF Fits
    <2>6. CASE n = c.name /\ c.work = "publish"
      <3>1. c.task \in Made /\ tasks[c.task].kind = "publish" /\ tasks[c.task].of \in edge /\ tasks[c.task].name = n
        BY <2>1, <2>6 DEF Fits, Made
      <3>2. tasks[tasks[c.task].of].name = n
        BY <3>1 DEF Inv, Placed, Allowed
      <3> QED
        BY <3>1, <3>2, <1>s
    <2> QED
      BY <2>3, <2>4, <2>5, <2>6, <1>o
  <1>2. ASSUME NEW p \in Proc, Follow(p)
        PROVE  \E b \in edge' : tasks'[b].name = n
    <2>1. packages[n] = "published"
      BY <1>2, <1>k DEF Follow, TypeOK
    <2> QED
      BY <2>1, <1>o
  <1>3. ASSUME NEW p \in Proc, NEW m \in Name, DeletePackage(p, m)
        PROVE  \E b \in edge' : tasks'[b].name = n
    <2>1. packages[n] = "published"
      BY <1>3, <1>k DEF DeletePackage, TypeOK
    <2> QED
      BY <2>1, <1>o
  <1>4. \/ \E p \in Proc : SetPackage(p) \/ Follow(p) \/ \E m \in Name : DeletePackage(p, m)
        \/ packages' = packages
    <2>1. ASSUME NEW p \in Proc, Write(p)
          PROVE  SetPackage(p) \/ Follow(p) \/ packages' = packages
      BY <2>1 DEF Write, Insert, Answer, Beat, EndTask, FailTask, SelectOlder, Decide, CancelDecided, Rules, Supersede,
                  Requeue
    <2>2. ASSUME NEW p \in Proc, Ask(p) \/ StartTick(p) \/ End(p)
          PROVE  (\E m \in Name : DeletePackage(p, m)) \/ packages' = packages
      BY <2>2 DEF Ask, StartTick, End, StartBuild, StartEnqueue, QueueJob, CancelTask, StartProjectBuild, StartApprove,
                  StartReject
    <2>3. ASSUME NEW p \in Proc, NEW w \in Worker,
                 StartHeartbeat(p, w) \/ Reports(p, w) \/ (\E t \in Id : Claim(p, w, t))
          PROVE  packages' = packages
      BY <2>3 DEF StartHeartbeat, Reports, StartComplete, StartFail, Report, Claim
    <2>4. ASSUME NEW w \in Worker, Produce(w) \/ TokenRunsOut(w) \/ Kill(w)
          PROVE  packages' = packages
      BY <2>4 DEF Produce, TokenRunsOut, Kill
    <2>5. CASE (\E t \in Id : LeaseRunsOut(t)) \/ UNCHANGED vars
      BY <2>5 DEF LeaseRunsOut, vars
    <2> QED
      BY <2>1, <2>2, <2>3, <2>4, <2>5 DEF Next
  <1> QED
    BY <1>1, <1>2, <1>3, <1>4, <1>o

\* However handlers overlap and wherever they end: a build that is done and a
\* package that is published are in edge. What handleComplete read before it
\* wrote (the files in the pool) cannot have gone, since nothing leaves edge.
THEOREM DoneIsInEdge == Spec => []DoneIsServed
  <1>1. Init => DoneIsServed
    BY DEF Init, DoneIsServed, InStatus, Made
  <1>2. Inv /\ DoneIsServed /\ [Next]_vars => DoneIsServed'
    <2> SUFFICES ASSUME Inv, DoneIsServed, [Next]_vars
                 PROVE  DoneIsServed'
      OBVIOUS
    <2>1. /\ \A t \in Made : tasks[t].status = "done" /\ tasks[t].kind = "build" => t \in edge
          /\ \A n \in Name : packages[n] = "published" => \E b \in edge : tasks[b].name = n
      BY DEF DoneIsServed, InStatus
    <2>2. \A t \in Made' : tasks'[t].status = "done" /\ tasks'[t].kind = "build" => t \in edge'
      BY <2>1, NextDone
    <2>3. \A n \in Name : packages'[n] = "published" => \E b \in edge' : tasks'[b].name = n
      BY <2>1, NextPublished
    <2> QED
      BY <2>2, <2>3 DEF DoneIsServed, InStatus
  <1> QED
    BY <1>1, <1>2, InitInv, NextInv, PTL DEF Spec

-----------------------------------------------------------------------------
\* An end is an end, when one handler runs at a time.
Alone == \A p, q \in Proc : p = q

\* What a handler read when it started still holds when it writes: the lease it
\* ends, the staged build it rejects, the staged builds it supersedes.
NoEnd    == Steps \ {"end", "fail"}
NoCancel == Steps \ {"cancel"}
Rejects  == {<<"decide", "cancel", "audits", "package">>, <<"cancel", "audits", "package">>}

Steady(c, T, m) ==
    /\ \/ c.left \in Seq(NoEnd)
       \/ c.left # <<>> /\ Tail(c.left) \in Seq(NoEnd) /\ c.task \in Id /\ T[c.task].status = "leased"
    /\ c.left \in Seq(NoCancel) \/ (c.left \in Rejects /\ c.task \in Id /\ T[c.task].status = "staged")
    /\ c.work = "stage" /\ c.left # <<>> => \A o \in c.todo : o \in 1 .. m /\ T[o].status = "staged"

AllSteady == \A p \in Proc : Steady(calls[p], tasks, made)

LEMMA TailsOfRejects ==
  ASSUME NEW s \in Rejects
  PROVE  \/ Head(s) = "decide" /\ Tail(s) \in Rejects
         \/ Head(s) = "cancel" /\ Tail(s) \in Seq(NoCancel)
  <1>1. CASE s = <<"decide", "cancel", "audits", "package">>
    <2>1. Head(s) = "decide" /\ Tail(s) = <<"cancel", "audits", "package">>
      BY <1>1
    <2> QED
      BY <2>1 DEF Rejects
  <1>2. CASE s = <<"cancel", "audits", "package">>
    <2>1. Head(s) = "cancel" /\ Tail(s) = <<"audits", "package">>
      BY <1>2
    <2>2. <<"audits", "package">> \in Seq(NoCancel)
      BY DEF NoCancel, Steps
    <2> QED
      BY <2>1, <2>2
  <1> QED
    BY <1>1, <1>2 DEF Rejects

\* A handler that starts, with what it just read.
LEMMA StartSteady ==
  ASSUME TypeOK, Alone, NEW p \in Proc, NEW c, Start(p, c), Steady(c, tasks', made')
  PROVE  AllSteady'
  <1> DEFINE d == IF c.left = <<>> THEN Call ELSE c
  <1>1. Steady(Call, tasks', made')
    BY Empty DEF Steady, Call
  <1>2. Steady(d, tasks', made')
    BY <1>1
  <1>3. \A q \in Proc : calls'[q] = d
    BY DEF Start, TypeOK, Alone
  <1> HIDE DEF d
  <1> QED
    BY <1>2, <1>3 DEF AllSteady

\* A write done: the next one finds what it needs.
LEMMA ThenSteady ==
  ASSUME TypeOK, Alone, AllSteady, NEW p \in Proc, ~Idle(p), Then(p),
         Head(calls[p].left) = "decide" => tasks' = tasks,
         calls[p].work = "stage" => \A o \in calls[p].todo : o \in 1 .. made' /\ tasks'[o].status = "staged"
  PROVE  AllSteady'
  <1> DEFINE c == calls[p]
  <1> DEFINE d == [c EXCEPT !.left = Tail(@)]
  <1>1. c \in AnyCall /\ Steady(c, tasks, made) /\ c.left # <<>>
    BY DEF TypeOK, AllSteady, Idle
  <1>2. d.left = Tail(c.left) /\ d.work = c.work /\ d.task = c.task /\ d.todo = c.todo
    BY <1>1 DEF AnyCall
  <1>3. Tail(c.left) \in Seq(NoEnd)
    <2> HIDE DEF c, d
    <2> QED
      BY <1>1, Tails DEF Steady
  <1>4. Tail(c.left) \in Seq(NoCancel)
        \/ (Head(c.left) = "decide" /\ Tail(c.left) \in Rejects /\ c.task \in Id /\ tasks[c.task].status = "staged")
    <2> HIDE DEF c, d
    <2>1. CASE c.left \in Seq(NoCancel)
      BY <1>1, <2>1, Tails
    <2>2. CASE c.left \in Rejects /\ c.task \in Id /\ tasks[c.task].status = "staged"
      BY <2>2, TailsOfRejects
    <2> QED
      BY <1>1, <2>1, <2>2 DEF Steady
  <1>5. Steady(d, tasks', made')
    <2> HIDE DEF d
    <2> QED
      BY <1>2, <1>3, <1>4 DEF Steady
  <1> QED
    BY <1>5, StartSteady DEF Then

\* What changes no status changes nothing that a handler relies on.
LEMMA SteadyStays ==
  ASSUME TypeOK, AllSteady, UNCHANGED calls, made' = made, \A t \in Id : tasks'[t].status = tasks[t].status
  PROVE  AllSteady'
  <1>1. 1 .. made \subseteq Id
    BY QueueAssumption DEF TypeOK, Id, Id0
  <1>2. ASSUME NEW p \in Proc
        PROVE  Steady(calls'[p], tasks', made')
    <2> DEFINE c == calls[p]
    <2>1. Steady(c, tasks, made) /\ calls'[p] = c
      BY DEF AllSteady
    <2>2. Steady(c, tasks', made')
      <3> HIDE DEF c
      <3> QED
        BY <2>1, <1>1 DEF Steady
    <2> QED
      BY <2>1, <2>2
  <1> QED
    BY <1>2 DEF AllSteady

LEMMA IdleSteady ==
  ASSUME Alone, NEW p \in Proc, Idle(p), UNCHANGED calls
  PROVE  AllSteady'
  <1>1. \A q \in Proc : calls'[q].left = <<>>
    BY DEF Alone, Idle
  <1>2. <<>> \in Seq(NoEnd) /\ <<>> \in Seq(NoCancel)
    BY Empty
  <1> QED
    BY <1>1, <1>2 DEF AllSteady, Steady

LEMMA StagedStay ==
  ASSUME Inv, AllSteady, NEW p \in Proc, ~Idle(p), calls[p].work = "stage", NEW o \in calls[p].todo
  PROVE  o \in Id /\ o \in 1 .. made /\ tasks[o].status = "staged" /\ tasks[o] \in AnyRow
  BY QueueAssumption DEF Inv, TypeOK, AllSteady, Steady, Id, Id0, Idle

LEMMA WriteSteady ==
  ASSUME Inv, Alone, AllSteady, NEW p \in Proc, Write(p)
  PROVE  AllSteady'
  <1> DEFINE c == calls[p]
  <1>i. TypeOK /\ CallsFit /\ \A t \in Id : tasks[t] \in AnyRow
    BY DEF Inv, TypeOK
  <1>h. ASSUME NEW s, At(p, s)
        PROVE  /\ ~Idle(p) /\ Head(c.left) = s /\ c \in AnyCall
               /\ c.work = "stage" => s \in {"end", "older", "supersede", "package", "insert"}
    BY <1>h, <1>i, OfHandler DEF At, StepsOf
  <1>o. c.work = "stage" /\ ~Idle(p) => \A o \in c.todo : o \in 1 .. made /\ tasks[o].status = "staged"
    BY DEF AllSteady, Steady, Idle
  <1>1. ASSUME NEW s, At(p, s), Then(p), UNCHANGED <<tasks, made>>
        PROVE  AllSteady'
    BY <1>1, <1>h, <1>i, <1>o, ThenSteady
  <1>2. CASE Insert(p)
    <2>1. At(p, "insert") /\ Then(p) /\ made' = made + 1 /\ tasks' = [tasks EXCEPT ![made + 1] = c.row]
      BY <1>2 DEF Insert
    <2>2. made \in Nat
      BY <1>i, QueueAssumption DEF TypeOK, Id0
    <2>3. ~Idle(p) /\ Head(c.left) = "insert"
      BY <2>1, <1>h
    <2>4. ASSUME c.work = "stage", NEW o \in c.todo
          PROVE  o \in 1 .. made' /\ tasks'[o].status = "staged"
      <3>1. o \in Id /\ o \in 1 .. made /\ tasks[o].status = "staged"
        BY <2>4, <2>3, StagedStay
      <3> QED
        BY <2>1, <2>2, <3>1, <1>i DEF TypeOK
    <2> QED
      BY <2>1, <2>4, <2>3, <1>i, ThenSteady
  <1>3. CASE SetPackage(p)
    <2>1. At(p, "package") /\ Then(p) /\ made' = made /\ (c.work = "stage" => tasks' = tasks)
      BY <1>3 DEF SetPackage
    <2> QED
      BY <2>1, <1>h, <1>i, <1>o, ThenSteady
  <1>4. CASE Answer(p) \/ Decide(p) \/ Follow(p)
    BY <1>4, <1>1 DEF Answer, Decide, Follow
  <1>5. CASE Beat(p)
    <2>1. At(p, "beat") /\ Then(p)
      BY <1>5 DEF Beat
    <2> QED
      BY <2>1, <1>h, <1>i, ThenSteady
  <1>6. CASE EndTask(p)
    <2>1. /\ At(p, "end") /\ Then(p) /\ made' = made
          /\ tasks' = [tasks EXCEPT ![c.task] = Ended(c.task, IF c.work = "stage" THEN "staged" ELSE "done")]
      BY <1>6 DEF EndTask
    <2>2. ~Idle(p) /\ Head(c.left) = "end"
      BY <2>1, <1>h
    <2>3. ASSUME c.work = "stage", NEW o \in c.todo
          PROVE  o \in 1 .. made' /\ tasks'[o].status = "staged"
      <3>1. o \in Id /\ o \in 1 .. made /\ tasks[o].status = "staged" /\ tasks[o] \in AnyRow
        BY <2>3, <2>2, StagedStay
      <3>2. Ended(o, "staged").status = "staged"
        BY <3>1 DEF Ended, AnyRow
      <3> QED
        BY <2>1, <2>3, <3>1, <3>2, <1>i DEF TypeOK
    <2> QED
      BY <2>1, <2>3, <2>2, <1>i, ThenSteady
  <1>7. CASE FailTask(p)
    <2>1. At(p, "fail") /\ Then(p)
      BY <1>7 DEF FailTask
    <2> QED
      BY <2>1, <1>h, <1>i, ThenSteady
  <1>8. CASE CancelDecided(p)
    <2>1. (At(p, "cancel") \/ At(p, "audits")) /\ Then(p)
      BY <1>8 DEF CancelDecided
    <2> QED
      BY <2>1, <1>h, <1>i, ThenSteady
  <1>9. CASE SelectOlder(p)
    <2> DEFINE left == IF Older(c.task) = {} THEN Tail(c.left) ELSE <<"supersede">> \o Tail(c.left)
    <2> DEFINE d == [c EXCEPT !.todo = Older(c.task), !.left = left]
    <2>1. At(p, "older") /\ Start(p, d) /\ UNCHANGED <<tasks, made>>
      BY <1>9 DEF SelectOlder
    <2>2. c \in AnyCall /\ Head(c.left) = "older" /\ c.left # <<>>
      BY <2>1, <1>h DEF Idle
    <2>3. Tail(c.left) \in Seq(NoEnd)
      BY <2>2, Tails DEF AllSteady, Steady
    <2>4. Tail(c.left) \in Seq(NoCancel)
      <3>1. c.left \notin Rejects
        BY <2>2, TailsOfRejects
      <3> QED
        BY <2>2, <3>1, Tails DEF AllSteady, Steady
    <2>5. left \in Seq(NoEnd) /\ left \in Seq(NoCancel)
      BY <2>3, <2>4, Prefixed DEF NoEnd, NoCancel, Steps
    <2>6. d.left = left /\ d.todo = Older(c.task)
      BY <2>2 DEF AnyCall
    <2>7. \A o \in Older(c.task) : o \in 1 .. made /\ tasks[o].status = "staged"
      BY DEF Older, InStatus, Made
    <2>8. Steady(d, tasks', made')
      <3> HIDE DEF d, left, c
      <3> QED
        BY <2>1, <2>5, <2>6, <2>7 DEF Steady
    <2> QED
      BY <2>1, <2>8, <1>i, StartSteady
  <1>10. CASE Rules(p)
    <2>1. ASSUME NEW j \in Rule, Start(p, [c EXCEPT !.row = JobRow(j), !.left = <<"insert">> \o @])
          PROVE  AllSteady'
      <3> DEFINE d == [c EXCEPT !.row = JobRow(j), !.left = <<"insert">> \o @]
      <3>1. c \in AnyCall /\ Head(c.left) = "rules" /\ "rules" \in StepsOf[c.work]
            /\ c.left # <<>> /\ c.left \in Seq(StepsOf[c.work])
        BY <1>10, <1>h, <1>i, OfHandler DEF Rules, Fits
      <3>2. c.work = "tick"
        BY <3>1 DEF AnyCall, Handler, StepsOf
      <3>3. <<"insert">> \o c.left \in Seq(StepsOf["tick"])
        BY <3>1, <3>2, Prefixed DEF StepsOf
      <3>4. <<"insert">> \o c.left \in Seq(NoEnd) /\ <<"insert">> \o c.left \in Seq(NoCancel)
        BY <3>3 DEF NoEnd, NoCancel, StepsOf, Steps
      <3>5. d.left = <<"insert">> \o c.left /\ d.work = "tick"
        BY <3>1, <3>2 DEF AnyCall
      <3>6. Steady(d, tasks', made')
        <4> HIDE DEF d, c
        <4> QED
          BY <3>4, <3>5 DEF Steady
      <3> QED
        BY <2>1, <3>6, <1>i, StartSteady
    <2> QED
      BY <1>10, <1>1, <2>1 DEF Rules
  <1>11. CASE \E t \in Id : Supersede(p, t)
    <2>1. PICK o \in Id : Supersede(p, o)
      BY <1>11
    <2> DEFINE left == IF c.todo = {o} THEN Tail(c.left) ELSE c.left
    <2> DEFINE d == [c EXCEPT !.todo = @ \ {o}, !.left = left]
    <2>2. At(p, "supersede") /\ Start(p, d) /\ made' = made /\ tasks' = Cancelled({o} \cup QueuedAudits(o))
      BY <2>1 DEF Supersede
    <2>3. c \in AnyCall /\ "supersede" \in StepsOf[c.work] /\ c.left # <<>> /\ c.left \in Seq(StepsOf[c.work])
          /\ Tail(c.left) \in Seq(StepsOf[c.work]) /\ Head(c.left) = "supersede"
      BY <2>2, <1>i, OfHandler DEF Fits, At
    <2>4. c.work = "stage"
      <3>1. c.work \in Handler
        BY <2>3 DEF AnyCall
      <3> HIDE DEF c
      <3> QED
        BY <2>3, <3>1 DEF Handler, StepsOf
    <2>5. Steady(c, tasks, made)
      BY DEF AllSteady
    <2>6. c.left \in Seq(NoCancel) /\ Tail(c.left) \in Seq(NoCancel)
      <3>1. c.left \notin Rejects
        BY <2>3, TailsOfRejects
      <3> QED
        BY <2>3, <2>5, <3>1, Tails DEF Steady
    <2>7. Tail(c.left) \in Seq(NoEnd)
      BY <2>3, <2>5, Tails DEF Steady
    <2>8. c.left \in Seq(NoEnd)
      <3>1. c.left = <<"supersede">> \o Tail(c.left)
        BY <2>3
      <3> QED
        BY <2>7, <3>1, Prefixed DEF NoEnd, Steps
    <2>9. left \in Seq(NoEnd) /\ left \in Seq(NoCancel)
      BY <2>6, <2>7, <2>8
    <2>10. d.left = left /\ d.todo = c.todo \ {o}
      BY <2>3 DEF AnyCall
    <2>11. ASSUME NEW u \in c.todo \ {o}
           PROVE  u \in 1 .. made' /\ tasks'[u].status = "staged"
      <3>1. u \in Id /\ u \in 1 .. made /\ tasks[u].status = "staged"
        BY <2>3, <2>4, StagedStay DEF Idle
      <3>2. u \notin {o} \cup QueuedAudits(o)
        BY <3>1 DEF QueuedAudits, InStatus
      <3> QED
        BY <2>2, <3>1, <3>2 DEF Cancelled
    <2>12. Steady(d, tasks', made')
      <3> HIDE DEF d, left, c
      <3> QED
        BY <2>9, <2>10, <2>11 DEF Steady
    <2> QED
      BY <2>2, <2>12, <1>i, StartSteady
  <1>12. CASE \E t \in Id : Requeue(p, t)
    <2>1. PICK t \in Id : Requeue(p, t)
      BY <1>12
    <2> DEFINE rest == IF c.todo = {t} THEN Tail(c.left) ELSE c.left
    <2> DEFINE left == IF tasks[t].kind = "build" /\ tasks[t].trust = "community" THEN <<"follow">> \o rest ELSE rest
    <2> DEFINE d == [c EXCEPT !.todo = @ \ {t}, !.task = t, !.left = left]
    <2>2. At(p, "requeue") /\ Start(p, d)
      BY <2>1 DEF Requeue
    <2>3. c \in AnyCall /\ "requeue" \in StepsOf[c.work] /\ Tail(c.left) \in Seq(StepsOf[c.work])
          /\ c.left \in Seq(StepsOf[c.work])
      BY <2>2, <1>i, OfHandler DEF Fits
    <2>4. c.work = "tick"
      BY <2>3 DEF AnyCall, Handler, StepsOf
    <2>5. rest \in Seq(StepsOf["tick"])
      BY <2>3, <2>4
    <2>6. <<"follow">> \o rest \in Seq(StepsOf["tick"])
      <3> HIDE DEF rest
      <3> QED
        BY <2>5, Prefixed DEF StepsOf
    <2>7. left \in Seq(StepsOf["tick"])
      BY <2>5, <2>6
    <2>8. left \in Seq(NoEnd) /\ left \in Seq(NoCancel)
      <3> HIDE DEF left
      <3> QED
        BY <2>7 DEF NoEnd, NoCancel, StepsOf, Steps
    <2>9. d.left = left /\ d.work = "tick"
      BY <2>3, <2>4 DEF AnyCall
    <2>10. Steady(d, tasks', made')
      <3> HIDE DEF d, left, c
      <3> QED
        BY <2>8, <2>9 DEF Steady
    <2> QED
      BY <2>2, <2>10, <1>i, StartSteady
  <1> QED
    BY <1>2, <1>3, <1>4, <1>5, <1>6, <1>7, <1>8, <1>9, <1>10, <1>11, <1>12 DEF Write

\* A handler that has none of the three to do is steady whatever the tables say.
LEMMA FreeSteady ==
  ASSUME NEW c, c.left \in Seq(NoEnd), c.left \in Seq(NoCancel), c.work # "stage"
  PROVE  Steady(c, tasks', made')
  BY DEF Steady

LEMMA QueueSteady ==
  ASSUME TypeOK, Alone, NEW p \in Proc, NEW w, w # "stage", NEW r, NEW after \in Seq(NoEnd \cap NoCancel),
         Queue(p, w, r, after)
  PROVE  AllSteady'
  <1> DEFINE c == [Call EXCEPT !.work = w, !.name = r.name, !.row = r, !.task = r.of, !.left = <<"insert">> \o after]
  <1>1. "insert" \in NoEnd /\ "insert" \in NoCancel /\ after \in Seq(NoEnd) /\ after \in Seq(NoCancel)
    BY DEF NoEnd, NoCancel, Steps
  <1>2. <<"insert">> \o after \in Seq(NoEnd) /\ <<"insert">> \o after \in Seq(NoCancel)
    BY <1>1, Prefixed
  <1>3. c.work = w /\ c.left = <<"insert">> \o after
    BY DEF Call
  <1>4. Steady(c, tasks', made')
    <2> HIDE DEF c
    <2> QED
      BY <1>2, <1>3, FreeSteady
  <1> QED
    BY <1>4, StartSteady DEF Queue

LEMMA AskSteady ==
  ASSUME TypeOK, Alone, NEW p \in Proc, Ask(p)
  PROVE  AllSteady'
  <1>e. <<>> \in Seq(NoEnd \cap NoCancel)
    BY Empty
  <1>1. ASSUME NEW n \in Name, NEW ref \in Ref, StartBuild(p, n, ref)
        PROVE  AllSteady'
    <2> DEFINE r == [NoRow EXCEPT !.kind = "build", !.trust = "community", !.name = n, !.ref = ref]
    <2> DEFINE c == [Call EXCEPT !.work = "build", !.name = n, !.left = <<"package">>]
    <2>1. <<"package">> \in Seq(NoEnd \cap NoCancel) /\ <<"package">> \in Seq(NoEnd) /\ <<"package">> \in Seq(NoCancel)
      BY DEF NoEnd, NoCancel, Steps
    <2>2. c.work = "build" /\ c.left = <<"package">>
      BY DEF Call
    <2> HIDE DEF r, c
    <2>3. Start(p, c) \/ Queue(p, "build", r, <<"package">>)
      BY <1>1 DEF StartBuild, r, c
    <2>4. Steady(c, tasks', made')
      BY <2>1, <2>2, FreeSteady
    <2> QED
      BY <2>1, <2>3, <2>4, QueueSteady, StartSteady
  <1>2. ASSUME NEW n \in Name, NEW ref \in Ref, StartEnqueue(p, n, ref)
        PROVE  AllSteady'
    BY <1>2, <1>e, QueueSteady DEF StartEnqueue
  <1>3. ASSUME NEW j \in Rule, QueueJob(p, j)
        PROVE  AllSteady'
    BY <1>3, <1>e, QueueSteady DEF QueueJob
  <1>4. ASSUME NEW m \in Maintainer, NEW t \in Id, StartProjectBuild(p, m, t)
        PROVE  AllSteady'
    BY <1>4, <1>e, QueueSteady DEF StartProjectBuild
  <1>5. ASSUME NEW m \in Maintainer, NEW t \in Id, StartApprove(p, m, t)
        PROVE  AllSteady'
    <2>1. <<"decide", "package", "audits">> \in Seq(NoEnd \cap NoCancel)
      BY DEF NoEnd, NoCancel, Steps
    <2> QED
      BY <1>5, <2>1, QueueSteady DEF StartApprove
  <1>6. ASSUME NEW m \in Maintainer, NEW t \in Id, StartReject(p, m, t)
        PROVE  AllSteady'
    <2> DEFINE left == <<"decide", "cancel", "audits", "package">>
    <2> DEFINE c == [Call EXCEPT !.work = "reject", !.task = t, !.name = tasks[t].name, !.left = left]
    <2>1. left \in Seq(NoEnd) /\ left \in Rejects
      BY DEF NoEnd, Steps, Rejects
    <2>2. c.work = "reject" /\ c.left = left /\ c.task = t
      BY DEF Call
    <2>3. Start(p, c) /\ tasks[t].status = "staged" /\ UNCHANGED <<tasks, made>>
      BY <1>6 DEF StartReject, InStatus
    <2>4. Steady(c, tasks', made')
      <3> HIDE DEF c, left
      <3> QED
        BY <2>1, <2>2, <2>3 DEF Steady
    <2> QED
      BY <2>3, <2>4, StartSteady
  <1> QED
    BY <1>1, <1>2, <1>3, <1>4, <1>5, <1>6, IdleSteady DEF Ask, CancelTask, DeletePackage

LEMMA WorkerSteady ==
  ASSUME TypeOK, HandsFit, Alone, NEW p \in Proc, NEW w \in Worker
  PROVE  StartHeartbeat(p, w) \/ Reports(p, w) \/ (\E t \in Id : Claim(p, w, t)) => AllSteady'
  <1> DEFINE k == busy[w].task
  <1>1. ASSUME StartHeartbeat(p, w)
        PROVE  AllSteady'
    <2> DEFINE c == [Call EXCEPT !.work = "beat", !.who = w, !.task = k, !.left = <<"beat", "answer">>]
    <2>1. <<"beat", "answer">> \in Seq(NoEnd) /\ <<"beat", "answer">> \in Seq(NoCancel)
      BY DEF NoEnd, NoCancel, Steps
    <2>2. c.work = "beat" /\ c.left = <<"beat", "answer">>
      BY DEF Call
    <2>3. Start(p, c)
      BY <1>1 DEF StartHeartbeat
    <2> HIDE DEF c
    <2> QED
      BY <2>1, <2>2, <2>3, FreeSteady, StartSteady
  <1>2. ASSUME NEW accepted, NEW c, Report(p, w, accepted, c),
               Owned(w) => Steady([c EXCEPT !.who = w, !.task = k, !.name = tasks[k].name], tasks', made')
        PROVE  AllSteady'
    <2> DEFINE d == [c EXCEPT !.who = w, !.task = k, !.name = tasks[k].name]
    <2>1. Steady(Call, tasks', made')
      BY Empty DEF Steady, Call
    <2>2. Start(p, IF Owned(w) /\ accepted THEN d ELSE Call)
      BY <1>2 DEF Report
    <2>3. CASE Owned(w) /\ accepted
      BY <1>2, <2>2, <2>3, StartSteady
    <2>4. CASE ~(Owned(w) /\ accepted)
      BY <2>1, <2>2, <2>4, StartSteady
    <2> QED
      BY <2>3, <2>4
  <1>3. ASSUME StartComplete(p, w)
        PROVE  AllSteady'
    <2> DEFINE work == IF Stages(k) THEN "stage" ELSE IF tasks[k].kind = "publish" THEN "publish"
                       ELSE IF tasks[k].kind = "build" THEN "main" ELSE "job"
    <2> DEFINE left == CASE work = "stage" -> <<"end", "older", "package", "insert">>
                         [] work = "job"   -> <<"end">>
                         [] OTHER          -> <<"end", "package">>
    <2> DEFINE audit == [NoRow EXCEPT !.kind = "audit", !.name = tasks[k].name, !.of = k, !.priority = 40]
    <2> DEFINE c == [Call EXCEPT !.work = work, !.row = audit, !.left = left]
    <2> DEFINE d == [c EXCEPT !.who = w, !.task = k, !.name = tasks[k].name]
    <2>1. Report(p, w, Evidence(k), c) /\ UNCHANGED <<tasks, made>> /\ k # 0
      BY <1>3 DEF StartComplete, Report
    <2>2. k \in Id
      BY <2>1, QueueAssumption DEF TypeOK, AnyHands, Id, Id0
    <2>3. d.work = work /\ d.left = left /\ d.task = k /\ d.todo = {}
      BY DEF Call
    <2>4. left # <<>> /\ Tail(left) \in Seq(NoEnd) /\ left \in Seq(NoCancel)
      <3>1. /\ Tail(<<"end", "older", "package", "insert">>) = <<"older", "package", "insert">>
            /\ Tail(<<"end">>) = <<>> /\ Tail(<<"end", "package">>) = <<"package">>
            /\ <<"end", "older", "package", "insert">> # <<>> /\ <<"end">> # <<>> /\ <<"end", "package">> # <<>>
        OBVIOUS
      <3>2. /\ <<"older", "package", "insert">> \in Seq(NoEnd) /\ <<>> \in Seq(NoEnd) /\ <<"package">> \in Seq(NoEnd)
            /\ <<"end", "older", "package", "insert">> \in Seq(NoCancel) /\ <<"end">> \in Seq(NoCancel)
            /\ <<"end", "package">> \in Seq(NoCancel)
        BY DEF NoEnd, NoCancel, Steps
      <3>3. \/ left = <<"end", "older", "package", "insert">> \/ left = <<"end">> \/ left = <<"end", "package">>
        OBVIOUS
      <3> HIDE DEF left
      <3> QED
        BY <3>1, <3>2, <3>3
    <2>5. Owned(w) => Steady(d, tasks', made')
      <3> HIDE DEF d, left, work
      <3> QED
        BY <2>1, <2>2, <2>3, <2>4 DEF Steady, Owned, Holds
    <2> HIDE DEF c
    <2> QED
      BY <2>1, <2>5, <1>2
  <1>4. ASSUME NEW final \in BOOLEAN, StartFail(p, w, final)
        PROVE  AllSteady'
    <2> DEFINE exhausted == final \/ Exhausted(k)
    <2> DEFINE left == IF exhausted /\ tasks[k].trust = "community" THEN <<"fail", "package">> ELSE <<"fail">>
    <2> DEFINE spent == {u \in {k} : exhausted}
    <2> DEFINE c == [Call EXCEPT !.work = "fail", !.spent = spent, !.left = left]
    <2> DEFINE d == [c EXCEPT !.who = w, !.task = k, !.name = tasks[k].name]
    <2>1. Report(p, w, TRUE, c) /\ UNCHANGED <<tasks, made>> /\ k # 0
      BY <1>4 DEF StartFail, Report
    <2>2. k \in Id
      BY <2>1, QueueAssumption DEF TypeOK, AnyHands, Id, Id0
    <2>3. d.work = "fail" /\ d.left = left /\ d.task = k
      <3> HIDE DEF left, spent
      <3> QED
        BY DEF Call
    <2>4. left # <<>> /\ Tail(left) \in Seq(NoEnd) /\ left \in Seq(NoCancel)
      <3>1. /\ Tail(<<"fail", "package">>) = <<"package">> /\ Tail(<<"fail">>) = <<>>
            /\ <<"fail", "package">> # <<>> /\ <<"fail">> # <<>>
        OBVIOUS
      <3>2. /\ <<"package">> \in Seq(NoEnd) /\ <<>> \in Seq(NoEnd)
            /\ <<"fail", "package">> \in Seq(NoCancel) /\ <<"fail">> \in Seq(NoCancel)
        BY DEF NoEnd, NoCancel, Steps
      <3>3. left = <<"fail", "package">> \/ left = <<"fail">>
        OBVIOUS
      <3> HIDE DEF left
      <3> QED
        BY <3>1, <3>2, <3>3
    <2>5. Owned(w) => Steady(d, tasks', made')
      <3> HIDE DEF d, left
      <3> QED
        BY <2>1, <2>2, <2>3, <2>4 DEF Steady, Owned, Holds
    <2> HIDE DEF c
    <2> QED
      BY <2>1, <2>5, <1>2
  <1>5. ASSUME NEW t \in Id, Claim(p, w, t)
        PROVE  AllSteady'
    <2> DEFINE left == IF tasks[t].trust = "community" THEN <<"package", "answer">> ELSE <<"answer">>
    <2> DEFINE c == [Call EXCEPT !.work = "claim", !.who = w, !.task = t, !.name = tasks[t].name, !.left = left]
    <2>1. /\ <<"package", "answer">> \in Seq(NoEnd) /\ <<"answer">> \in Seq(NoEnd)
          /\ <<"package", "answer">> \in Seq(NoCancel) /\ <<"answer">> \in Seq(NoCancel)
      BY DEF NoEnd, NoCancel, Steps
    <2>2. left \in Seq(NoEnd) /\ left \in Seq(NoCancel)
      BY <2>1
    <2>3. c.work = "claim" /\ c.left = left
      <3> HIDE DEF left
      <3> QED
        BY DEF Call
    <2>4. Start(p, c)
      BY <1>5 DEF Claim
    <2> HIDE DEF c, left
    <2> QED
      BY <2>2, <2>3, <2>4, FreeSteady, StartSteady
  <1> QED
    BY <1>1, <1>3, <1>4, <1>5 DEF Reports

LEMMA NextSteady ==
  ASSUME Inv, Alone, AllSteady, [Next]_vars
  PROVE  AllSteady'
  <1>i. TypeOK /\ HandsFit
    BY DEF Inv
  <1>1. ASSUME NEW p \in Proc, StartTick(p)
        PROVE  AllSteady'
    <2> DEFINE left == IF Expired = {} THEN <<"rules">> ELSE <<"requeue", "rules">>
    <2> DEFINE spent == {t \in Expired : Exhausted(t)}
    <2> DEFINE c == [Call EXCEPT !.work = "tick", !.todo = Expired, !.spent = spent, !.left = left]
    <2>1. /\ <<"rules">> \in Seq(NoEnd) /\ <<"requeue", "rules">> \in Seq(NoEnd)
          /\ <<"rules">> \in Seq(NoCancel) /\ <<"requeue", "rules">> \in Seq(NoCancel)
      BY DEF NoEnd, NoCancel, Steps
    <2>2. left \in Seq(NoEnd) /\ left \in Seq(NoCancel)
      BY <2>1
    <2>3. c.work = "tick" /\ c.left = left
      <3> HIDE DEF left, spent
      <3> QED
        BY DEF Call
    <2>4. Start(p, c)
      BY <1>1 DEF StartTick
    <2> HIDE DEF c, left
    <2> QED
      BY <1>i, <2>2, <2>3, <2>4, FreeSteady, StartSteady
  <1>2. ASSUME NEW p \in Proc, End(p)
        PROVE  AllSteady'
    <2>1. Steady(Call, tasks', made')
      BY Empty DEF Steady, Call
    <2> QED
      BY <1>2, <1>i, <2>1, StartSteady DEF End
  <1>3. ASSUME NEW w \in Worker, Produce(w) \/ TokenRunsOut(w) \/ Kill(w)
        PROVE  AllSteady'
    <2>1. UNCHANGED <<tasks, made, calls>>
      BY <1>3 DEF Produce, TokenRunsOut, Kill
    <2> QED
      BY <2>1, <1>i, SteadyStays
  <1>4. ASSUME NEW u \in Id, LeaseRunsOut(u)
        PROVE  AllSteady'
    <2>1. UNCHANGED <<made, calls>> /\ tasks' = [tasks EXCEPT ![u].over = TRUE]
      BY <1>4 DEF LeaseRunsOut
    <2>2. \A t \in Id : tasks'[t].status = tasks[t].status
      BY <2>1, <1>i DEF TypeOK, AnyRow
    <2> QED
      BY <2>1, <2>2, <1>i, SteadyStays
  <1>5. CASE UNCHANGED vars
    BY <1>5, <1>i, SteadyStays DEF vars
  <1> QED
    BY <1>i, <1>1, <1>2, <1>3, <1>4, <1>5, WriteSteady, AskSteady, WorkerSteady DEF Next

-----------------------------------------------------------------------------
Ended3 == {"done", "failed", "cancelled"}
Onward(s, new) ==
    /\ s \in Ended3 => new = s
    /\ s = "staged" => new \in {"staged", "done", "cancelled"}

LEMMA NextOnward ==
  ASSUME Inv, Alone, AllSteady, [Next]_vars, NEW t \in Made
  PROVE  Onward(tasks[t].status, tasks'[t].status)
  <1>i. /\ TypeOK /\ CallsFit /\ t \in Id /\ made \in Nat /\ made + 1 # t
        /\ \A u \in Id : tasks[u] \in AnyRow
    BY QueueAssumption DEF Inv, TypeOK, Made, Id, Id0
  <1>s. \A x : Onward(x, x)
    BY DEF Onward
  <1>u. ASSUME NEW u, NEW r, tasks' = [tasks EXCEPT ![u] = r], u = t => Onward(tasks[t].status, r.status)
        PROVE  Onward(tasks[t].status, tasks'[t].status)
    BY <1>u, <1>i, <1>s DEF TypeOK
  <1>c. ASSUME NEW S, tasks' = Cancelled(S), t \in S => tasks[t].status \in {"queued", "leased", "staged"}
        PROVE  Onward(tasks[t].status, tasks'[t].status)
    <2>1. t \in S => tasks'[t].status = "cancelled"
      BY <1>c, <1>i DEF Cancelled, AnyRow
    <2>2. t \notin S => tasks'[t] = tasks[t]
      BY <1>c, <1>i DEF Cancelled
    <2> QED
      BY <2>1, <2>2, <1>c, <1>s DEF Onward, Ended3
  <1>1. ASSUME NEW p \in Proc, Write(p)
        PROVE  Onward(tasks[t].status, tasks'[t].status)
    <2> DEFINE c == calls[p]
    <2>s. Steady(c, tasks, made)
      BY DEF AllSteady
    <2>1. CASE Insert(p)
      BY <2>1, <1>u, <1>i DEF Insert
    <2>2. CASE SetPackage(p)
      <3> DEFINE b == tasks[c.task].of
      <3> DEFINE r == [tasks[b] EXCEPT !.status = IF @ = "staged" THEN "done" ELSE @]
      <3>1. tasks' = tasks \/ tasks' = [tasks EXCEPT ![b] = r]
        BY <2>2 DEF SetPackage, BuildPublished
      <3>2. b = t => Onward(tasks[t].status, r.status)
        BY <1>i DEF Onward, Ended3, AnyRow
      <3> HIDE DEF b, r
      <3> QED
        BY <3>1, <3>2, <1>s, <1>u
    <2>3. CASE Answer(p) \/ SelectOlder(p) \/ Decide(p) \/ Follow(p) \/ Rules(p)
      BY <2>3, <1>s DEF Answer, SelectOlder, Decide, Follow, Rules
    <2>4. CASE Beat(p)
      <3>1. tasks' = [tasks EXCEPT ![c.task] = [tasks[c.task] EXCEPT !.over = FALSE]]
        BY <2>4 DEF Beat
      <3>2. c.task = t => [tasks[c.task] EXCEPT !.over = FALSE].status = tasks[t].status
        BY <1>i DEF AnyRow
      <3> QED
        BY <3>1, <3>2, <1>s, <1>u
    <2>5. CASE EndTask(p) \/ FailTask(p)
      <3>1. (At(p, "end") \/ At(p, "fail")) /\ \E r : tasks' = [tasks EXCEPT ![c.task] = r]
        BY <2>5 DEF EndTask, FailTask
      <3>2. tasks[c.task].status = "leased"
        <4>1. c.left # <<>> /\ Head(c.left) \notin NoEnd
          BY <3>1 DEF At, Idle, NoEnd
        <4> HIDE DEF c
        <4> QED
          BY <4>1, <2>s, Tails DEF Steady
      <3> QED
        BY <3>1, <3>2, <1>u DEF Onward, Ended3
    <2>6. CASE CancelDecided(p)
      <3>1. CASE At(p, "cancel")
        <4>1. c.left # <<>> /\ Head(c.left) \notin NoCancel
          BY <3>1 DEF At, Idle, NoCancel
        <4>2. tasks[c.task].status = "staged"
          <5> HIDE DEF c
          <5> QED
            BY <4>1, <2>s, Tails DEF Steady
        <4>3. tasks' = Cancelled({c.task})
          BY <2>6, <3>1 DEF CancelDecided
        <4> QED
          BY <4>2, <4>3, <1>c
      <3>2. CASE ~At(p, "cancel")
        <4>1. tasks' = Cancelled(QueuedAudits(c.task))
          BY <2>6, <3>2 DEF CancelDecided
        <4>2. t \in QueuedAudits(c.task) => tasks[t].status = "queued"
          BY DEF QueuedAudits, InStatus
        <4> QED
          BY <4>1, <4>2, <1>c
      <3> QED
        BY <3>1, <3>2
    <2>7. ASSUME NEW o \in Id, Supersede(p, o)
          PROVE  Onward(tasks[t].status, tasks'[t].status)
      <3>1. At(p, "supersede") /\ o \in c.todo /\ tasks' = Cancelled({o} \cup QueuedAudits(o))
        BY <2>7 DEF Supersede
      <3>2. c \in AnyCall /\ "supersede" \in StepsOf[c.work] /\ ~Idle(p)
        BY <3>1, <1>i, OfHandler DEF Idle
      <3>3. c.work = "stage"
        <4>1. c.work \in Handler
          BY <3>2 DEF AnyCall
        <4> HIDE DEF c
        <4> QED
          BY <3>2, <4>1 DEF Handler, StepsOf
      <3>4. tasks[o].status = "staged"
        BY <3>1, <3>2, <3>3, StagedStay
      <3>5. t \in {o} \cup QueuedAudits(o) => tasks[t].status \in {"queued", "leased", "staged"}
        BY <3>4 DEF QueuedAudits, InStatus
      <3> QED
        BY <3>1, <3>5, <1>c
    <2>8. ASSUME NEW u \in Id, Requeue(p, u)
          PROVE  Onward(tasks[t].status, tasks'[t].status)
      <3>1. tasks' = [tasks EXCEPT ![u] = Requeued(u, u \in calls[p].spent)]
        BY <2>8 DEF Requeue
      <3>2. tasks[u].status = "leased" \/ Requeued(u, u \in calls[p].spent) = tasks[u]
        BY DEF Requeued
      <3>3. u = t => Onward(tasks[t].status, Requeued(u, u \in calls[p].spent).status)
        BY <3>2, <1>s DEF Onward, Ended3
      <3> QED
        BY <3>1, <3>3, <1>u
    <2> QED
      BY <1>1, <2>1, <2>2, <2>3, <2>4, <2>5, <2>6, <2>7, <2>8 DEF Write
  <1>2. ASSUME NEW p \in Proc, Ask(p)
        PROVE  Onward(tasks[t].status, tasks'[t].status)
    <2>1. ASSUME NEW u \in Id, CancelTask(p, u)
          PROVE  Onward(tasks[t].status, tasks'[t].status)
      <3>1. tasks' = [tasks EXCEPT ![u] = [tasks[u] EXCEPT !.status = "cancelled"]]
        BY <2>1 DEF CancelTask
      <3>2. tasks[u].status \in {"queued", "leased"}
        BY <2>1 DEF CancelTask, InFlight, InStatus
      <3> QED
        BY <3>1, <3>2, <1>u DEF Onward, Ended3
    <2>2. ASSUME NEW n \in Name, DeletePackage(p, n)
          PROVE  Onward(tasks[t].status, tasks'[t].status)
      <3>1. tasks'[t] = tasks[t] \/ tasks[t].status = "queued"
        BY <2>2, <1>i DEF DeletePackage, InStatus
      <3> QED
        BY <3>1, <1>s DEF Onward, Ended3
    <2> QED
      BY <1>2, <2>1, <2>2, <1>s DEF Ask, StartBuild, StartEnqueue, QueueJob, StartProjectBuild, StartApprove, StartReject
  <1>3. ASSUME NEW p \in Proc, StartTick(p) \/ End(p)
        PROVE  tasks' = tasks
    BY <1>3 DEF StartTick, End
  <1>4. ASSUME NEW p \in Proc, NEW w \in Worker, StartHeartbeat(p, w) \/ Reports(p, w)
        PROVE  tasks' = tasks
    BY <1>4 DEF StartHeartbeat, Reports, StartComplete, StartFail, Report
  <1>5. ASSUME NEW p \in Proc, NEW w \in Worker, NEW u \in Id, Claim(p, w, u)
        PROVE  Onward(tasks[t].status, tasks'[t].status)
    <2>1. tasks' = [tasks EXCEPT ![u] = Taken(w, u)] /\ tasks[u].status = "queued"
      BY <1>5 DEF Claim, IsNext, Offered, InStatus
    <2> QED
      BY <2>1, <1>u DEF Onward, Ended3
  <1>6. ASSUME NEW w \in Worker, Produce(w) \/ TokenRunsOut(w) \/ Kill(w)
        PROVE  tasks' = tasks
    BY <1>6 DEF Produce, TokenRunsOut, Kill
  <1>7. ASSUME NEW u \in Id, LeaseRunsOut(u)
        PROVE  Onward(tasks[t].status, tasks'[t].status)
    <2>1. tasks'[t].status = tasks[t].status
      BY <1>7, <1>i DEF LeaseRunsOut, TypeOK, AnyRow
    <2> QED
      BY <2>1, <1>s
  <1>8. CASE UNCHANGED vars
    BY <1>8, <1>s DEF vars
  <1> QED
    BY <1>1, <1>2, <1>3, <1>4, <1>5, <1>6, <1>7, <1>8, <1>s DEF Next

\* When handlers do not overlap (they may end anywhere): a task that is done,
\* failed or cancelled stays so, and a staged build is published, rejected or
\* superseded and nothing else, although handleComplete, handleFail and
\* handleReject write by the id alone.
THEOREM EndsAreFinal ==
  ASSUME Alone
  PROVE  Spec => Final
  <1>1. Init => AllSteady
    <2>1. Call.left = <<>> /\ Call.work = "none"
      BY DEF Call
    <2>2. Steady(Call, tasks, made)
      BY <2>1, Empty DEF Steady
    <2> QED
      BY <2>2 DEF Init, AllSteady
  <1>2. Inv /\ AllSteady /\ [Next]_vars => AllSteady'
    BY NextSteady
  <1>3. Inv /\ AllSteady /\ [Next]_vars
          => [\A t \in Made : /\ tasks[t].status \in {"done", "failed", "cancelled"} => tasks'[t].status = tasks[t].status
                              /\ tasks[t].status = "staged" => tasks'[t].status \in {"staged", "done", "cancelled"}]_vars
    BY NextOnward DEF Onward, Ended3
  <1> QED
    BY <1>1, <1>2, <1>3, InitInv, NextInv, PTL DEF Spec, Final

=============================================================================
