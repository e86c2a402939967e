------------------------- MODULE ContributorsProofs -------------------------
(***************************************************************************)
(* Theorems about Contributors, for every set of invocations, people and   *)
(* names and every value of the bounds: what a registration's request left *)
(* behind, how many bumps of one release are under way, that an apply of   *)
(* the file mends every role, and, where requests do not overlap, who owns *)
(* what and who is blocked.                                                *)
(***************************************************************************)
EXTENDS Contributors, FiniteSetTheorems, TLAPS

Person   == [role : {"maintainer", "contributor"}, by : Login \cup {None}]
Status   == {"registered", "waiting", "building", "staged", "approved", "rejected", "unmaintained"}
Row      == [owner : Login, project : Project, status : Status, request : Nat, tag : 0 .. MaxTag,
             by : Login \cup {None}]
Host     == [owner : Login, revoked : BOOLEAN]
Request  == [name : Name, owner : Login, project : Project, migrated : BOOLEAN, record : BOOLEAN]
Task     == [name : Name, owner : Login, tag : 0 .. MaxTag, bump : 0 .. MaxTag,
             status : Open \cup {"failed", "cancelled"}, age : 0 .. 2]
Picked   == [name : Name, owner : Login, project : Project]

\* What every handler may have left to do.
LeftOf ==
    [none |-> {}, signIn |-> {<<"upsert">>},
     governance |-> {<<"list", "people", "roles">>, <<"people", "roles">>, <<"roles">>},
     request |-> {RequestSteps, <<"record", "sign", "point", "register">>, <<"sign", "point", "register">>,
                  <<"point", "register">>, <<"register">>},
     backfill |-> {<<"request", "record", "sign", "adopt">>, <<"record", "sign", "adopt">>, <<"sign", "adopt">>,
                   <<"adopt">>},
     delete |-> {<<"delete">>}, build |-> {<<"task", "waiting">>, <<"waiting">>}, worker |-> {<<"worker">>},
     block |-> {<<"blockPerson">>, <<"blockPackage">>}, unblock |-> {<<"liftPerson">>, <<"liftPackage">>},
     updates |-> {<<"stale", "retire", "select", "release", "approved", "pending", "bump", "checked">>,
                  <<"retire", "select", "release", "approved", "pending", "bump", "checked">>,
                  <<"select", "release", "approved", "pending", "bump", "checked">>,
                  <<"release", "approved", "pending", "bump", "checked">>,
                  <<"approved", "pending", "bump", "checked">>, <<"pending", "bump", "checked">>,
                  <<"bump", "checked">>, <<"checked">>}]
Handler  == DOMAIN LeftOf
Steps    == {"upsert", "list", "people", "roles", "request", "record", "sign", "point", "register", "adopt", "delete",
             "task", "waiting", "worker", "blockPerson", "blockPackage", "liftPerson", "liftPackage", "stale",
             "retire", "select", "release", "approved", "pending", "bump", "checked"}

AnyCall  == [work : Handler, who : Login \cup {None}, role : {"maintainer", "contributor", None},
             name : Name \cup Login \cup {None}, project : Project \cup {None}, tag : 0 .. MaxTag, id : Nat,
             file : Nat, todo : SUBSET (Name \cup Login \cup Picked), left : Seq(Steps)]

TypeOK ==
    /\ main \in DOMAIN File /\ known \in DOMAIN File /\ maintainers \subseteq Login
    /\ contributors \in [Login -> Person \cup {None}]
    /\ workers \in Seq(Host) /\ requests \in Seq(Request) /\ tasks \in Seq(Task)
    /\ bucket \subseteq Nat \X {"request.json", "request.json.sig"}
    /\ packages \in [Name -> Row \cup {None}]
    /\ approvals \in [Name -> 0 .. MaxTag] /\ latest \in [Project -> 1 .. MaxTag] /\ checked \in BOOLEAN
    /\ calls \in [Proc -> AnyCall]
    /\ faults \in 0 .. MaxFaults

-----------------------------------------------------------------------------
\* What the invocations carry, in terms of the people C, the requests R and
\* the bucket B.

\* The writes a handler has left are its own, about what it was asked for.
Fits(c, C) ==
    /\ c.left \in LeftOf[c.work]
    /\ c.work = "signIn" => c.who \in Login /\ c.role \in {"maintainer", "contributor"}
    /\ c.work = "governance" => c.file \in DOMAIN File /\ \A l \in c.todo : l \in Login /\ C[l] # None
    /\ c.work \in {"request", "backfill"} => c.who \in Login /\ c.name \in Name /\ c.project \in Project
    /\ c.work = "delete" => c.name \in Name
    /\ c.work = "build" => c.name \in Name /\ c.who \in Login
    /\ c.work = "worker" => c.who \in Login
    /\ c.work \in {"block", "unblock"} => c.who \in Login
    /\ c.left \in {<<"blockPerson">>, <<"liftPerson">>} => c.name \in Login /\ C[c.name] # None
    /\ c.left \in {<<"blockPackage">>, <<"liftPackage">>} => c.name \in Name
    /\ c.work = "updates" =>
         /\ Head(c.left) \in {"stale", "retire"} => c.todo \subseteq Name
         /\ Head(c.left) \in {"release", "approved", "pending", "bump"} => c.todo \subseteq Picked
         /\ Head(c.left) \in {"approved", "pending", "bump"} =>
                c.name \in Name /\ c.who \in Login /\ c.tag \in 1 .. MaxTag

\* What is left of a request's writes says what has been written: the row, the
\* document, the signature and the pointer, in this order.
Written(c, R, B) ==
    c.work \in {"request", "backfill"} /\ Head(c.left) # "request" =>
        /\ c.id \in DOMAIN R
        /\ R[c.id].name = c.name /\ R[c.id].owner = c.who /\ R[c.id].project = c.project
        /\ R[c.id].migrated <=> (c.work = "backfill")
        /\ Head(c.left) # "record" => <<c.id, "request.json">> \in B
        /\ Head(c.left) \notin {"record", "sign"} => <<c.id, "request.json.sig">> \in B
        /\ Head(c.left) = "register" => R[c.id].record

CallsFit     == \A p \in Proc : ~Idle(p) => Fits(calls[p], contributors)
CallsWritten == \A p \in Proc : ~Idle(p) => Written(calls[p], requests, bucket)

\* OnRecord, and that the request a registration points at is a row.
Inv == TypeOK /\ CallsFit
Recorded ==
    /\ CallsWritten
    /\ \A n \in Registered : packages[n].request \in 0 .. Len(requests)
    /\ OnRecord

-----------------------------------------------------------------------------
\* Where requests do not overlap, what a handler has checked still holds when
\* it writes.

Lone == \A p, q \in Proc : ~Idle(p) /\ ~Idle(q) => p = q

\* A name that is taken is the asker's and the project has no other name; who
\* queues a build or adds a worker is not blocked.
Relies(c, C, P) ==
    /\ c.work \in {"request", "backfill"} /\ P[c.name] # None => P[c.name].owner = c.who
    /\ c.work = "request" =>
           \A m \in Name \ {c.name} : P[m] # None => P[m].request = 0 \/ P[m].project # c.project
    /\ c.work = "worker" \/ c.left = <<"task", "waiting">> => C[c.who] # None /\ C[c.who].by = None
CallsRely == \A p \in Proc : ~Idle(p) => Relies(calls[p], contributors, packages)

\* While the roles are being written, those of the people an apply does not
\* have on its list follow its file already, which is the one applied last.
Follows(S, v) == \A l \in S : isMaintainer(l) <=> l \in File[v]
Writing(p)    == ~Idle(p) /\ Head(calls[p].left) \in {"people", "roles"}
RolesInv ==
    /\ maintainers = File[known]
    /\ \A p \in Proc : Writing(p) => known = calls[p].file
    /\ \A p \in Proc : At(p, "roles") => Follows(SignedIn \ calls[p].todo, calls[p].file)

\* The invocations about to queue a bump of a package to a release.
InHand(n, tag) == {p \in Proc : At(p, "bump") /\ calls[p].name = n /\ calls[p].tag = tag}
BumpsInv ==
    \A n \in Name : \A tag \in 1 .. MaxTag :
        Cardinality(BumpsOf(n, tag)) + Cardinality(InHand(n, tag)) <= Cardinality(Proc)

-----------------------------------------------------------------------------
\* What the steps never do.

\* Rows of requests and objects of the record are never lost, and a row's
\* pointer is never taken back.
Grown ==
    /\ \A i \in DOMAIN requests :
         /\ i \in DOMAIN requests' /\ requests'[i].name = requests[i].name /\ requests'[i].owner = requests[i].owner
         /\ requests'[i].project = requests[i].project /\ requests'[i].migrated = requests[i].migrated
         /\ requests[i].record => requests'[i].record
    /\ bucket \subseteq bucket'

\* Nobody gets a registration and none changes hands.
SameHands ==
    \A n \in Name : packages'[n] # None =>
        /\ packages[n] # None /\ packages'[n].request = packages[n].request
        /\ packages'[n].owner = packages[n].owner /\ packages'[n].project = packages[n].project

\* No build is new and none that has ended is under way again.
NoneReopens ==
    /\ DOMAIN tasks' = DOMAIN tasks
    /\ \A t \in DOMAIN tasks :
         /\ tasks'[t].name = tasks[t].name /\ tasks'[t].owner = tasks[t].owner /\ tasks'[t].bump = tasks[t].bump
         /\ tasks'[t].status \in Open => tasks[t].status \in Open

-----------------------------------------------------------------------------
LEMMA Tails ==
  ASSUME NEW S, NEW s \in Seq(S), s # <<>>
  PROVE  Head(s) \in S /\ Tail(s) \in Seq(S)
  OBVIOUS

LEMMA Empty == \A S : <<>> \in Seq(S)
  OBVIOUS

\* One element changed for another of the kind, one more at the end, and each
\* put through a function.
LEMMA Sequences ==
  ASSUME NEW S, NEW s \in Seq(S)
  PROVE  /\ \A i \in DOMAIN s, x \in S : [s EXCEPT ![i] = x] \in Seq(S)
         /\ \A x \in S : /\ Append(s, x) \in Seq(S) /\ Len(Append(s, x)) = Len(s) + 1
                         /\ \A i \in DOMAIN s : Append(s, x)[i] = s[i]
                         /\ Append(s, x)[Len(s) + 1] = x
         /\ \A f \in [DOMAIN s -> S] : f \in Seq(S)
         /\ DOMAIN s = 1 .. Len(s) /\ Len(s) \in Nat
         /\ \A i \in DOMAIN s : s[i] \in S
  OBVIOUS

\* The tuples of writes: their first and the rest.
LEMMA Tuples ==
  /\ Head(<<"upsert">>) = "upsert" /\ Tail(<<"upsert">>) = <<>> /\ <<"upsert">> # <<>>
  /\ Head(<<"list", "people", "roles">>) = "list" /\ Tail(<<"list", "people", "roles">>) = <<"people", "roles">> /\ <<"list", "people", "roles">> # <<>>
  /\ Head(<<"people", "roles">>) = "people" /\ Tail(<<"people", "roles">>) = <<"roles">> /\ <<"people", "roles">> # <<>>
  /\ Head(<<"roles">>) = "roles" /\ Tail(<<"roles">>) = <<>> /\ <<"roles">> # <<>>
  /\ Head(<<"request", "record", "sign", "point", "register">>) = "request" /\ Tail(<<"request", "record", "sign", "point", "register">>) = <<"record", "sign", "point", "register">> /\ <<"request", "record", "sign", "point", "register">> # <<>>
  /\ Head(<<"record", "sign", "point", "register">>) = "record" /\ Tail(<<"record", "sign", "point", "register">>) = <<"sign", "point", "register">> /\ <<"record", "sign", "point", "register">> # <<>>
  /\ Head(<<"sign", "point", "register">>) = "sign" /\ Tail(<<"sign", "point", "register">>) = <<"point", "register">> /\ <<"sign", "point", "register">> # <<>>
  /\ Head(<<"point", "register">>) = "point" /\ Tail(<<"point", "register">>) = <<"register">> /\ <<"point", "register">> # <<>>
  /\ Head(<<"register">>) = "register" /\ Tail(<<"register">>) = <<>> /\ <<"register">> # <<>>
  /\ Head(<<"request", "record", "sign", "adopt">>) = "request" /\ Tail(<<"request", "record", "sign", "adopt">>) = <<"record", "sign", "adopt">> /\ <<"request", "record", "sign", "adopt">> # <<>>
  /\ Head(<<"record", "sign", "adopt">>) = "record" /\ Tail(<<"record", "sign", "adopt">>) = <<"sign", "adopt">> /\ <<"record", "sign", "adopt">> # <<>>
  /\ Head(<<"sign", "adopt">>) = "sign" /\ Tail(<<"sign", "adopt">>) = <<"adopt">> /\ <<"sign", "adopt">> # <<>>
  /\ Head(<<"adopt">>) = "adopt" /\ Tail(<<"adopt">>) = <<>> /\ <<"adopt">> # <<>>
  /\ Head(<<"delete">>) = "delete" /\ Tail(<<"delete">>) = <<>> /\ <<"delete">> # <<>>
  /\ Head(<<"task", "waiting">>) = "task" /\ Tail(<<"task", "waiting">>) = <<"waiting">> /\ <<"task", "waiting">> # <<>>
  /\ Head(<<"waiting">>) = "waiting" /\ Tail(<<"waiting">>) = <<>> /\ <<"waiting">> # <<>>
  /\ Head(<<"worker">>) = "worker" /\ Tail(<<"worker">>) = <<>> /\ <<"worker">> # <<>>
  /\ Head(<<"blockPerson">>) = "blockPerson" /\ Tail(<<"blockPerson">>) = <<>> /\ <<"blockPerson">> # <<>>
  /\ Head(<<"blockPackage">>) = "blockPackage" /\ Tail(<<"blockPackage">>) = <<>> /\ <<"blockPackage">> # <<>>
  /\ Head(<<"liftPerson">>) = "liftPerson" /\ Tail(<<"liftPerson">>) = <<>> /\ <<"liftPerson">> # <<>>
  /\ Head(<<"liftPackage">>) = "liftPackage" /\ Tail(<<"liftPackage">>) = <<>> /\ <<"liftPackage">> # <<>>
  /\ Head(<<"stale", "retire", "select", "release", "approved", "pending", "bump", "checked">>) = "stale" /\ Tail(<<"stale", "retire", "select", "release", "approved", "pending", "bump", "checked">>) = <<"retire", "select", "release", "approved", "pending", "bump", "checked">> /\ <<"stale", "retire", "select", "release", "approved", "pending", "bump", "checked">> # <<>>
  /\ Head(<<"retire", "select", "release", "approved", "pending", "bump", "checked">>) = "retire" /\ Tail(<<"retire", "select", "release", "approved", "pending", "bump", "checked">>) = <<"select", "release", "approved", "pending", "bump", "checked">> /\ <<"retire", "select", "release", "approved", "pending", "bump", "checked">> # <<>>
  /\ Head(<<"select", "release", "approved", "pending", "bump", "checked">>) = "select" /\ Tail(<<"select", "release", "approved", "pending", "bump", "checked">>) = <<"release", "approved", "pending", "bump", "checked">> /\ <<"select", "release", "approved", "pending", "bump", "checked">> # <<>>
  /\ Head(<<"release", "approved", "pending", "bump", "checked">>) = "release" /\ Tail(<<"release", "approved", "pending", "bump", "checked">>) = <<"approved", "pending", "bump", "checked">> /\ <<"release", "approved", "pending", "bump", "checked">> # <<>>
  /\ Head(<<"approved", "pending", "bump", "checked">>) = "approved" /\ Tail(<<"approved", "pending", "bump", "checked">>) = <<"pending", "bump", "checked">> /\ <<"approved", "pending", "bump", "checked">> # <<>>
  /\ Head(<<"pending", "bump", "checked">>) = "pending" /\ Tail(<<"pending", "bump", "checked">>) = <<"bump", "checked">> /\ <<"pending", "bump", "checked">> # <<>>
  /\ Head(<<"bump", "checked">>) = "bump" /\ Tail(<<"bump", "checked">>) = <<"checked">> /\ <<"bump", "checked">> # <<>>
  /\ Head(<<"checked">>) = "checked" /\ Tail(<<"checked">>) = <<>> /\ <<"checked">> # <<>>
  OBVIOUS

\* What a handler is, by the write it does next.
LEMMA Leads ==
  ASSUME NEW c, c.work \in Handler, c.left \in LeftOf[c.work]
  PROVE  /\ c.left # <<>> /\ Tail(c.left) \in LeftOf[c.work] \cup {<<>>}
         /\ c.work \in {"block", "unblock"} => Tail(c.left) = <<>>
         /\ Head(c.left) = "upsert" => c.work = "signIn" /\ Tail(c.left) = <<>>
         /\ Head(c.left) = "list" => c.work = "governance" /\ Tail(c.left) = <<"people", "roles">>
         /\ Head(c.left) = "people" => c.work = "governance" /\ Tail(c.left) = <<"roles">>
         /\ Head(c.left) = "roles" => c.work = "governance" /\ Tail(c.left) = <<>>
         /\ Head(c.left) \in {"request", "record", "sign"} => /\ c.work \in {"request", "backfill"}
                                                              /\ Tail(c.left) # <<>>
         /\ Head(c.left) = "request" => Head(Tail(c.left)) = "record"
         /\ Head(c.left) = "record" => Head(Tail(c.left)) = "sign"
         /\ Head(c.left) = "sign" => Head(Tail(c.left)) \in {"point", "adopt"}
         /\ Head(c.left) = "point" => c.work = "request" /\ Tail(c.left) = <<"register">>
         /\ Head(c.left) = "register" => c.work = "request" /\ Tail(c.left) = <<>>
         /\ Head(c.left) = "adopt" => c.work = "backfill" /\ Tail(c.left) = <<>>
         /\ Head(c.left) = "delete" => c.work = "delete" /\ Tail(c.left) = <<>>
         /\ Head(c.left) = "task" => /\ c.work = "build" /\ Tail(c.left) = <<"waiting">>
                                     /\ c.left = <<"task", "waiting">>
         /\ Head(c.left) = "waiting" => c.work = "build" /\ Tail(c.left) = <<>>
         /\ Head(c.left) = "worker" => c.work = "worker" /\ Tail(c.left) = <<>>
         /\ Head(c.left) = "blockPerson" => /\ c.work = "block" /\ Tail(c.left) = <<>>
                                            /\ c.left = <<"blockPerson">>
         /\ Head(c.left) = "blockPackage" => /\ c.work = "block" /\ Tail(c.left) = <<>>
                                             /\ c.left = <<"blockPackage">>
         /\ Head(c.left) = "liftPerson" => /\ c.work = "unblock" /\ Tail(c.left) = <<>>
                                           /\ c.left = <<"liftPerson">>
         /\ Head(c.left) = "liftPackage" => /\ c.work = "unblock" /\ Tail(c.left) = <<>>
                                            /\ c.left = <<"liftPackage">>
         /\ Head(c.left) = "stale" => c.work = "updates" /\ Tail(c.left) = <<"retire", "select", "release", "approved", "pending", "bump", "checked">>
         /\ Head(c.left) = "retire" => c.work = "updates" /\ Tail(c.left) = <<"select", "release", "approved", "pending", "bump", "checked">>
         /\ Head(c.left) = "select" => c.work = "updates" /\ Tail(c.left) = <<"release", "approved", "pending", "bump", "checked">>
         /\ Head(c.left) = "release" => c.work = "updates" /\ Tail(c.left) = <<"approved", "pending", "bump", "checked">>
         /\ Head(c.left) = "approved" => c.work = "updates" /\ Tail(c.left) = <<"pending", "bump", "checked">>
         /\ Head(c.left) = "pending" => c.work = "updates" /\ Tail(c.left) = <<"bump", "checked">>
         /\ Head(c.left) = "bump" => c.work = "updates" /\ Tail(c.left) = <<"checked">>
         /\ Head(c.left) = "checked" => c.work = "updates" /\ Tail(c.left) = <<>>
  <1>1. CASE c.work = "signIn"
    <2>1. LeftOf[c.work] = {<<"upsert">>}
      BY <1>1 DEF LeftOf
    <2>2. CASE c.left = <<"upsert">>
      BY <1>1, <2>1, <2>2, Tuples
    <2> QED
      BY <2>1, <2>2
  <1>2. CASE c.work = "governance"
    <2>1. LeftOf[c.work] = {<<"list", "people", "roles">>,
                            <<"people", "roles">>,
                            <<"roles">>}
      BY <1>2 DEF LeftOf
    <2>2. CASE c.left = <<"list", "people", "roles">>
      BY <1>2, <2>1, <2>2, Tuples
    <2>3. CASE c.left = <<"people", "roles">>
      BY <1>2, <2>1, <2>3, Tuples
    <2>4. CASE c.left = <<"roles">>
      BY <1>2, <2>1, <2>4, Tuples
    <2> QED
      BY <2>1, <2>2, <2>3, <2>4
  <1>3. CASE c.work = "request"
    <2>1. LeftOf[c.work] = {<<"request", "record", "sign", "point", "register">>,
                            <<"record", "sign", "point", "register">>,
                            <<"sign", "point", "register">>,
                            <<"point", "register">>,
                            <<"register">>}
      BY <1>3 DEF LeftOf, RequestSteps
    <2>2. CASE c.left = <<"request", "record", "sign", "point", "register">>
      BY <1>3, <2>1, <2>2, Tuples
    <2>3. CASE c.left = <<"record", "sign", "point", "register">>
      BY <1>3, <2>1, <2>3, Tuples
    <2>4. CASE c.left = <<"sign", "point", "register">>
      BY <1>3, <2>1, <2>4, Tuples
    <2>5. CASE c.left = <<"point", "register">>
      BY <1>3, <2>1, <2>5, Tuples
    <2>6. CASE c.left = <<"register">>
      BY <1>3, <2>1, <2>6, Tuples
    <2> QED
      BY <2>1, <2>2, <2>3, <2>4, <2>5, <2>6
  <1>4. CASE c.work = "backfill"
    <2>1. LeftOf[c.work] = {<<"request", "record", "sign", "adopt">>,
                            <<"record", "sign", "adopt">>,
                            <<"sign", "adopt">>,
                            <<"adopt">>}
      BY <1>4 DEF LeftOf
    <2>2. CASE c.left = <<"request", "record", "sign", "adopt">>
      BY <1>4, <2>1, <2>2, Tuples
    <2>3. CASE c.left = <<"record", "sign", "adopt">>
      BY <1>4, <2>1, <2>3, Tuples
    <2>4. CASE c.left = <<"sign", "adopt">>
      BY <1>4, <2>1, <2>4, Tuples
    <2>5. CASE c.left = <<"adopt">>
      BY <1>4, <2>1, <2>5, Tuples
    <2> QED
      BY <2>1, <2>2, <2>3, <2>4, <2>5
  <1>5. CASE c.work = "delete"
    <2>1. LeftOf[c.work] = {<<"delete">>}
      BY <1>5 DEF LeftOf
    <2>2. CASE c.left = <<"delete">>
      BY <1>5, <2>1, <2>2, Tuples
    <2> QED
      BY <2>1, <2>2
  <1>6. CASE c.work = "build"
    <2>1. LeftOf[c.work] = {<<"task", "waiting">>,
                            <<"waiting">>}
      BY <1>6 DEF LeftOf
    <2>2. CASE c.left = <<"task", "waiting">>
      BY <1>6, <2>1, <2>2, Tuples
    <2>3. CASE c.left = <<"waiting">>
      BY <1>6, <2>1, <2>3, Tuples
    <2> QED
      BY <2>1, <2>2, <2>3
  <1>7. CASE c.work = "worker"
    <2>1. LeftOf[c.work] = {<<"worker">>}
      BY <1>7 DEF LeftOf
    <2>2. CASE c.left = <<"worker">>
      BY <1>7, <2>1, <2>2, Tuples
    <2> QED
      BY <2>1, <2>2
  <1>8. CASE c.work = "block"
    <2>1. LeftOf[c.work] = {<<"blockPerson">>,
                            <<"blockPackage">>}
      BY <1>8 DEF LeftOf
    <2>2. CASE c.left = <<"blockPerson">>
      BY <1>8, <2>1, <2>2, Tuples
    <2>3. CASE c.left = <<"blockPackage">>
      BY <1>8, <2>1, <2>3, Tuples
    <2> QED
      BY <2>1, <2>2, <2>3
  <1>9. CASE c.work = "unblock"
    <2>1. LeftOf[c.work] = {<<"liftPerson">>,
                            <<"liftPackage">>}
      BY <1>9 DEF LeftOf
    <2>2. CASE c.left = <<"liftPerson">>
      BY <1>9, <2>1, <2>2, Tuples
    <2>3. CASE c.left = <<"liftPackage">>
      BY <1>9, <2>1, <2>3, Tuples
    <2> QED
      BY <2>1, <2>2, <2>3
  <1>10. CASE c.work = "updates"
    <2>1. LeftOf[c.work] = {<<"stale", "retire", "select", "release", "approved", "pending", "bump", "checked">>,
                            <<"retire", "select", "release", "approved", "pending", "bump", "checked">>,
                            <<"select", "release", "approved", "pending", "bump", "checked">>,
                            <<"release", "approved", "pending", "bump", "checked">>,
                            <<"approved", "pending", "bump", "checked">>,
                            <<"pending", "bump", "checked">>,
                            <<"bump", "checked">>,
                            <<"checked">>}
      BY <1>10 DEF LeftOf
    <2>2. CASE c.left = <<"stale", "retire", "select", "release", "approved", "pending", "bump", "checked">>
      BY <1>10, <2>1, <2>2, Tuples
    <2>3. CASE c.left = <<"retire", "select", "release", "approved", "pending", "bump", "checked">>
      BY <1>10, <2>1, <2>3, Tuples
    <2>4. CASE c.left = <<"select", "release", "approved", "pending", "bump", "checked">>
      BY <1>10, <2>1, <2>4, Tuples
    <2>5. CASE c.left = <<"release", "approved", "pending", "bump", "checked">>
      BY <1>10, <2>1, <2>5, Tuples
    <2>6. CASE c.left = <<"approved", "pending", "bump", "checked">>
      BY <1>10, <2>1, <2>6, Tuples
    <2>7. CASE c.left = <<"pending", "bump", "checked">>
      BY <1>10, <2>1, <2>7, Tuples
    <2>8. CASE c.left = <<"bump", "checked">>
      BY <1>10, <2>1, <2>8, Tuples
    <2>9. CASE c.left = <<"checked">>
      BY <1>10, <2>1, <2>9, Tuples
    <2> QED
      BY <2>1, <2>2, <2>3, <2>4, <2>5, <2>6, <2>7, <2>8, <2>9
  <1>11. c.work # "none"
    BY DEF LeftOf
  <1> QED
    BY <1>1, <1>2, <1>3, <1>4, <1>5, <1>6, <1>7, <1>8, <1>9, <1>10, <1>11 DEF Handler, LeftOf

LEMMA CallTyped == Call \in AnyCall
  <1>1. "none" \in Handler
    BY DEF Handler, LeftOf
  <1>2. <<>> \in Seq(Steps)
    BY Empty
  <1> QED
    BY <1>1, <1>2, ContributorsAssumption DEF Call, AnyCall

\* A handler that starts or goes on keeps the calls typed.
LEMMA StartTyped ==
  ASSUME TypeOK, NEW p \in Proc, NEW c \in AnyCall, Start(p, c)
  PROVE  calls' \in [Proc -> AnyCall]
  BY CallTyped DEF TypeOK, Start

LEMMA ThenTyped ==
  ASSUME TypeOK, NEW p \in Proc, ~Idle(p), Then(p)
  PROVE  calls' \in [Proc -> AnyCall]
  <1> DEFINE c == [calls[p] EXCEPT !.left = Tail(@)]
  <1>1. calls[p] \in AnyCall /\ calls[p].left # <<>>
    BY DEF TypeOK, Idle
  <1>2. Tail(calls[p].left) \in Seq(Steps)
    BY <1>1, Tails DEF AnyCall
  <1>3. c \in AnyCall
    BY <1>1, <1>2 DEF AnyCall
  <1> QED
    BY <1>3, StartTyped DEF Then

\* A handler about a name or a person.
LEMMA AboutTyped ==
  ASSUME NEW w \in Handler, NEW l \in Login, NEW n \in Name \cup Login,
         NEW s \in Seq(Steps)
  PROVE  /\ [Call EXCEPT !.work = w, !.who = l, !.name = n, !.left = s] \in AnyCall
         /\ [Call EXCEPT !.work = w, !.who = l, !.left = s] \in AnyCall
  BY CallTyped DEF AnyCall

\* What the handlers make of a row is a row.
LEMMA RowsTyped ==
  ASSUME TypeOK
  PROVE  /\ \A n \in Name, s \in Status :
               [packages EXCEPT ![n] = IF @ = None THEN @ ELSE [@ EXCEPT !.status = s]] \in [Name -> Row \cup {None}]
         /\ \A t \in DOMAIN tasks, s \in Open \cup {"failed", "cancelled"} :
               [tasks EXCEPT ![t].status = s] \in Seq(Task)
         /\ \A S : Cancelled(S) \in Seq(Task)
         /\ \A n \in Name, o \in Login, tag, bump \in 0 .. MaxTag : Build(n, o, tag, bump) \in Task
  <1>1. \A n \in Name : packages[n] # None => packages[n] \in Row
    BY DEF TypeOK
  <1>2. ASSUME NEW n \in Name, NEW s \in Status
        PROVE  [packages EXCEPT ![n] = IF @ = None THEN @ ELSE [@ EXCEPT !.status = s]] \in [Name -> Row \cup {None}]
    <2>1. packages[n] # None => [packages[n] EXCEPT !.status = s] \in Row
      BY <1>1 DEF Row
    <2> QED
      BY <2>1 DEF TypeOK
  <1>3. \A t \in DOMAIN tasks : tasks[t] \in Task
    BY Sequences DEF TypeOK
  <1>4. \A t \in DOMAIN tasks, s \in Open \cup {"failed", "cancelled"} : [tasks[t] EXCEPT !.status = s] \in Task
    BY <1>3 DEF Task
  <1>5. \A t \in DOMAIN tasks, s \in Open \cup {"failed", "cancelled"} : [tasks EXCEPT ![t].status = s] \in Seq(Task)
    BY <1>4, Sequences DEF TypeOK
  <1>6. \A S : Cancelled(S) \in Seq(Task)
    <2>1. \A S : Cancelled(S) \in [DOMAIN tasks -> Task]
      BY <1>3, <1>4 DEF Cancelled
    <2> QED
      BY <2>1, Sequences DEF TypeOK
  <1>7. \A n \in Name, o \in Login, tag, bump \in 0 .. MaxTag : Build(n, o, tag, bump) \in Task
    BY DEF Build, Task, Open
  <1> QED
    BY <1>2, <1>5, <1>6, <1>7

-----------------------------------------------------------------------------
\* The calls after a handler's step: the others are where they were, and who
\* has signed in stays.
LEMMA StartFits ==
  ASSUME TypeOK, CallsFit, NEW p \in Proc, NEW c, Start(p, c),
         c.left # <<>> => Fits(c, contributors'),
         \A l \in Login : contributors[l] # None => contributors'[l] # None
  PROVE  CallsFit'
  <1> SUFFICES ASSUME NEW q \in Proc, ~(Idle(q)')
               PROVE  Fits(calls'[q], contributors')
    BY DEF CallsFit
  <1>1. CASE q = p
    <2>1. calls'[p] = IF c.left = <<>> THEN Call ELSE c
      BY DEF Start, TypeOK
    <2>2. Call.left = <<>>
      BY DEF Call
    <2> QED
      BY <1>1, <2>1, <2>2 DEF Idle
  <1>2. CASE q # p
    <2>1. calls'[q] = calls[q]
      BY <1>2 DEF Start, TypeOK
    <2>2. Fits(calls[q], contributors)
      BY <2>1 DEF Idle, CallsFit
    <2> HIDE DEF CallsFit
    <2> QED
      BY <2>1, <2>2 DEF Fits
  <1> QED
    BY <1>1, <1>2

LEMMA ThenFits ==
  ASSUME TypeOK, CallsFit, NEW p \in Proc, ~Idle(p), Then(p), calls[p].work # "updates",
         \A l \in Login : contributors[l] # None => contributors'[l] # None
  PROVE  CallsFit'
  <1> DEFINE c == [calls[p] EXCEPT !.left = Tail(@)]
  <1>1. /\ calls[p] \in AnyCall /\ Fits(calls[p], contributors)
        /\ calls[p].left \in LeftOf[calls[p].work] /\ calls[p].work \in Handler
    BY DEF TypeOK, CallsFit, Fits, AnyCall
  <1>2. /\ c.left = Tail(calls[p].left) /\ c.work = calls[p].work /\ c.who = calls[p].who /\ c.role = calls[p].role
        /\ c.file = calls[p].file /\ c.todo = calls[p].todo /\ c.name = calls[p].name
        /\ c.project = calls[p].project
    BY <1>1 DEF AnyCall
  <1> HIDE DEF c
  <1>3. ASSUME c.left # <<>>
        PROVE  Fits(c, contributors')
    <2>1. c.left \in LeftOf[c.work] /\ c.work \notin {"block", "unblock"}
      BY <1>1, <1>2, <1>3, Leads
    <2>2. c.left \notin {<<"blockPerson">>, <<"liftPerson">>, <<"blockPackage">>, <<"liftPackage">>}
      <3>1. /\ Head(c.left) \in {"blockPerson", "blockPackage"} => c.work = "block"
            /\ Head(c.left) \in {"liftPerson", "liftPackage"} => c.work = "unblock"
        BY <1>1, <1>2, <2>1, Leads
      <3> QED
        BY <2>1, <3>1, Tuples
    <2> QED
      BY <1>1, <1>2, <2>1, <2>2 DEF Fits
  <1> QED
    BY <1>3, StartFits DEF Then, c

\* What a step finds when it is next in a handler.
LEMMA OfHandler ==
  ASSUME TypeOK, CallsFit, NEW p \in Proc, NEW s, At(p, s)
  PROVE  /\ ~Idle(p) /\ calls[p] \in AnyCall /\ calls[p].work \in Handler /\ Head(calls[p].left) = s
         /\ Fits(calls[p], contributors) /\ calls[p].left \in LeftOf[calls[p].work]
  BY DEF At, Idle, CallsFit, TypeOK, Fits, AnyCall

\* A handler that begins with the call c and changes nothing else.
LEMMA Begins ==
  ASSUME Inv, NEW p \in Proc, NEW c \in AnyCall, Start(p, c), Fits(c, contributors), Asks
  PROVE  Inv'
  <1>1. calls' \in [Proc -> AnyCall]
    BY StartTyped DEF Inv
  <1>2. CallsFit'
    BY StartFits DEF Inv, Asks, roles
  <1> QED
    BY <1>1, <1>2 DEF Inv, TypeOK, Asks, roles, world, record

LEMMA StepsTyped ==
  /\ <<"upsert">> \in Seq(Steps) /\ <<"worker">> \in Seq(Steps) /\ <<"delete">> \in Seq(Steps)
  /\ <<"waiting">> \in Seq(Steps) /\ <<"task", "waiting">> \in Seq(Steps)
  /\ <<"blockPerson">> \in Seq(Steps) /\ <<"blockPackage">> \in Seq(Steps)
  /\ <<"liftPerson">> \in Seq(Steps) /\ <<"liftPackage">> \in Seq(Steps)
  /\ RequestSteps \in Seq(Steps) /\ <<"request", "record", "sign", "adopt">> \in Seq(Steps)
  /\ <<"list", "people", "roles">> \in Seq(Steps) /\ <<"stale", "retire", "select", "release", "approved", "pending", "bump", "checked">> \in Seq(Steps)
  <1>1. <<"upsert">> \in Seq(Steps) /\ <<"worker">> \in Seq(Steps) /\ <<"delete">> \in Seq(Steps)
    BY DEF Steps
  <1>2. <<"waiting">> \in Seq(Steps) /\ <<"task", "waiting">> \in Seq(Steps)
    BY DEF Steps
  <1>3. <<"blockPerson">> \in Seq(Steps) /\ <<"blockPackage">> \in Seq(Steps)
    BY DEF Steps
  <1>4. <<"liftPerson">> \in Seq(Steps) /\ <<"liftPackage">> \in Seq(Steps)
    BY DEF Steps
  <1>5. RequestSteps \in Seq(Steps)
    BY DEF RequestSteps, Steps
  <1>6. <<"request", "record", "sign", "adopt">> \in Seq(Steps)
    BY DEF Steps
  <1>7. <<"list", "people", "roles">> \in Seq(Steps)
    BY DEF Steps
  <1>8. <<"stale", "retire", "select", "release", "approved", "pending", "bump", "checked">> \in Seq(Steps)
    BY DEF Steps
  <1> QED
    BY <1>1, <1>2, <1>3, <1>4, <1>5, <1>6, <1>7, <1>8

\* A handler that begins about a package or a person.
LEMMA AboutInv ==
  ASSUME Inv, NEW p \in Proc, NEW w \in {"delete", "build", "block", "unblock"}, NEW l \in Login,
         NEW n \in Name \cup Login, NEW s \in LeftOf[w], s \in Seq(Steps),
         Start(p, [Call EXCEPT !.work = w, !.who = l, !.name = n, !.left = s]), Asks,
         \/ s \in {<<"blockPerson">>, <<"liftPerson">>} /\ n \in Login /\ contributors[n] # None
         \/ s \notin {<<"blockPerson">>, <<"liftPerson">>} /\ n \in Name
  PROVE  Inv'
  <1> DEFINE c == [Call EXCEPT !.work = w, !.who = l, !.name = n, !.left = s]
  <1>1. w \in Handler
    BY DEF Handler, LeftOf
  <1>2. c \in AnyCall
    BY <1>1, AboutTyped
  <1>3. c.work = w /\ c.who = l /\ c.name = n /\ c.left = s
    BY CallTyped DEF AnyCall
  <1> HIDE DEF c
  <1>4. s \in {<<"blockPackage">>, <<"liftPackage">>} => s \notin {<<"blockPerson">>, <<"liftPerson">>}
    BY Tuples
  <1>5. w \in {"delete", "build"} => s \notin {<<"blockPerson">>, <<"liftPerson">>}
    BY Tuples DEF LeftOf
  <1>6. Fits(c, contributors)
    BY <1>3, <1>4, <1>5 DEF Fits
  <1> QED
    BY <1>2, <1>6, Begins DEF c

LEMMA RequestsInv ==
  ASSUME Inv, NEW p \in Proc, Requests(p)
  PROVE  Inv'
  <1>1. ASSUME NEW l \in Login, SignIn(p, l)
        PROVE  Inv'
    <2> DEFINE c == [Call EXCEPT !.work = "signIn", !.who = l, !.role = roleFor(l), !.left = <<"upsert">>]
    <2>1. c \in AnyCall
      BY StepsTyped, CallTyped DEF AnyCall, Handler, LeftOf, roleFor
    <2>2. Fits(c, contributors)
      <3>1. /\ c.work = "signIn" /\ c.who = l /\ c.role \in {"maintainer", "contributor"}
            /\ c.left = <<"upsert">>
        BY CallTyped DEF AnyCall, roleFor
      <3>2. LeftOf["signIn"] = {<<"upsert">>}
        BY DEF LeftOf
      <3> HIDE DEF c
      <3> QED
        BY <3>1, <3>2, Tuples DEF Fits
    <2> QED
      BY <1>1, <2>1, <2>2, Begins DEF SignIn
  <1>2. ASSUME NEW l \in Login, RegisterWorker(p, l)
        PROVE  Inv'
    <2> DEFINE c == [Call EXCEPT !.work = "worker", !.who = l, !.left = <<"worker">>]
    <2>1. c \in AnyCall
      <3>1. "worker" \in Handler
        BY DEF Handler, LeftOf
      <3> QED
        BY <3>1, StepsTyped, AboutTyped
    <2>2. Fits(c, contributors)
      <3>1. c.work = "worker" /\ c.who = l /\ c.left = <<"worker">>
        BY CallTyped DEF AnyCall
      <3>2. LeftOf["worker"] = {<<"worker">>}
        BY DEF LeftOf
      <3> HIDE DEF c
      <3> QED
        BY <3>1, <3>2, Tuples DEF Fits
    <2> QED
      BY <1>2, <2>1, <2>2, Begins DEF RegisterWorker, Ask
  <1>3. ASSUME NEW l \in Login, NEW n \in Name, DeletePackage(p, l, n)
        PROVE  Inv'
    <2>1. <<"delete">> \in LeftOf["delete"] /\ <<"delete">> \notin {<<"blockPerson">>, <<"liftPerson">>}
      BY Tuples DEF LeftOf
    <2> QED
      BY <1>3, <2>1, StepsTyped, AboutInv DEF DeletePackage, About
  <1>4. ASSUME NEW l \in Login, NEW n \in Name, BuildPackage(p, l, n)
        PROVE  Inv'
    <2>1. /\ <<"waiting">> \in LeftOf["build"] /\ <<"task", "waiting">> \in LeftOf["build"]
          /\ <<"waiting">> \notin {<<"blockPerson">>, <<"liftPerson">>}
          /\ <<"task", "waiting">> \notin {<<"blockPerson">>, <<"liftPerson">>}
      BY Tuples DEF LeftOf
    <2>2. \/ About(p, "build", l, n, <<"waiting">>) /\ Asks
          \/ About(p, "build", l, n, <<"task", "waiting">>) /\ Asks
      BY <1>4 DEF BuildPackage
    <2> QED
      BY <2>1, <2>2, StepsTyped, AboutInv DEF About
  <1>5. ASSUME NEW l \in Login, NEW n \in Name, BlockPackage(p, l, n)
        PROVE  Inv'
    <2>1. <<"blockPackage">> \in LeftOf["block"] /\ <<"blockPackage">> \notin {<<"blockPerson">>, <<"liftPerson">>}
      BY Tuples DEF LeftOf
    <2> QED
      BY <1>5, <2>1, StepsTyped, AboutInv DEF BlockPackage, About
  <1>6. ASSUME NEW l \in Login, NEW n \in Name, UnblockPackage(p, l, n)
        PROVE  Inv'
    <2>1. <<"liftPackage">> \in LeftOf["unblock"] /\ <<"liftPackage">> \notin {<<"blockPerson">>, <<"liftPerson">>}
      BY Tuples DEF LeftOf
    <2> QED
      BY <1>6, <2>1, StepsTyped, AboutInv DEF UnblockPackage, About
  <1>7. ASSUME NEW l \in Login, NEW n \in Name, NEW u \in Url, RequestPackage(p, l, n, u)
        PROVE  Inv'
    <2> DEFINE j == parseProjectUrl(u).project
               tag == IF parseProjectUrl(u).tag # 0 THEN parseProjectUrl(u).tag ELSE detect(j)
               c == [Call EXCEPT !.work = "request", !.who = l, !.name = n, !.project = j, !.tag = tag,
                                 !.left = RequestSteps]
    <2>1. j \in Project /\ parseProjectUrl(u).tag \in 0 .. MaxTag
      BY ContributorsAssumption DEF parseProjectUrl
    <2>2. tag \in 0 .. MaxTag
      BY <2>1, ContributorsAssumption DEF Inv, TypeOK, detect
    <2>3. Start(p, c) /\ Asks
      BY <1>7 DEF RequestPackage
    <2> HIDE DEF j, tag
    <2>4. c \in AnyCall
      BY <2>1, <2>2, CallTyped, StepsTyped DEF AnyCall, Handler, LeftOf
    <2>5. c.work = "request" /\ c.who = l /\ c.name = n /\ c.project = j /\ c.left = RequestSteps
      BY CallTyped DEF AnyCall
    <2> HIDE DEF c
    <2>6. Fits(c, contributors)
      BY <2>1, <2>5, Tuples DEF Fits, LeftOf, RequestSteps
    <2> QED
      BY <2>3, <2>4, <2>6, Begins
  <1>8. ASSUME NEW l \in Login, NEW w \in DOMAIN workers, RevokeWorker(p, l, w)
        PROVE  Inv'
    <2>1. workers[w] \in Host
      BY Sequences DEF Inv, TypeOK
    <2>2. [workers[w] EXCEPT !.revoked = TRUE] \in Host
      BY <2>1 DEF Host
    <2>3. workers' \in Seq(Host)
      BY <1>8, <2>2, Sequences DEF RevokeWorker, Inv, TypeOK
    <2>4. CallsFit'
      BY <1>8 DEF RevokeWorker, roles, Inv, CallsFit, Idle
    <2> QED
      BY <1>8, <2>3, <2>4 DEF RevokeWorker, Inv, TypeOK, roles, world, record
  <1>9. ASSUME NEW l \in Login, NEW o \in Login, BlockContributor(p, l, o)
        PROVE  Inv'
    <2>1. <<"blockPerson">> \in LeftOf["block"] /\ contributors[o] # None
      BY <1>9, Tuples DEF LeftOf, BlockContributor, SignedIn
    <2> QED
      BY <1>9, <2>1, StepsTyped, AboutInv DEF BlockContributor
  <1>10. ASSUME NEW l \in Login, NEW o \in Login, UnblockContributor(p, l, o)
        PROVE  Inv'
    <2>1. <<"liftPerson">> \in LeftOf["unblock"] /\ contributors[o] # None
      BY <1>10, Tuples DEF LeftOf, UnblockContributor, SignedIn, Blocked
    <2> QED
      BY <1>10, <2>1, StepsTyped, AboutInv DEF UnblockContributor
  <1> QED
    BY <1>1, <1>2, <1>3, <1>4, <1>5, <1>6, <1>7, <1>8, <1>9, <1>10 DEF Requests

LEMMA TickInv ==
  ASSUME Inv, NEW p \in Proc, Tick(p)
  PROVE  Inv'
  <1>1. ASSUME SyncGovernance(p)
        PROVE  Inv'
    <2> DEFINE c == [Call EXCEPT !.work = "governance", !.file = main, !.left = <<"list", "people", "roles">>]
    <2>1. main \in Nat
      BY ContributorsAssumption DEF Inv, TypeOK
    <2>2. c \in AnyCall
      BY <2>1, CallTyped, StepsTyped DEF AnyCall, Handler, LeftOf
    <2>3. c.work = "governance" /\ c.file = main /\ c.left = <<"list", "people", "roles">> /\ c.todo = {}
      BY CallTyped DEF AnyCall, Call
    <2> HIDE DEF c
    <2>4. Fits(c, contributors)
      BY <2>3, Tuples DEF Fits, LeftOf, Inv, TypeOK
    <2>5. Start(p, c) /\ Asks
      BY <1>1 DEF SyncGovernance, c
    <2> QED
      BY <2>2, <2>4, <2>5, Begins
  <1>2. ASSUME CheckUpdates(p)
        PROVE  Inv'
    <2> DEFINE c == [Call EXCEPT !.work = "updates", !.left = <<"stale", "retire", "select", "release", "approved", "pending", "bump", "checked">>]
    <2>1. c \in AnyCall
      BY CallTyped, StepsTyped DEF AnyCall, Handler, LeftOf
    <2>2. c.work = "updates" /\ c.todo = {} /\ c.left = <<"stale", "retire", "select", "release", "approved", "pending", "bump", "checked">>
      BY CallTyped DEF AnyCall, Call
    <2>3. Start(p, c) /\ Asks
      BY <1>2 DEF CheckUpdates
    <2> HIDE DEF c
    <2>4. Fits(c, contributors)
      BY <2>2, Tuples DEF Fits, LeftOf
    <2> QED
      BY <2>1, <2>3, <2>4, Begins
  <1>3. ASSUME NEW n \in Name, Backfill(p, n)
        PROVE  Inv'
    <2> DEFINE c == [Call EXCEPT !.work = "backfill", !.who = packages[n].owner, !.name = n,
                                 !.project = packages[n].project, !.tag = packages[n].tag,
                                 !.left = <<"request", "record", "sign", "adopt">>]
    <2>1. packages[n] \in Row
      BY <1>3 DEF Backfill, Registered, Inv, TypeOK
    <2>2. packages[n].owner \in Login /\ packages[n].project \in Project /\ packages[n].tag \in 0 .. MaxTag
      BY <2>1 DEF Row
    <2>3. c \in AnyCall
      BY <2>2, CallTyped, StepsTyped DEF AnyCall, Handler, LeftOf
    <2>4. /\ c.work = "backfill" /\ c.name = n /\ c.who = packages[n].owner /\ c.project = packages[n].project
          /\ c.left = <<"request", "record", "sign", "adopt">>
      BY CallTyped DEF AnyCall
    <2>5. Start(p, c) /\ Asks
      BY <1>3 DEF Backfill
    <2> HIDE DEF c
    <2>6. Fits(c, contributors)
      BY <2>2, <2>4, Tuples DEF Fits, LeftOf
    <2> QED
      BY <2>3, <2>5, <2>6, Begins
  <1> QED
    BY <1>1, <1>2, <1>3 DEF Tick

-----------------------------------------------------------------------------
\* The writes, one by one.
LEMMA PersonIsSomebody == None \notin Person
  BY ContributorsAssumption DEF Person

LEMMA PeopleTyped ==
  ASSUME TypeOK
  PROVE  \A l \in Login : contributors[l] # None => /\ contributors[l] \in Person
                                                    /\ contributors[l].by \in Login \cup {None}
  BY DEF TypeOK, Person

LEMMA UpsertInv ==
  ASSUME Inv, NEW p \in Proc, Upsert(p)
  PROVE  Inv'
  <1> DEFINE c == calls[p]
             r == [role |-> c.role, by |-> IF c.who \in SignedIn THEN contributors[c.who].by ELSE None]
  <1>1. ~Idle(p) /\ c.work = "signIn" /\ c.who \in Login /\ c.role \in {"maintainer", "contributor"}
    BY OfHandler, Leads DEF Upsert, Inv, Fits
  <1>2. (IF c.who \in SignedIn THEN contributors[c.who].by ELSE None) \in Login \cup {None}
    BY <1>1, PeopleTyped DEF Inv, SignedIn
  <1>3. r \in Person
    BY <1>1, <1>2 DEF Person
  <1>4. contributors' = [contributors EXCEPT ![c.who] = r] /\ Then(p)
    BY DEF Upsert
  <1> HIDE DEF r
  <1>5. contributors' \in [Login -> Person \cup {None}]
    BY <1>3, <1>4 DEF Inv, TypeOK
  <1>6. \A l \in Login : contributors[l] # None => contributors'[l] # None
    BY <1>1, <1>3, <1>4, PersonIsSomebody DEF Inv, TypeOK
  <1>7. CallsFit' /\ calls' \in [Proc -> AnyCall]
    BY <1>1, <1>4, <1>6, ThenFits, ThenTyped DEF Inv
  <1> QED
    BY <1>5, <1>7 DEF Inv, TypeOK, Upsert, world, record

LEMMA ListInv ==
  ASSUME Inv, NEW p \in Proc, List(p)
  PROVE  Inv'
  <1>1. ~Idle(p) /\ calls[p].file \in DOMAIN File /\ calls[p].work # "updates"
    BY OfHandler, Leads DEF List, Inv, Fits
  <1>2. File[calls[p].file] \subseteq Login
    BY <1>1, ContributorsAssumption
  <1>3. CallsFit' /\ calls' \in [Proc -> AnyCall]
    BY <1>1, ThenFits, ThenTyped DEF Inv, List
  <1> QED
    BY <1>1, <1>2, <1>3 DEF Inv, TypeOK, List, world, record

LEMMA PeopleInv ==
  ASSUME Inv, NEW p \in Proc, People(p)
  PROVE  Inv'
  <1> DEFINE S == Changing(calls[p].file)
             c == [calls[p] EXCEPT !.todo = S, !.left = Tail(@)]
  <1>1. /\ calls[p].work = "governance" /\ calls[p].file \in DOMAIN File /\ Tail(calls[p].left) = <<"roles">>
        /\ calls[p] \in AnyCall
    BY OfHandler, Leads DEF People, Inv, Fits
  <1>2. S \subseteq Login /\ \A l \in S : contributors[l] # None
    BY DEF Changing, SignedIn
  <1> HIDE DEF S
  <1>3. c.work = "governance" /\ c.file = calls[p].file /\ c.todo = S /\ c.left = <<"roles">>
    BY <1>1 DEF AnyCall
  <1>4. <<"roles">> \in Seq(Steps)
    BY DEF Steps
  <1>5. c \in AnyCall
    BY <1>1, <1>2, <1>4 DEF AnyCall
  <1>6. Start(p, c) /\ Asks
    BY DEF People, S
  <1> HIDE DEF c
  <1>7. Fits(c, contributors)
    BY <1>1, <1>2, <1>3, Tuples DEF Fits, LeftOf
  <1> QED
    BY <1>5, <1>6, <1>7, Begins

LEMMA RoleInv ==
  ASSUME Inv, NEW p \in Proc, Role(p)
  PROVE  Inv'
  <1>1. /\ calls[p].work = "governance" /\ calls[p].file \in DOMAIN File /\ calls[p] \in AnyCall /\ ~Idle(p)
        /\ Fits(calls[p], contributors)
    BY OfHandler, Leads DEF Role, Inv, Fits
  <1>2. CASE calls[p].todo = {} /\ Then(p) /\ UNCHANGED contributors
    <2>1. CallsFit' /\ calls' \in [Proc -> AnyCall]
      BY <1>1, <1>2, ThenFits, ThenTyped DEF Inv
    <2> QED
      BY <1>2, <2>1 DEF Inv, TypeOK, Role, world, record
  <1>3. ASSUME NEW l \in calls[p].todo,
               contributors' = [contributors EXCEPT ![l].role =
                                  IF l \in File[calls[p].file] THEN "maintainer" ELSE "contributor"],
               Start(p, [calls[p] EXCEPT !.todo = @ \ {l}])
        PROVE  Inv'
    <2> DEFINE c == [calls[p] EXCEPT !.todo = @ \ {l}]
    <2>1. l \in Login /\ contributors[l] # None /\ contributors[l] \in Person
      BY <1>1, PeopleTyped DEF Fits, Inv
    <2>2. \A x \in {"maintainer", "contributor"} : [contributors[l] EXCEPT !.role = x] \in Person
      BY <2>1 DEF Person
    <2>3. contributors' \in [Login -> Person \cup {None}]
      BY <1>3, <2>1, <2>2 DEF Inv, TypeOK
    <2>4. \A m \in Login : contributors[m] # None => contributors'[m] # None
      BY <1>3, <2>1, <2>2, PersonIsSomebody DEF Inv, TypeOK
    <2>5. c \in AnyCall
      BY <1>1 DEF AnyCall
    <2>6. /\ c.work = "governance" /\ c.file = calls[p].file /\ c.left = calls[p].left
          /\ c.todo = calls[p].todo \ {l}
      BY <1>1 DEF AnyCall
    <2>7. Start(p, c)
      BY <1>3
    <2> HIDE DEF c
    <2>8. Fits(c, contributors')
      <3>1. \A m \in c.todo : m \in Login /\ contributors'[m] # None
        BY <1>1, <2>4, <2>6 DEF Fits
      <3>2. c.left \in LeftOf[c.work] /\ c.left \notin {<<"blockPerson">>, <<"liftPerson">>, <<"blockPackage">>,
                                                        <<"liftPackage">>}
        BY <1>1, <2>6, Tuples DEF Fits, LeftOf
      <3> QED
        BY <1>1, <2>6, <3>1, <3>2 DEF Fits
    <2>9. CallsFit' /\ calls' \in [Proc -> AnyCall]
      BY <2>4, <2>5, <2>7, <2>8, StartFits, StartTyped DEF Inv
    <2> QED
      BY <2>3, <2>9 DEF Inv, TypeOK, Role, world, record
  <1> QED
    BY <1>2, <1>3 DEF Role

\* The writes of a request.
LEMMA InsertRequestInv ==
  ASSUME Inv, NEW p \in Proc, InsertRequest(p)
  PROVE  Inv'
  <1> DEFINE r == [name |-> calls[p].name, owner |-> calls[p].who, project |-> calls[p].project,
                   migrated |-> calls[p].work = "backfill", record |-> FALSE]
             c == [calls[p] EXCEPT !.id = Len(requests) + 1, !.left = Tail(@)]
  <1>1. /\ calls[p].work \in {"request", "backfill"} /\ calls[p] \in AnyCall /\ ~Idle(p)
        /\ Fits(calls[p], contributors) /\ calls[p].left \in LeftOf[calls[p].work]
        /\ Tail(calls[p].left) # <<>> /\ Tail(calls[p].left) \in LeftOf[calls[p].work]
    BY OfHandler, Leads DEF InsertRequest, Inv
  <1>2. r \in Request
    BY <1>1 DEF Fits, Request
  <1>3. Len(requests) + 1 \in Nat /\ Tail(calls[p].left) \in Seq(Steps)
    BY <1>1, Tails, Sequences DEF Inv, TypeOK, AnyCall, Idle
  <1>4. c \in AnyCall
    BY <1>1, <1>3 DEF AnyCall
  <1>5. /\ c.work = calls[p].work /\ c.who = calls[p].who /\ c.name = calls[p].name /\ c.project = calls[p].project
        /\ c.left = Tail(calls[p].left)
    BY <1>1 DEF AnyCall
  <1>6. Start(p, c) /\ requests' = Append(requests, r)
    BY DEF InsertRequest
  <1> HIDE DEF c, r
  <1>7. c.left \notin {<<"blockPerson">>, <<"liftPerson">>, <<"blockPackage">>, <<"liftPackage">>}
    <2>1. CASE calls[p].work = "request"
      BY <1>1, <1>5, <2>1, Tuples DEF LeftOf, RequestSteps
    <2>2. CASE calls[p].work = "backfill"
      BY <1>1, <1>5, <2>2, Tuples DEF LeftOf
    <2> QED
      BY <1>1, <2>1, <2>2
  <1>8. Fits(c, contributors)
    BY <1>1, <1>5, <1>7 DEF Fits
  <1>9. CallsFit' /\ calls' \in [Proc -> AnyCall]
    BY <1>4, <1>6, <1>8, StartFits, StartTyped DEF Inv, InsertRequest, roles
  <1>10. requests' \in Seq(Request)
    BY <1>2, <1>6, Sequences DEF Inv, TypeOK
  <1> QED
    BY <1>9, <1>10 DEF Inv, TypeOK, InsertRequest, roles, world

LEMMA RecordInv ==
  ASSUME Inv, NEW p \in Proc, PutRecord(p) \/ SignRecord(p)
  PROVE  Inv'
  <1>1. calls[p].id \in Nat /\ ~Idle(p) /\ calls[p].work # "updates"
    BY OfHandler, Leads DEF PutRecord, SignRecord, Inv, AnyCall
  <1>2. CallsFit' /\ calls' \in [Proc -> AnyCall]
    BY <1>1, ThenFits, ThenTyped DEF Inv, PutRecord, SignRecord, roles
  <1>3. bucket' \subseteq Nat \X {"request.json", "request.json.sig"}
    BY <1>1 DEF PutRecord, SignRecord, Inv, TypeOK
  <1> QED
    BY <1>2, <1>3 DEF Inv, TypeOK, PutRecord, SignRecord, roles, world

\* A row's pointer to its record: the row stays what it is.
LEMMA Pointed ==
  ASSUME TypeOK, NEW i, requests' = [requests EXCEPT ![i].record = TRUE]
  PROVE  /\ requests' \in Seq(Request) /\ Len(requests') = Len(requests)
         /\ \A j \in DOMAIN requests :
              /\ requests'[j].name = requests[j].name /\ requests'[j].owner = requests[j].owner
              /\ requests'[j].project = requests[j].project /\ requests'[j].migrated = requests[j].migrated
              /\ requests[j].record => requests'[j].record
              /\ j = i => requests'[j].record
  <1>1. \A j \in DOMAIN requests : requests[j] \in Request
    BY Sequences DEF TypeOK
  <1>2. \A j \in DOMAIN requests : [requests[j] EXCEPT !.record = TRUE] \in Request
    BY <1>1 DEF Request
  <1>3. CASE i \notin DOMAIN requests
    <2>1. requests' = requests
      <3>1. requests \in [DOMAIN requests -> Request]
        BY <1>1 DEF TypeOK
      <3> QED
        BY <1>3, <3>1
    <2> QED
      BY <1>3, <2>1 DEF TypeOK
  <1>4. CASE i \in DOMAIN requests
    <2> DEFINE r == [requests[i] EXCEPT !.record = TRUE]
    <2>1. requests' = [requests EXCEPT ![i] = r]
      OBVIOUS
    <2>2. r \in Request
      BY <1>2, <1>4
    <2>3. /\ r.name = requests[i].name /\ r.owner = requests[i].owner /\ r.project = requests[i].project
          /\ r.migrated = requests[i].migrated /\ r.record
      BY <1>1, <1>4 DEF Request
    <2> HIDE DEF r
    <2>4. requests' \in Seq(Request)
      <3>1. \A j \in DOMAIN requests, x \in Request : [requests EXCEPT ![j] = x] \in Seq(Request)
        BY Sequences DEF TypeOK
      <3> QED
        BY <1>4, <2>1, <2>2, <3>1
    <2>5. \A j \in DOMAIN requests : requests'[j] = IF j = i THEN r ELSE requests[j]
      BY <2>1
    <2>6. Len(requests') = Len(requests)
      BY <2>1 DEF TypeOK
    <2> QED
      BY <2>3, <2>4, <2>5, <2>6
  <1> QED
    BY <1>3, <1>4

LEMMA PointInv ==
  ASSUME Inv, NEW p \in Proc, Point(p)
  PROVE  Inv'
  <1>1. ~Idle(p) /\ calls[p].work # "updates"
    BY OfHandler, Leads DEF Point, Inv
  <1>2. CallsFit' /\ calls' \in [Proc -> AnyCall]
    BY <1>1, ThenFits, ThenTyped DEF Inv, Point, roles
  <1>3. requests' \in Seq(Request)
    BY Pointed DEF Inv, Point
  <1> QED
    BY <1>2, <1>3 DEF Inv, TypeOK, Point, roles, world

\* What a registration becomes, by the writes that know its owner and project.
LEMMA RegisterInv ==
  ASSUME Inv, NEW p \in Proc, Register(p)
  PROVE  Inv'
  <1> DEFINE c == calls[p]
             new == Registration(c.who, c.project, "registered", c.id, c.tag)
  <1>1. /\ ~Idle(p) /\ c \in AnyCall /\ c.work = "request"
        /\ c.who \in Login /\ c.name \in Name /\ c.project \in Project
    BY OfHandler, Leads DEF Register, Inv, Fits
  <1>2. new \in Row
    BY <1>1 DEF Registration, Row, Status, AnyCall
  <1>3. ASSUME packages[c.name] # None
        PROVE  [new EXCEPT !.owner = packages[c.name].owner, !.by = packages[c.name].by] \in Row
    <2>1. packages[c.name] \in Row
      BY <1>1, <1>3 DEF Inv, TypeOK
    <2>2. packages[c.name].owner \in Login /\ packages[c.name].by \in Login \cup {None}
      BY <2>1 DEF Row
    <2> HIDE DEF new
    <2>3. [new EXCEPT !.owner = packages[c.name].owner] \in Row
      BY <1>2, <2>2 DEF Row
    <2> QED
      BY <1>2, <2>2, <2>3 DEF Row
  <1>4. packages' \in [Name -> Row \cup {None}]
    BY <1>1, <1>2, <1>3 DEF Register, Inv, TypeOK
  <1>5. CallsFit' /\ calls' \in [Proc -> AnyCall]
    BY <1>1, ThenFits, ThenTyped DEF Inv, Register, roles
  <1> QED
    BY <1>4, <1>5 DEF Inv, TypeOK, Register, roles, world, record

LEMMA AdoptInv ==
  ASSUME Inv, NEW p \in Proc, Adopt(p)
  PROVE  Inv'
  <1> DEFINE c == calls[p]
  <1>1. /\ ~Idle(p) /\ c \in AnyCall /\ c.work = "backfill"
        /\ c.who \in Login /\ c.name \in Name /\ c.project \in Project
    BY OfHandler, Leads DEF Adopt, Inv, Fits
  <1>2. ASSUME packages[c.name] # None
        PROVE  [packages[c.name] EXCEPT !.request = c.id, !.project = c.project] \in Row
    <2>1. packages[c.name] \in Row
      BY <1>1, <1>2 DEF Inv, TypeOK
    <2>2. [packages[c.name] EXCEPT !.request = c.id] \in Row
      BY <1>1, <2>1 DEF Row, AnyCall
    <2> QED
      BY <1>1, <2>2 DEF Row
  <1>3. packages' \in [Name -> Row \cup {None}]
    BY <1>1, <1>2 DEF Adopt, Inv, TypeOK
  <1>4. requests' \in Seq(Request)
    BY Pointed DEF Inv, Adopt
  <1>5. CallsFit' /\ calls' \in [Proc -> AnyCall]
    BY <1>1, ThenFits, ThenTyped DEF Inv, Adopt, roles
  <1> QED
    BY <1>3, <1>4, <1>5 DEF Inv, TypeOK, Adopt, roles, world

\* A status that changes, for packages of whoever they are.
LEMMA DeleteInv ==
  ASSUME Inv, NEW p \in Proc, Delete(p)
  PROVE  Inv'
  <1>1. ~Idle(p) /\ calls[p].work # "updates"
    BY OfHandler, Leads DEF Delete, Inv
  <1>2. CallsFit' /\ calls' \in [Proc -> AnyCall]
    BY <1>1, ThenFits, ThenTyped DEF Inv, Delete, roles
  <1>3. tasks' \in Seq(Task)
    BY RowsTyped DEF Delete, Inv
  <1>4. packages' \in [Name -> Row \cup {None}]
    BY DEF Delete, Inv, TypeOK
  <1> QED
    BY <1>2, <1>3, <1>4 DEF Inv, TypeOK, Delete, roles, world, record

LEMMA WaitingTyped ==
  ASSUME TypeOK, NEW n \in Name
  PROVE  Waiting(n) \in [Name -> Row \cup {None}]
  BY RowsTyped DEF Waiting, Status

LEMMA BuildsInv ==
  ASSUME Inv, NEW p \in Proc, InsertTask(p) \/ SetWaiting(p) \/ InsertWorker(p)
  PROVE  Inv'
  <1>1. CASE InsertTask(p)
    <2> DEFINE n == calls[p].name
               b == Build(n, calls[p].who, IF packages[n] = None THEN 0 ELSE packages[n].tag, 0)
    <2>1. ~Idle(p) /\ n \in Name /\ calls[p].who \in Login /\ calls[p].work # "updates"
      BY <1>1, OfHandler, Leads DEF InsertTask, Inv, Fits
    <2>2. (IF packages[n] = None THEN 0 ELSE packages[n].tag) \in 0 .. MaxTag
      <3>1. packages[n] # None => packages[n] \in Row
        BY <2>1 DEF Inv, TypeOK
      <3> QED
        BY <3>1, ContributorsAssumption DEF Row
    <2>3. 0 \in 0 .. MaxTag
      BY ContributorsAssumption
    <2>4. b \in Task
      BY <2>1, <2>2, <2>3, RowsTyped DEF Inv
    <2>5. tasks' = Append(tasks, b)
      BY <1>1 DEF InsertTask
    <2> HIDE DEF b
    <2>6. tasks' \in Seq(Task)
      BY <2>4, <2>5, Sequences DEF Inv, TypeOK
    <2>7. CallsFit' /\ calls' \in [Proc -> AnyCall]
      BY <1>1, <2>1, ThenFits, ThenTyped DEF Inv, InsertTask, roles
    <2> QED
      BY <1>1, <2>6, <2>7 DEF Inv, TypeOK, InsertTask, roles, world, record
  <1>2. CASE SetWaiting(p)
    <2>1. ~Idle(p) /\ calls[p].name \in Name /\ calls[p].work # "updates"
      BY <1>2, OfHandler, Leads DEF SetWaiting, Inv, Fits
    <2>2. CallsFit' /\ calls' \in [Proc -> AnyCall]
      BY <1>2, <2>1, ThenFits, ThenTyped DEF Inv, SetWaiting, roles
    <2>3. packages' \in [Name -> Row \cup {None}]
      BY <1>2, <2>1, WaitingTyped DEF Inv, SetWaiting
    <2> QED
      BY <1>2, <2>2, <2>3 DEF Inv, TypeOK, SetWaiting, roles, world, record
  <1>3. CASE InsertWorker(p)
    <2>1. ~Idle(p) /\ calls[p].who \in Login /\ calls[p].work # "updates"
      BY <1>3, OfHandler, Leads DEF InsertWorker, Inv, Fits
    <2>2. CallsFit' /\ calls' \in [Proc -> AnyCall]
      BY <1>3, <2>1, ThenFits, ThenTyped DEF Inv, InsertWorker, roles
    <2>3. [owner |-> calls[p].who, revoked |-> FALSE] \in Host
      BY <2>1 DEF Host
    <2>4. workers' \in Seq(Host)
      BY <1>3, <2>3, Sequences DEF Inv, TypeOK, InsertWorker
    <2> QED
      BY <1>3, <2>2, <2>4 DEF Inv, TypeOK, InsertWorker, roles, world, record
  <1> QED
    BY <1>1, <1>2, <1>3

-----------------------------------------------------------------------------
\* Blocks, and the daily check.
LEMMA BlockPersonInv ==
  ASSUME Inv, NEW p \in Proc, BlockPerson(p)
  PROVE  Inv'
  <1> DEFINE l == calls[p].name
  <1>1. ~Idle(p) /\ l \in Login /\ contributors[l] # None /\ calls[p].who \in Login /\ calls[p].work # "updates"
    BY OfHandler, Leads DEF BlockPerson, Inv, Fits
  <1>2. contributors[l] \in Person
    BY <1>1, PeopleTyped DEF Inv
  <1>3. [contributors[l] EXCEPT !.by = calls[p].who] \in Person
    BY <1>1, <1>2 DEF Person
  <1>4. contributors' = [contributors EXCEPT ![l].by = calls[p].who]
    BY DEF BlockPerson
  <1>5. contributors' \in [Login -> Person \cup {None}]
    BY <1>1, <1>3, <1>4 DEF Inv, TypeOK
  <1>6. \A m \in Login : contributors[m] # None => contributors'[m] # None
    BY <1>1, <1>3, <1>4, PersonIsSomebody DEF Inv, TypeOK
  <1>7. CallsFit' /\ calls' \in [Proc -> AnyCall]
    BY <1>1, <1>6, ThenFits, ThenTyped DEF Inv, BlockPerson
  <1>8. workers' \in Seq(Host)
    <2>1. \A w \in DOMAIN workers : workers[w] \in Host
      BY Sequences DEF Inv, TypeOK
    <2>2. \A w \in DOMAIN workers : [workers[w] EXCEPT !.revoked = TRUE] \in Host
      BY <2>1 DEF Host
    <2>3. workers' \in [DOMAIN workers -> Host]
      BY <2>1, <2>2 DEF BlockPerson
    <2> QED
      BY <2>3, Sequences DEF Inv, TypeOK
  <1>9. tasks' \in Seq(Task)
    BY RowsTyped DEF BlockPerson, Inv
  <1>10. packages' \in [Name -> Row \cup {None}]
    <2>1. \A n \in Name : packages[n] # None => packages[n] \in Row
      BY DEF Inv, TypeOK
    <2>2. \A n \in Name : packages[n] # None => [packages[n] EXCEPT !.status = "rejected"] \in Row
      BY <2>1 DEF Row, Status
    <2> QED
      BY <2>1, <2>2 DEF BlockPerson, Registered, Inv, TypeOK
  <1> QED
    BY <1>5, <1>7, <1>8, <1>9, <1>10 DEF Inv, TypeOK, BlockPerson, world, record

LEMMA LiftPersonInv ==
  ASSUME Inv, NEW p \in Proc, LiftPerson(p)
  PROVE  Inv'
  <1> DEFINE l == calls[p].name
  <1>1. ~Idle(p) /\ l \in Login /\ contributors[l] # None /\ calls[p].work # "updates"
    BY OfHandler, Leads DEF LiftPerson, Inv, Fits
  <1>2. contributors[l] \in Person
    BY <1>1, PeopleTyped DEF Inv
  <1>3. [contributors[l] EXCEPT !.by = None] \in Person
    BY <1>2 DEF Person
  <1>4. contributors' = [contributors EXCEPT ![l].by = None]
    BY DEF LiftPerson
  <1>5. contributors' \in [Login -> Person \cup {None}]
    BY <1>1, <1>3, <1>4 DEF Inv, TypeOK
  <1>6. \A m \in Login : contributors[m] # None => contributors'[m] # None
    BY <1>1, <1>3, <1>4, PersonIsSomebody DEF Inv, TypeOK
  <1>7. CallsFit' /\ calls' \in [Proc -> AnyCall]
    BY <1>1, <1>6, ThenFits, ThenTyped DEF Inv, LiftPerson
  <1> QED
    BY <1>5, <1>7 DEF Inv, TypeOK, LiftPerson, world, record

LEMMA BlockRegistrationInv ==
  ASSUME Inv, NEW p \in Proc, BlockRegistration(p) \/ LiftPackage(p)
  PROVE  Inv'
  <1> DEFINE n == calls[p].name
  <1>1. ~Idle(p) /\ n \in Name /\ calls[p].who \in Login /\ calls[p].work # "updates"
    BY OfHandler, Leads DEF BlockRegistration, LiftPackage, Inv, Fits
  <1>2. CallsFit' /\ calls' \in [Proc -> AnyCall]
    BY <1>1, ThenFits, ThenTyped DEF Inv, BlockRegistration, LiftPackage, roles
  <1>3. packages[n] # None => packages[n] \in Row
    BY <1>1 DEF Inv, TypeOK
  <1>4. packages[n] # None => /\ [packages[n] EXCEPT !.status = "rejected", !.by = calls[p].who] \in Row
                              /\ [packages[n] EXCEPT !.by = None] \in Row
    BY <1>1, <1>3 DEF Row, Status
  <1>5. packages' \in [Name -> Row \cup {None}]
    BY <1>1, <1>4 DEF Inv, TypeOK, BlockRegistration, LiftPackage
  <1>6. tasks' \in Seq(Task)
    BY RowsTyped DEF Inv, TypeOK, BlockRegistration, LiftPackage
  <1> QED
    BY <1>2, <1>5, <1>6 DEF Inv, TypeOK, BlockRegistration, LiftPackage, roles, world, record

\* The daily check.
Updates(p) == Look(p) \/ Retire(p) \/ Bump(p) \/ Checked(p)

LEMMA UpdatesHead ==
  ASSUME Inv, NEW p \in Proc, Updates(p)
  PROVE  /\ ~Idle(p) /\ calls[p] \in AnyCall /\ calls[p].work = "updates" /\ Fits(calls[p], contributors)
         /\ calls[p].left \in LeftOf["updates"] /\ Head(calls[p].left) \in
              {"stale", "retire", "select", "release", "approved", "pending", "bump", "checked"}
  <1>1. \E s \in {"stale", "retire", "select", "release", "approved", "pending", "bump", "checked"} : At(p, s)
    BY DEF Updates, Look, ReadStale, Retire, Select, Release, Approved, LookForPending, Bump, Checked
  <1> QED
    BY <1>1, OfHandler, Leads DEF Inv

\* A call of the check fits if what its next step needs is there.
LEMMA UpdateFits ==
  ASSUME NEW c, c.work = "updates", c.left \in LeftOf["updates"],
         Head(c.left) \in {"stale", "retire"} => c.todo \subseteq Name,
         Head(c.left) \in {"release", "approved", "pending", "bump"} => c.todo \subseteq Picked,
         Head(c.left) \in {"approved", "pending", "bump"} => c.name \in Name /\ c.who \in Login /\ c.tag \in 1 .. MaxTag
  PROVE  Fits(c, contributors)
  <1>1. c.left \notin {<<"blockPerson">>, <<"liftPerson">>, <<"blockPackage">>, <<"liftPackage">>}
    <2>1. "updates" \in Handler
      BY DEF Handler, LeftOf
    <2>2. Head(c.left) \notin {"blockPerson", "liftPerson", "blockPackage", "liftPackage"}
      BY <2>1, Leads
    <2> QED
      BY <2>2, Tuples
  <1> QED
    BY <1>1 DEF Fits

LEMMA UpdateSteps ==
  /\ LeftOf["updates"] = {<<"stale", "retire", "select", "release", "approved", "pending", "bump", "checked">>,
                          <<"retire", "select", "release", "approved", "pending", "bump", "checked">>,
                          <<"select", "release", "approved", "pending", "bump", "checked">>,
                          <<"release", "approved", "pending", "bump", "checked">>,
                          <<"approved", "pending", "bump", "checked">>, <<"pending", "bump", "checked">>,
                          <<"bump", "checked">>, <<"checked">>}
  /\ \A s \in LeftOf["updates"] : s \in Seq(Steps)
  /\ EachPackage = <<"release", "approved", "pending", "bump", "checked">>
  <1>1. LeftOf["updates"] = {<<"stale", "retire", "select", "release", "approved", "pending", "bump", "checked">>,
                          <<"retire", "select", "release", "approved", "pending", "bump", "checked">>,
                          <<"select", "release", "approved", "pending", "bump", "checked">>,
                          <<"release", "approved", "pending", "bump", "checked">>,
                          <<"approved", "pending", "bump", "checked">>, <<"pending", "bump", "checked">>,
                          <<"bump", "checked">>, <<"checked">>}
    BY DEF LeftOf
  <1>2. <<"stale", "retire", "select", "release", "approved", "pending", "bump", "checked">> \in Seq(Steps)
    BY DEF Steps
  <1>3. <<"retire", "select", "release", "approved", "pending", "bump", "checked">> \in Seq(Steps)
    BY DEF Steps
  <1>4. <<"select", "release", "approved", "pending", "bump", "checked">> \in Seq(Steps)
    BY DEF Steps
  <1>5. <<"release", "approved", "pending", "bump", "checked">> \in Seq(Steps)
    BY DEF Steps
  <1>6. <<"approved", "pending", "bump", "checked">> \in Seq(Steps) /\ <<"pending", "bump", "checked">> \in Seq(Steps)
    BY DEF Steps
  <1>7. <<"bump", "checked">> \in Seq(Steps) /\ <<"checked">> \in Seq(Steps)
    BY DEF Steps
  <1> QED
    BY <1>1, <1>2, <1>3, <1>4, <1>5, <1>6, <1>7 DEF EachPackage

\* The check goes on with another package, or with the next step.
LEMMA UpdateGoesOn ==
  ASSUME Inv, NEW p \in Proc, Updates(p)
  PROVE  /\ Head(calls[p].left) \notin {"stale", "release"} =>
              LET c == [calls[p] EXCEPT !.left = EachPackage]
              IN  /\ c \in AnyCall /\ c.work = "updates" /\ c.left = EachPackage
                  /\ Head(calls[p].left) \in {"approved", "pending", "bump"} => Fits(c, contributors)
         /\ Head(calls[p].left) \in {"approved", "pending"} =>
              LET c == [calls[p] EXCEPT !.left = Tail(@)]
              IN  /\ c \in AnyCall /\ c.work = "updates" /\ c.left = Tail(calls[p].left) /\ Fits(c, contributors)
                  /\ c.name = calls[p].name /\ c.tag = calls[p].tag
  <1>1. /\ calls[p] \in AnyCall /\ calls[p].work = "updates" /\ Fits(calls[p], contributors)
        /\ calls[p].left \in LeftOf["updates"] /\ "updates" \in Handler
    BY UpdatesHead DEF AnyCall
  <1>2. /\ EachPackage \in LeftOf["updates"] /\ EachPackage \in Seq(Steps) /\ Head(EachPackage) = "release"
    BY UpdateSteps, Tuples
  <1>3. ASSUME Head(calls[p].left) \in {"approved", "pending", "bump"}
        PROVE  /\ calls[p].todo \subseteq Picked
               /\ calls[p].name \in Name /\ calls[p].who \in Login /\ calls[p].tag \in 1 .. MaxTag
    BY <1>1, <1>3 DEF Fits
  <1> DEFINE c == [calls[p] EXCEPT !.left = EachPackage]
             d == [calls[p] EXCEPT !.left = Tail(@)]
  <1>4. c \in AnyCall /\ c.work = "updates" /\ c.left = EachPackage /\ c.todo = calls[p].todo
    BY <1>1, <1>2 DEF AnyCall
  <1>5. Head(calls[p].left) \in {"approved", "pending", "bump"} => Fits(c, contributors)
    <2> HIDE DEF c
    <2> QED
      BY <1>2, <1>3, <1>4, UpdateFits
  <1>6. ASSUME Head(calls[p].left) \in {"approved", "pending"}
        PROVE  /\ d \in AnyCall /\ d.work = "updates" /\ d.left = Tail(calls[p].left) /\ Fits(d, contributors)
               /\ d.name = calls[p].name /\ d.tag = calls[p].tag
    <2>1. /\ Tail(calls[p].left) \in LeftOf["updates"] /\ Tail(calls[p].left) \in Seq(Steps)
          /\ Head(Tail(calls[p].left)) \in {"pending", "bump"}
      <3>1. Tail(calls[p].left) \in {<<"pending", "bump", "checked">>, <<"bump", "checked">>}
        BY <1>1, <1>6, Leads
      <3> QED
        BY <3>1, UpdateSteps, Tuples
    <2>2. /\ d \in AnyCall /\ d.work = "updates" /\ d.left = Tail(calls[p].left) /\ d.todo = calls[p].todo
          /\ d.name = calls[p].name /\ d.tag = calls[p].tag /\ d.who = calls[p].who
      BY <1>1, <2>1 DEF AnyCall
    <2> HIDE DEF d
    <2> QED
      BY <1>3, <1>6, <2>1, <2>2, UpdateFits
  <1> QED
    BY <1>4, <1>5, <1>6

\* What the check reads, it goes on with; a package at its INSERT has no bump
\* under way at the look before it.
LEMMA Looked ==
  ASSUME Inv, NEW p \in Proc, Look(p)
  PROVE  /\ Asks /\ ~Idle(p)
         /\ \E c \in AnyCall : /\ Start(p, c) /\ c.work = "updates" /\ c.left \in LeftOf["updates"]
                               /\ Fits(c, contributors)
                               /\ Head(c.left) = "bump" => ~Pending(c.name, c.tag)
  <1>0. /\ calls[p] \in AnyCall /\ calls[p].work = "updates" /\ Fits(calls[p], contributors) /\ ~Idle(p)
        /\ calls[p].left \in LeftOf["updates"] /\ "updates" \in Handler
    BY UpdatesHead DEF Updates, AnyCall
  <1>1. Asks
    BY DEF Look, ReadStale, Select, Release, Approved, LookForPending
  <1> DEFINE Good(c) == /\ c \in AnyCall /\ c.work = "updates" /\ c.left \in LeftOf["updates"] /\ Fits(c, contributors)
                        /\ Head(c.left) = "bump" => ~Pending(c.name, c.tag)
  <1> SUFFICES \E c : Start(p, c) /\ Good(c)
    BY <1>0, <1>1
  <1>2. CASE ReadStale(p)
    <2> DEFINE S == {tasks[t].name : t \in {u \in DOMAIN tasks : Stale(u)}}
               c == [calls[p] EXCEPT !.todo = S, !.left = Tail(@)]
    <2>1. S \subseteq Name
      <3>1. \A t \in DOMAIN tasks : tasks[t] \in Task
        BY Sequences DEF Inv, TypeOK
      <3> QED
        BY <3>1 DEF Task
    <2>2. Tail(calls[p].left) = <<"retire", "select", "release", "approved", "pending", "bump", "checked">>
      BY <1>0, <1>2, Leads DEF ReadStale, At
    <2> HIDE DEF S
    <2>3. c \in AnyCall /\ c.work = "updates" /\ c.left = Tail(calls[p].left) /\ c.todo = S
      BY <1>0, <2>1, <2>2, UpdateSteps DEF AnyCall
    <2>4. Start(p, c)
      BY <1>2 DEF ReadStale, S
    <2> HIDE DEF c
    <2>5. c.left \in LeftOf["updates"] /\ Head(c.left) = "retire"
      BY <2>2, <2>3, UpdateSteps, Tuples
    <2>6. Good(c)
      BY <2>1, <2>3, <2>5, UpdateFits
    <2> QED
      BY <2>4, <2>6
  <1>3. CASE Select(p)
    <2> DEFINE S == {[name |-> n, owner |-> packages[n].owner, project |-> packages[n].project] : n \in Bumpable}
               c == [calls[p] EXCEPT !.todo = S, !.left = Tail(@)]
    <2>1. S \subseteq Picked
      <3>1. \A n \in Bumpable : n \in Name /\ packages[n] \in Row
        BY DEF Bumpable, Registered, Inv, TypeOK
      <3> QED
        BY <3>1 DEF Row, Picked
    <2>2. Tail(calls[p].left) = <<"release", "approved", "pending", "bump", "checked">>
      BY <1>0, <1>3, Leads DEF Select, At
    <2> HIDE DEF S
    <2>3. c \in AnyCall /\ c.work = "updates" /\ c.left = Tail(calls[p].left) /\ c.todo = S
      BY <1>0, <2>1, <2>2, UpdateSteps DEF AnyCall
    <2>4. Start(p, c)
      BY <1>3 DEF Select, S
    <2> HIDE DEF c
    <2>5. c.left \in LeftOf["updates"] /\ Head(c.left) = "release"
      BY <2>2, <2>3, UpdateSteps, Tuples
    <2>6. Good(c)
      BY <2>1, <2>3, <2>5, UpdateFits
    <2> QED
      BY <2>4, <2>6
  <1>4. CASE Release(p)
    <2>0. Tail(calls[p].left) = <<"approved", "pending", "bump", "checked">> /\ calls[p].todo \subseteq Picked
      BY <1>0, <1>4, Leads DEF Release, At, Fits
    <2>1. CASE calls[p].todo = {} /\ Start(p, [calls[p] EXCEPT !.left = <<"checked">>])
      <3> DEFINE c == [calls[p] EXCEPT !.left = <<"checked">>]
      <3>1. c \in AnyCall /\ c.work = "updates" /\ c.left = <<"checked">>
        BY <1>0, UpdateSteps DEF AnyCall
      <3>2. Start(p, c)
        BY <2>1
      <3> HIDE DEF c
      <3>3. c.left \in LeftOf["updates"] /\ Head(c.left) = "checked"
        BY <3>1, UpdateSteps, Tuples
      <3>4. Good(c)
        BY <3>1, <3>3, UpdateFits
      <3> QED
        BY <3>2, <3>4
    <2>2. ASSUME NEW row \in calls[p].todo, Start(p, [calls[p] EXCEPT !.todo = @ \ {row}])
          PROVE  \E c : Start(p, c) /\ Good(c)
      <3> DEFINE c == [calls[p] EXCEPT !.todo = @ \ {row}]
      <3>1. c \in AnyCall /\ c.work = "updates" /\ c.left = calls[p].left /\ c.todo \subseteq Picked
        BY <1>0, <2>0 DEF AnyCall
      <3>2. Start(p, c)
        BY <2>2
      <3> HIDE DEF c
      <3>3. c.left \in LeftOf["updates"] /\ Head(c.left) = "release"
        BY <1>0, <1>4, <3>1 DEF Release, At
      <3>4. Good(c)
        BY <3>1, <3>3, UpdateFits
      <3> QED
        BY <3>2, <3>4
    <2>3. ASSUME NEW row \in calls[p].todo,
                 Start(p, [[calls[p] EXCEPT !.todo = @ \ {row}] EXCEPT !.name = row.name, !.who = row.owner,
                                                                     !.tag = latest[row.project], !.left = Tail(@)])
          PROVE  \E c : Start(p, c) /\ Good(c)
      <3> DEFINE c == [[calls[p] EXCEPT !.todo = @ \ {row}] EXCEPT !.name = row.name, !.who = row.owner,
                                                                 !.tag = latest[row.project], !.left = Tail(@)]
      <3>1. row.name \in Name /\ row.owner \in Login /\ row.project \in Project
        BY <2>0, <2>3 DEF Picked
      <3>2. latest[row.project] \in 1 .. MaxTag /\ latest[row.project] \in 0 .. MaxTag
        BY <3>1, ContributorsAssumption DEF Inv, TypeOK
      <3>3. /\ c \in AnyCall /\ c.work = "updates" /\ c.left = Tail(calls[p].left) /\ c.todo \subseteq Picked
            /\ c.name = row.name /\ c.who = row.owner /\ c.tag = latest[row.project]
        BY <1>0, <2>0, <3>1, <3>2, UpdateSteps DEF AnyCall
      <3>4. Start(p, c)
        BY <2>3
      <3> HIDE DEF c
      <3>5. c.left \in LeftOf["updates"] /\ Head(c.left) = "approved"
        BY <2>0, <3>3, UpdateSteps, Tuples
      <3>6. Good(c)
        BY <3>1, <3>2, <3>3, <3>5, UpdateFits
      <3> QED
        BY <3>4, <3>6
    <2> QED
      BY <1>4, <2>1, <2>2, <2>3 DEF Release
  <1>5. CASE Approved(p) \/ LookForPending(p)
    <2> DEFINE c == [calls[p] EXCEPT !.left = EachPackage]
               d == [calls[p] EXCEPT !.left = Tail(@)]
    <2>1. Head(calls[p].left) \in {"approved", "pending"}
      BY <1>5 DEF Approved, LookForPending, At
    <2>2. /\ c \in AnyCall /\ c.work = "updates" /\ c.left = EachPackage /\ Fits(c, contributors)
          /\ d \in AnyCall /\ d.work = "updates" /\ d.left = Tail(calls[p].left) /\ Fits(d, contributors)
          /\ d.name = calls[p].name /\ d.tag = calls[p].tag
      BY <2>1, UpdateGoesOn DEF Updates
    <2>3. \/ Start(p, c)
          \/ Start(p, d) /\ (Head(calls[p].left) = "pending" => ~Pending(calls[p].name, calls[p].tag))
      <3>1. CASE Approved(p)
        BY <3>1 DEF Approved, NextPackage, Then, At
      <3>2. CASE LookForPending(p)
        BY <3>2 DEF LookForPending, NextPackage, Then, At
      <3> QED
        BY <1>5, <3>1, <3>2
    <2> HIDE DEF c, d
    <2>4. /\ c.left \in LeftOf["updates"] /\ Head(c.left) = "release" /\ d.left \in LeftOf["updates"]
          /\ Head(calls[p].left) # "pending" => Head(d.left) # "bump"
      <3>1. /\ Head(calls[p].left) = "approved" => Tail(calls[p].left) = <<"pending", "bump", "checked">>
            /\ Head(calls[p].left) = "pending" => Tail(calls[p].left) = <<"bump", "checked">>
        BY <1>0, Leads
      <3>2. EachPackage \in LeftOf["updates"] /\ Head(EachPackage) = "release"
        BY UpdateSteps, Tuples
      <3>3. /\ <<"pending", "bump", "checked">> \in LeftOf["updates"] /\ <<"bump", "checked">> \in LeftOf["updates"]
            /\ Head(<<"pending", "bump", "checked">>) = "pending"
        BY UpdateSteps, Tuples
      <3> QED
        BY <2>1, <2>2, <3>1, <3>2, <3>3
    <2> QED
      BY <2>2, <2>3, <2>4
  <1> QED
    BY <1>2, <1>3, <1>4, <1>5 DEF Look

LEMMA UpdatesInv ==
  ASSUME Inv, NEW p \in Proc, Updates(p)
  PROVE  Inv'
  <1>0. /\ calls[p].work = "updates" /\ ~Idle(p) /\ calls[p] \in AnyCall /\ Fits(calls[p], contributors)
        /\ calls[p].left \in LeftOf["updates"] /\ "updates" \in Handler
    BY UpdatesHead DEF AnyCall
  <1>1. CASE Look(p)
    BY <1>1, Looked, Begins
  <1>2. CASE Retire(p)
    <2>0. Head(calls[p].left) = "retire" /\ calls[p].todo \subseteq Name
      BY <1>0, <1>2 DEF Retire, At, Fits
    <2>1. CASE calls[p].todo = {} /\ Then(p) /\ UNCHANGED <<tasks, packages>>
      <3> DEFINE c == [calls[p] EXCEPT !.left = Tail(@)]
      <3>1. Tail(calls[p].left) = <<"select", "release", "approved", "pending", "bump", "checked">>
        BY <1>0, <2>0, Leads
      <3>2. c \in AnyCall /\ c.work = "updates" /\ c.left = Tail(calls[p].left)
        BY <1>0, <3>1, UpdateSteps DEF AnyCall
      <3>3. Start(p, c) /\ Asks
        BY <1>2, <2>1 DEF Retire, Then, Asks
      <3> HIDE DEF c
      <3>4. Fits(c, contributors)
        BY <3>1, <3>2, UpdateSteps, Tuples, UpdateFits
      <3> QED
        BY <3>2, <3>3, <3>4, Begins
    <2>2. ASSUME NEW n \in calls[p].todo,
                 tasks' = Cancelled({t \in DOMAIN tasks : tasks[t].name = n /\ tasks[t].status = "queued"}),
                 packages' = [packages EXCEPT ![n] = IF @ = None THEN @ ELSE [@ EXCEPT !.status = "unmaintained"]],
                 Start(p, [calls[p] EXCEPT !.todo = @ \ {n}])
          PROVE  Inv'
      <3> DEFINE c == [calls[p] EXCEPT !.todo = @ \ {n}]
      <3>1. calls[p].todo \ {n} \in SUBSET Name /\ n \in Name /\ "unmaintained" \in Status
        BY <2>0 DEF Status
      <3>2. c \in AnyCall /\ c.work = "updates" /\ c.left = calls[p].left /\ c.todo \subseteq Name
        BY <1>0, <3>1 DEF AnyCall
      <3>3. Start(p, c)
        BY <2>2
      <3> HIDE DEF c
      <3>4. Fits(c, contributors)
        BY <1>0, <2>0, <3>2, UpdateFits
      <3>5. CallsFit' /\ calls' \in [Proc -> AnyCall]
        BY <1>2, <3>2, <3>3, <3>4, StartFits, StartTyped DEF Inv, Retire, roles
      <3>6. tasks' \in Seq(Task) /\ packages' \in [Name -> Row \cup {None}]
        BY <2>2, <3>1, RowsTyped DEF Inv
      <3> QED
        BY <1>2, <3>5, <3>6 DEF Inv, TypeOK, Retire, roles, world, record
    <2> QED
      BY <1>2, <2>1, <2>2 DEF Retire
  <1>3. CASE Bump(p)
    <2> DEFINE c == [calls[p] EXCEPT !.left = EachPackage]
               b == Build(calls[p].name, calls[p].who, calls[p].tag, calls[p].tag)
    <2>1. Head(calls[p].left) = "bump"
      BY <1>3 DEF Bump, At
    <2>2. c \in AnyCall /\ Fits(c, contributors) /\ Start(p, c)
      BY <1>3, <2>1, UpdateGoesOn DEF Bump, NextPackage
    <2> HIDE DEF c
    <2>3. CallsFit' /\ calls' \in [Proc -> AnyCall]
      BY <1>3, <2>2, StartFits, StartTyped DEF Inv, Bump, roles
    <2>4. calls[p].name \in Name /\ calls[p].who \in Login /\ calls[p].tag \in 0 .. MaxTag
      BY <1>0, <2>1, ContributorsAssumption DEF Fits
    <2>5. b \in Task
      BY <2>4, RowsTyped DEF Inv
    <2>6. tasks' = Append(tasks, b) /\ packages' = Waiting(calls[p].name)
      BY <1>3 DEF Bump
    <2> HIDE DEF b
    <2>7. tasks' \in Seq(Task) /\ packages' \in [Name -> Row \cup {None}]
      BY <2>4, <2>5, <2>6, WaitingTyped, Sequences DEF Inv, TypeOK
    <2> QED
      BY <1>3, <2>3, <2>7 DEF Inv, TypeOK, Bump, roles, world, record
  <1>4. CASE Checked(p)
    <2> DEFINE c == [calls[p] EXCEPT !.left = Tail(@)]
    <2>1. Tail(calls[p].left) = <<>>
      BY <1>0, <1>4, Leads DEF Checked, At
    <2>2. c.left = <<>> /\ Start(p, c)
      BY <1>0, <1>4, <2>1 DEF Checked, Then, AnyCall
    <2> HIDE DEF c
    <2>3. CallsFit'
      BY <1>4, <2>2, StartFits DEF Inv, Checked, roles
    <2>4. calls' \in [Proc -> AnyCall]
      BY <1>0, <1>4, ThenTyped DEF Inv, Checked
    <2> QED
      BY <1>4, <2>3, <2>4 DEF Inv, TypeOK, Checked, roles, world, record
  <1> QED
    BY <1>1, <1>2, <1>3, <1>4 DEF Updates

\* What the daily check leaves alone.
LEMMA UpdatesOnly ==
  ASSUME NEW p \in Proc, Updates(p)
  PROVE  /\ UNCHANGED <<known, maintainers, contributors, workers, requests, bucket, approvals, faults>>
         /\ UNCHANGED <<tasks, packages>> \/ Retire(p) \/ Bump(p)
  <1>1. Look(p) => Asks
    BY DEF Look, ReadStale, Select, Release, Approved, LookForPending
  <1> QED
    BY <1>1 DEF Updates, Retire, Bump, Checked, Asks, roles, record

LEMMA WriteInv ==
  ASSUME Inv, NEW p \in Proc, Write(p)
  PROVE  Inv'
  BY UpsertInv, ListInv, PeopleInv, RoleInv, InsertRequestInv, RecordInv, PointInv, RegisterInv, AdoptInv, DeleteInv,
     BuildsInv, BlockPersonInv, LiftPersonInv, BlockRegistrationInv, UpdatesInv DEF Write, Updates

\* The steps that are no handler's: workers, reviews, the world.
LEMMA CallsStay ==
  ASSUME CallsFit, UNCHANGED <<calls, contributors>>
  PROVE  CallsFit'
  BY DEF CallsFit, Idle

LEMMA OthersInv ==
  ASSUME Inv
  PROVE  /\ \A t \in DOMAIN tasks, status \in {"staged", "failed", "queued"} : Report(t, status) => Inv'
         /\ \A t \in DOMAIN tasks, w \in DOMAIN workers : Claim(w, t) => Inv'
         /\ \A t \in DOMAIN tasks, l \in Login : Approve(l, t) \/ Reject(l, t) => Inv'
         /\ MergeGovernance \/ DaysPass => Inv'
         /\ \A j \in Project : ReleaseUpstream(j) => Inv'
         /\ \A p \in Proc : End(p) => Inv'
  <1>0. \A t \in DOMAIN tasks : tasks[t] \in Task /\ tasks[t].name \in Name
    <2>1. \A t \in DOMAIN tasks : tasks[t] \in Task
      BY Sequences DEF Inv, TypeOK
    <2> QED
      BY <2>1 DEF Task
  <1>1. ASSUME NEW t \in DOMAIN tasks, NEW status \in {"staged", "failed", "queued"}, Report(t, status)
        PROVE  Inv'
    <2> DEFINE s == CASE status = "staged" -> "staged" [] status = "failed" -> "registered" [] OTHER -> "waiting"
    <2>1. s \in Status
      BY DEF Status
    <2>2. packages' = [packages EXCEPT ![tasks[t].name] = IF @ = None THEN @ ELSE [@ EXCEPT !.status = s]]
      BY <1>1 DEF Report
    <2> HIDE DEF s
    <2>3. packages' \in [Name -> Row \cup {None}]
      BY <1>0, <2>1, <2>2, RowsTyped DEF Inv
    <2>4. \A u \in DOMAIN tasks, x \in {"staged", "failed", "queued", "cancelled"} :
            [tasks[u] EXCEPT !.status = x] \in Task
      BY <1>0 DEF Task, Open
    <2>5. tasks' \in [DOMAIN tasks -> Task]
      BY <1>0, <1>1, <2>4 DEF Report
    <2>6. tasks' \in Seq(Task)
      BY <2>5, Sequences DEF Inv, TypeOK
    <2> QED
      BY <1>1, <2>3, <2>6, CallsStay DEF Inv, TypeOK, Report, roles, world, record
  <1>2. ASSUME NEW t \in DOMAIN tasks, NEW w \in DOMAIN workers, Claim(w, t)
        PROVE  Inv'
    <2>1. tasks' \in Seq(Task) /\ packages' \in [Name -> Row \cup {None}]
      BY <1>0, <1>2, RowsTyped DEF Claim, Inv, Open, Status
    <2> QED
      BY <1>2, <2>1, CallsStay DEF Inv, TypeOK, Claim, roles, world, record
  <1>3. ASSUME NEW t \in DOMAIN tasks, NEW l \in Login, Approve(l, t)
        PROVE  Inv'
    <2>1. packages' \in [Name -> Row \cup {None}]
      BY <1>0, <1>3, RowsTyped DEF Approve, Inv, Status
    <2>2. approvals' \in [Name -> 0 .. MaxTag]
      BY <1>0, <1>3 DEF Approve, Inv, TypeOK, Task
    <2> QED
      BY <1>3, <2>1, <2>2, CallsStay DEF Inv, TypeOK, Approve, roles, world, record
  <1>4. ASSUME NEW t \in DOMAIN tasks, NEW l \in Login, Reject(l, t)
        PROVE  Inv'
    <2>1. tasks' \in Seq(Task) /\ packages' \in [Name -> Row \cup {None}]
      BY <1>0, <1>4, RowsTyped DEF Reject, Inv, Status
    <2> QED
      BY <1>4, <2>1, CallsStay DEF Inv, TypeOK, Reject, roles, world, record
  <1>5. ASSUME MergeGovernance
        PROVE  Inv'
    <2>1. main' \in DOMAIN File
      BY <1>5, ContributorsAssumption DEF MergeGovernance, Inv, TypeOK
    <2> QED
      BY <1>5, <2>1, CallsStay DEF Inv, TypeOK, MergeGovernance, roles, record
  <1>6. ASSUME DaysPass
        PROVE  Inv'
    <2>1. \A t \in DOMAIN tasks : tasks[t].age < 2 => [tasks[t] EXCEPT !.age = @ + 1] \in Task
      BY <1>0 DEF Task
    <2>2. tasks' \in [DOMAIN tasks -> Task]
      BY <1>0, <1>6, <2>1 DEF DaysPass
    <2>3. tasks' \in Seq(Task)
      BY <2>2, Sequences DEF Inv, TypeOK
    <2> QED
      BY <1>6, <2>3, CallsStay DEF Inv, TypeOK, DaysPass, roles, world, record
  <1>7. ASSUME NEW j \in Project, ReleaseUpstream(j)
        PROVE  Inv'
    <2>1. latest' \in [Project -> 1 .. MaxTag]
      BY <1>7, ContributorsAssumption DEF ReleaseUpstream, Inv, TypeOK
    <2> QED
      BY <1>7, <2>1, CallsStay DEF Inv, TypeOK, ReleaseUpstream, roles, record
  <1>8. ASSUME NEW p \in Proc, End(p)
        PROVE  Inv'
    <2>1. Start(p, Call) /\ Call.left = <<>>
      BY <1>8 DEF End, Call
    <2>2. CallsFit' /\ calls' \in [Proc -> AnyCall]
      BY <1>8, <2>1, CallTyped, StartFits, StartTyped DEF Inv, End, roles
    <2>3. faults' \in 0 .. MaxFaults
      BY <1>8, ContributorsAssumption DEF End, Inv, TypeOK
    <2> QED
      BY <1>8, <2>2, <2>3 DEF Inv, TypeOK, End, roles, world, record
  <1> QED
    BY <1>1, <1>2, <1>3, <1>4, <1>5, <1>6, <1>7, <1>8

LEMMA InitInv == Init => Inv
  <1> SUFFICES ASSUME Init
               PROVE  Inv
    OBVIOUS
  <1>1. DOMAIN File = 1 .. Len(File) /\ Len(File) \in Nat \ {0} /\ File[1] \subseteq Login
    BY ContributorsAssumption
  <1>2. contributors \in [Login -> Person \cup {None}]
    BY DEF Init, Person
  <1>3. \A n \in DOMAIN Older : Registration(Older[n].owner, Older[n].project, "registered", 0, 1) \in Row
    BY ContributorsAssumption DEF Registration, Row, Status
  <1>4. packages \in [Name -> Row \cup {None}]
    BY <1>3 DEF Init
  <1>5. workers \in Seq(Host) /\ requests \in Seq(Request) /\ tasks \in Seq(Task)
    BY Empty DEF Init
  <1>6. approvals \in [Name -> 0 .. MaxTag] /\ latest \in [Project -> 1 .. MaxTag] /\ faults \in 0 .. MaxFaults
    BY ContributorsAssumption DEF Init
  <1>7. calls \in [Proc -> AnyCall]
    BY CallTyped DEF Init
  <1>8. CallsFit
    BY DEF Init, CallsFit, Idle, Call
  <1>9. main \in DOMAIN File /\ known \in DOMAIN File /\ maintainers \subseteq Login /\ checked \in BOOLEAN
    <2>1. main = 1 /\ known = 1 /\ maintainers = File[1] /\ checked = FALSE
      BY DEF Init
    <2>2. 1 \in 1 .. Len(File)
      BY <1>1
    <2>3. main \in DOMAIN File /\ known \in DOMAIN File
      BY <1>1, <2>1, <2>2
    <2>4. maintainers \subseteq Login
      BY <1>1, <2>1
    <2>5. checked \in BOOLEAN
      BY <2>1
    <2> QED
      BY <2>3, <2>4, <2>5
  <1>10. bucket \subseteq Nat \X {"request.json", "request.json.sig"}
    BY DEF Init
  <1> QED
    BY <1>2, <1>4, <1>5, <1>6, <1>7, <1>8, <1>9, <1>10 DEF Inv, TypeOK

LEMMA NextInv == Inv /\ [Next]_vars => Inv'
  <1> SUFFICES ASSUME Inv, [Next]_vars
               PROVE  Inv'
    OBVIOUS
  <1>1. CASE UNCHANGED vars
    BY <1>1, CallsStay DEF Inv, TypeOK, vars
  <1>2. CASE Next
    BY <1>2, WriteInv, RequestsInv, TickInv, OthersInv DEF Next
  <1> QED
    BY <1>1, <1>2

\* Every table, and what every invocation carries, keeps its type: a handler
\* writes about a row, a name or a person that is there, and has only writes of
\* its own left, in their order.
THEOREM TypeCorrect == Spec => [](TypeOK /\ CallsFit)
  <1>1. Inv => TypeOK /\ CallsFit
    BY DEF Inv
  <1> QED
    BY <1>1, InitInv, NextInv, PTL DEF Spec

-----------------------------------------------------------------------------
\* Requests, registrations and builds, step by step.
LEMMA BeginsOnly ==
  ASSUME NEW p \in Proc, Requests(p) \/ Tick(p) \/ End(p)
  PROVE  UNCHANGED <<contributors, known, maintainers, requests, bucket, packages, tasks, approvals, main, latest>>
  <1>1. CASE Requests(p)
    <2>1. ASSUME NEW l \in Login, SignIn(p, l) \/ RegisterWorker(p, l)
          PROVE  Asks
      BY <2>1 DEF SignIn, RegisterWorker
    <2>2. ASSUME NEW l \in Login, NEW n \in Name,
                 \/ DeletePackage(p, l, n) \/ BuildPackage(p, l, n) \/ BlockPackage(p, l, n)
                 \/ UnblockPackage(p, l, n) \/ \E u \in Url : RequestPackage(p, l, n, u)
          PROVE  Asks
      BY <2>2 DEF DeletePackage, BuildPackage, BlockPackage, UnblockPackage, RequestPackage
    <2>3. ASSUME NEW l \in Login, NEW o \in Login, BlockContributor(p, l, o) \/ UnblockContributor(p, l, o)
          PROVE  Asks
      BY <2>3 DEF BlockContributor, UnblockContributor
    <2>4. CASE Asks
      BY <2>4 DEF Asks, roles, world, record
    <2>5. ASSUME NEW l \in Login, NEW w \in DOMAIN workers, RevokeWorker(p, l, w)
          PROVE  UNCHANGED <<contributors, known, maintainers, requests, bucket, packages, tasks, approvals, main,
                             latest>>
      BY <2>5 DEF RevokeWorker, roles, world, record
    <2> QED
      BY <1>1, <2>1, <2>2, <2>3, <2>4, <2>5 DEF Requests
  <1>2. CASE Tick(p) \/ End(p)
    BY <1>2 DEF Tick, End, SyncGovernance, CheckUpdates, Backfill, Asks, roles, world, record
  <1> QED
    BY <1>1, <1>2

\* What begins is neither about to write roles nor about to queue a bump.
LEMMA BeginsCalm ==
  ASSUME NEW p \in Proc, Requests(p) \/ Tick(p)
  PROVE  /\ MayStart(p) /\ faults' = faults
         /\ \/ UNCHANGED calls
            \/ \E c : Start(p, c) /\ c.left # <<>> /\ Head(c.left) \notin {"people", "roles", "bump"}
  <1> DEFINE Goal == /\ MayStart(p) /\ faults' = faults
                     /\ \/ UNCHANGED calls
                        \/ \E c : Start(p, c) /\ c.left # <<>> /\ Head(c.left) \notin {"people", "roles", "bump"}
  <1>1. ASSUME NEW c, MayStart(p), Asks, Start(p, c), c.left # <<>>,
               Head(c.left) \notin {"people", "roles", "bump"}
        PROVE  Goal
    BY <1>1 DEF Asks
  <1>2. ASSUME NEW l \in Login, SignIn(p, l)
        PROVE  Goal
    <2> DEFINE c == [Call EXCEPT !.work = "signIn", !.who = l, !.role = roleFor(l), !.left = <<"upsert">>]
    <2>1. c.left = <<"upsert">>
      BY CallTyped DEF AnyCall
    <2>2. Start(p, c) /\ MayStart(p) /\ Asks
      BY <1>2 DEF SignIn
    <2> HIDE DEF c, Goal
    <2> QED
      BY <1>1, <2>1, <2>2, Tuples
  <1>3. ASSUME NEW l \in Login, RegisterWorker(p, l)
        PROVE  Goal
    <2> DEFINE c == [Call EXCEPT !.work = "worker", !.who = l, !.left = <<"worker">>]
    <2>1. c.left = <<"worker">>
      BY CallTyped DEF AnyCall
    <2>2. Start(p, c) /\ MayStart(p) /\ Asks
      BY <1>3 DEF RegisterWorker, Ask
    <2> HIDE DEF c, Goal
    <2> QED
      BY <1>1, <2>1, <2>2, Tuples
  <1>4. ASSUME NEW w, NEW l, NEW n, NEW s, MayStart(p), Asks,
               Start(p, [Call EXCEPT !.work = w, !.who = l, !.name = n, !.left = s]),
               s # <<>>, Head(s) \notin {"people", "roles", "bump"}
        PROVE  Goal
    <2> DEFINE c == [Call EXCEPT !.work = w, !.who = l, !.name = n, !.left = s]
    <2>1. c.left = s
      BY CallTyped DEF AnyCall
    <2>2. Start(p, c)
      BY <1>4
    <2> HIDE DEF c, Goal
    <2> QED
      BY <1>1, <1>4, <2>1, <2>2
  <1>5. ASSUME NEW l \in Login, NEW n \in Name,
               DeletePackage(p, l, n) \/ BuildPackage(p, l, n) \/ BlockPackage(p, l, n) \/ UnblockPackage(p, l, n)
        PROVE  Goal
    <2> HIDE DEF Goal
    <2> QED
      BY <1>4, <1>5, Tuples DEF DeletePackage, BuildPackage, BlockPackage, UnblockPackage, About
  <1>6. ASSUME NEW l \in Login, NEW o \in Login, BlockContributor(p, l, o) \/ UnblockContributor(p, l, o)
        PROVE  Goal
    <2> HIDE DEF Goal
    <2> QED
      BY <1>4, <1>6, Tuples DEF BlockContributor, UnblockContributor
  <1>7. ASSUME NEW w, NEW l, NEW n, NEW j, NEW tag, NEW s, MayStart(p), Asks,
               Start(p, [Call EXCEPT !.work = w, !.who = l, !.name = n, !.project = j, !.tag = tag, !.left = s]),
               s # <<>>, Head(s) \notin {"people", "roles", "bump"}
        PROVE  Goal
    <2> DEFINE c == [Call EXCEPT !.work = w, !.who = l, !.name = n, !.project = j, !.tag = tag, !.left = s]
    <2>1. c.left = s
      BY CallTyped DEF AnyCall
    <2>2. Start(p, c)
      BY <1>7
    <2> HIDE DEF c, Goal
    <2> QED
      BY <1>1, <1>7, <2>1, <2>2
  <1>8. ASSUME NEW l \in Login, NEW n \in Name, NEW u \in Url, RequestPackage(p, l, n, u)
        PROVE  Goal
    <2> HIDE DEF Goal
    <2>1. RequestSteps # <<>> /\ Head(RequestSteps) = "request"
      BY Tuples DEF RequestSteps
    <2> QED
      BY <1>7, <1>8, <2>1 DEF RequestPackage
  <1>9. ASSUME NEW n \in Name, Backfill(p, n)
        PROVE  Goal
    <2> HIDE DEF Goal
    <2> QED
      BY <1>7, <1>9, Tuples DEF Backfill
  <1>10. ASSUME SyncGovernance(p)
         PROVE  Goal
    <2> DEFINE c == [Call EXCEPT !.work = "governance", !.file = main, !.left = <<"list", "people", "roles">>]
    <2>1. c.left = <<"list", "people", "roles">>
      BY CallTyped DEF AnyCall
    <2>2. Start(p, c) /\ MayStart(p) /\ Asks
      BY <1>10 DEF SyncGovernance
    <2> HIDE DEF c, Goal
    <2> QED
      BY <1>1, <2>1, <2>2, Tuples
  <1>11. ASSUME CheckUpdates(p)
         PROVE  Goal
    <2> DEFINE c == [Call EXCEPT !.work = "updates", !.left = <<"stale", "retire", "select", "release", "approved", "pending", "bump", "checked">>]
    <2>1. c.left = <<"stale", "retire", "select", "release", "approved", "pending", "bump", "checked">>
      BY CallTyped DEF AnyCall
    <2>2. Start(p, c) /\ MayStart(p) /\ Asks
      BY <1>11 DEF CheckUpdates
    <2> HIDE DEF c, Goal
    <2> QED
      BY <1>1, <2>1, <2>2, Tuples
  <1>12. ASSUME NEW l \in Login, NEW w \in DOMAIN workers, RevokeWorker(p, l, w)
         PROVE  Goal
    BY <1>12 DEF RevokeWorker
  <1> HIDE DEF Goal
  <1>13. Goal
    <2>1. CASE Requests(p)
      BY <1>2, <1>3, <1>5, <1>6, <1>8, <1>12, <2>1 DEF Requests
    <2>2. CASE Tick(p)
      BY <1>9, <1>10, <1>11, <2>2 DEF Tick
    <2> QED
      BY <2>1, <2>2
  <1> QED
    BY <1>13 DEF Goal

LEMMA RequestsGrow ==
  ASSUME Inv, [Next]_vars
  PROVE  Grown
  <1>1. CASE UNCHANGED <<requests, bucket>>
    BY <1>1 DEF Grown
  <1>2. ASSUME NEW p \in Proc, InsertRequest(p)
        PROVE  Grown
    <2>1. \A x : /\ DOMAIN requests \subseteq DOMAIN Append(requests, x)
                 /\ \A i \in DOMAIN requests : Append(requests, x)[i] = requests[i]
      BY DEF Inv, TypeOK
    <2> QED
      BY <1>2, <2>1 DEF Grown, InsertRequest
  <1>3. ASSUME NEW p \in Proc, PutRecord(p) \/ SignRecord(p)
        PROVE  Grown
    BY <1>3 DEF Grown, PutRecord, SignRecord
  <1>4. ASSUME NEW p \in Proc, Point(p) \/ Adopt(p)
        PROVE  Grown
    <2>1. requests' = [requests EXCEPT ![calls[p].id].record = TRUE] /\ bucket' = bucket
      BY <1>4 DEF Point, Adopt
    <2>2. DOMAIN requests' = DOMAIN requests
      BY <2>1
    <2> QED
      BY <2>1, <2>2, Pointed DEF Grown, Inv
  <1>5. ASSUME NEW p \in Proc, Write(p)
        PROVE  Grown
    <2>1. CASE InsertRequest(p) \/ PutRecord(p) \/ SignRecord(p) \/ Point(p) \/ Adopt(p)
      BY <1>2, <1>3, <1>4, <2>1
    <2>2. CASE Upsert(p) \/ List(p) \/ People(p) \/ Role(p) \/ Register(p) \/ Delete(p)
      BY <1>1, <2>2 DEF Upsert, List, People, Role, Register, Delete, Asks, record
    <2>3. CASE InsertTask(p) \/ SetWaiting(p) \/ InsertWorker(p)
      BY <1>1, <2>3 DEF InsertTask, SetWaiting, InsertWorker, record
    <2>4. CASE BlockPerson(p) \/ LiftPerson(p) \/ BlockRegistration(p) \/ LiftPackage(p)
      BY <1>1, <2>4 DEF BlockPerson, LiftPerson, BlockRegistration, LiftPackage, record
    <2>5. CASE Updates(p)
      BY <1>1, <2>5, UpdatesOnly
    <2> QED
      BY <1>5, <2>1, <2>2, <2>3, <2>4, <2>5 DEF Write, Updates
  <1>6. ASSUME NEW p \in Proc, Requests(p) \/ Tick(p) \/ End(p)
        PROVE  Grown
    BY <1>1, <1>6, BeginsOnly
  <1>7. ASSUME NEW t \in DOMAIN tasks,
               \/ \E status \in {"staged", "failed", "queued"} : Report(t, status)
               \/ \E w \in DOMAIN workers : Claim(w, t)
               \/ \E l \in Login : Approve(l, t) \/ Reject(l, t)
        PROVE  Grown
    BY <1>1, <1>7 DEF Report, Claim, Approve, Reject, record
  <1>8. CASE MergeGovernance \/ DaysPass \/ \E j \in Project : ReleaseUpstream(j)
    BY <1>1, <1>8 DEF MergeGovernance, DaysPass, ReleaseUpstream, record
  <1> QED
    BY <1>1, <1>5, <1>6, <1>7, <1>8 DEF Next, vars

LEMMA StatusOnly ==
  ASSUME TypeOK, NEW n \in Name, NEW s,
         packages' = [packages EXCEPT ![n] = IF @ = None THEN @ ELSE [@ EXCEPT !.status = s]]
  PROVE  SameHands
  <1>1. \A m \in Name : packages[m] # None => packages[m] \in Row
    BY DEF TypeOK
  <1>2. packages[n] # None => LET r == [packages[n] EXCEPT !.status = s]
                              IN  /\ r.owner = packages[n].owner /\ r.request = packages[n].request
                                  /\ r.project = packages[n].project
    BY <1>1 DEF Row
  <1> QED
    BY <1>2 DEF SameHands, TypeOK

LEMMA HandsStay ==
  ASSUME Inv, [Next]_vars, \A p \in Proc : ~Register(p) /\ ~Adopt(p)
  PROVE  SameHands
  <1>0. UNCHANGED packages => SameHands
    BY DEF SameHands
  <1>1. \A m \in Name : packages[m] # None => packages[m] \in Row
    BY DEF Inv, TypeOK
  <1>2. \A t \in DOMAIN tasks : tasks[t].name \in Name
    <2>1. \A t \in DOMAIN tasks : tasks[t] \in Task
      BY Sequences DEF Inv, TypeOK
    <2> QED
      BY <2>1 DEF Task
  <1>3. ASSUME NEW p \in Proc, Delete(p)
        PROVE  SameHands
    <2>1. packages' = [packages EXCEPT ![calls[p].name] = None]
      BY <1>3 DEF Delete
    <2> QED
      BY <2>1 DEF SameHands, Inv, TypeOK
  <1>4. ASSUME NEW p \in Proc, SetWaiting(p)
        PROVE  SameHands
    <2>1. calls[p].name \in Name
      BY <1>4, OfHandler, Leads DEF SetWaiting, Inv, Fits
    <2> QED
      BY <1>4, <2>1, StatusOnly DEF SetWaiting, Waiting, Inv
  <1>5. ASSUME NEW p \in Proc, BlockPerson(p)
        PROVE  SameHands
    <2>1. \A n \in Name : packages[n] # None => LET r == [packages[n] EXCEPT !.status = "rejected"]
                                                IN  /\ r.owner = packages[n].owner /\ r.request = packages[n].request
                                                    /\ r.project = packages[n].project
      BY <1>1 DEF Row
    <2> QED
      BY <1>5, <2>1 DEF BlockPerson, SameHands, Registered
  <1>6. ASSUME NEW p \in Proc, BlockRegistration(p) \/ LiftPackage(p)
        PROVE  SameHands
    <2> DEFINE n == calls[p].name
    <2>1. n \in Name
      BY <1>6, OfHandler, Leads DEF BlockRegistration, LiftPackage, Inv, Fits
    <2>2. packages[n] # None => LET r == [packages[n] EXCEPT !.status = "rejected", !.by = calls[p].who]
                                    u == [packages[n] EXCEPT !.by = None]
                                IN  /\ r.owner = packages[n].owner /\ r.request = packages[n].request
                                    /\ r.project = packages[n].project
                                    /\ u.owner = packages[n].owner /\ u.request = packages[n].request
                                    /\ u.project = packages[n].project
      BY <1>1, <2>1 DEF Row
    <2> QED
      BY <1>6, <2>1, <2>2 DEF BlockRegistration, LiftPackage, SameHands, Inv, TypeOK
  <1>7. ASSUME NEW p \in Proc, Updates(p)
        PROVE  SameHands
    <2>1. Fits(calls[p], contributors) /\ calls[p].work = "updates"
      BY <1>7, UpdatesHead
    <2>2. CASE Retire(p)
      <3>1. calls[p].todo \subseteq Name
        BY <2>1, <2>2 DEF Retire, At, Fits
      <3> QED
        BY <1>0, <2>2, <3>1, StatusOnly DEF Retire, Inv
    <2>3. CASE Bump(p)
      <3>1. calls[p].name \in Name
        BY <2>1, <2>3 DEF Bump, At, Fits
      <3> QED
        BY <2>3, <3>1, StatusOnly DEF Bump, Waiting, Inv
    <2> QED
      BY <1>0, <1>7, <2>2, <2>3, UpdatesOnly
  <1>8. ASSUME NEW p \in Proc, Write(p)
        PROVE  SameHands
    <2>1. CASE Upsert(p) \/ List(p) \/ People(p) \/ Role(p)
      BY <1>0, <2>1 DEF Upsert, List, People, Role, Asks
    <2>2. CASE InsertRequest(p) \/ PutRecord(p) \/ SignRecord(p) \/ Point(p)
      BY <1>0, <2>2 DEF InsertRequest, PutRecord, SignRecord, Point
    <2>3. CASE InsertTask(p) \/ InsertWorker(p) \/ LiftPerson(p)
      BY <1>0, <2>3 DEF InsertTask, InsertWorker, LiftPerson
    <2> QED
      BY <1>3, <1>4, <1>5, <1>6, <1>7, <1>8, <2>1, <2>2, <2>3 DEF Write, Updates
  <1>9. ASSUME NEW p \in Proc, Requests(p) \/ Tick(p) \/ End(p)
        PROVE  SameHands
    BY <1>0, <1>9, BeginsOnly
  <1>10. ASSUME NEW t \in DOMAIN tasks,
                \/ \E status \in {"staged", "failed", "queued"} : Report(t, status)
                \/ \E w \in DOMAIN workers : Claim(w, t)
                \/ \E l \in Login : Approve(l, t) \/ Reject(l, t)
         PROVE  SameHands
    BY <1>2, <1>10, StatusOnly DEF Report, Claim, Approve, Reject, Inv
  <1>11. CASE MergeGovernance \/ DaysPass \/ \E j \in Project : ReleaseUpstream(j)
    BY <1>0, <1>11 DEF MergeGovernance, DaysPass, ReleaseUpstream
  <1> QED
    BY <1>0, <1>8, <1>9, <1>10, <1>11 DEF Next, vars

-----------------------------------------------------------------------------
\* The record: what a request's invocation has written stays.
LEMMA StartWritten ==
  ASSUME TypeOK, CallsWritten, Grown, NEW p \in Proc, NEW c, Start(p, c),
         c.left # <<>> => Written(c, requests', bucket')
  PROVE  CallsWritten'
  <1> SUFFICES ASSUME NEW q \in Proc, ~(Idle(q)')
               PROVE  Written(calls'[q], requests', bucket')
    BY DEF CallsWritten
  <1>1. CASE q = p
    <2>1. calls'[p] = IF c.left = <<>> THEN Call ELSE c
      BY DEF Start, TypeOK
    <2>2. Call.left = <<>>
      BY DEF Call
    <2> QED
      BY <1>1, <2>1, <2>2 DEF Idle
  <1>2. CASE q # p
    <2>1. calls'[q] = calls[q]
      BY <1>2 DEF Start, TypeOK
    <2>2. Written(calls[q], requests, bucket)
      BY <2>1 DEF Idle, CallsWritten
    <2> HIDE DEF CallsWritten
    <2> QED
      BY <2>1, <2>2 DEF Written, Grown
  <1> QED
    BY <1>1, <1>2

\* The names a handler goes by do not change under way.
LEMMA GoesOn ==
  ASSUME TypeOK, NEW p \in Proc
  PROVE  /\ [calls[p] EXCEPT !.left = Tail(@)].work = calls[p].work
         /\ \A S : /\ [calls[p] EXCEPT !.todo = S].work = calls[p].work
                   /\ [calls[p] EXCEPT !.todo = S].left = calls[p].left
                   /\ [calls[p] EXCEPT !.todo = S].todo = S
                   /\ [calls[p] EXCEPT !.todo = S].file = calls[p].file
                   /\ [calls[p] EXCEPT !.todo = S, !.left = Tail(@)].work = calls[p].work
                   /\ [calls[p] EXCEPT !.todo = S, !.left = Tail(@)].left = Tail(calls[p].left)
                   /\ [calls[p] EXCEPT !.todo = S, !.left = Tail(@)].todo = S
                   /\ [calls[p] EXCEPT !.todo = S, !.left = Tail(@)].file = calls[p].file
         /\ LET c == [calls[p] EXCEPT !.left = Tail(@)]
            IN  /\ c.left = Tail(calls[p].left) /\ c.who = calls[p].who /\ c.name = calls[p].name
                /\ c.project = calls[p].project /\ c.id = calls[p].id
                /\ c.file = calls[p].file /\ c.todo = calls[p].todo
  <1>1. calls[p] \in AnyCall
    BY DEF TypeOK
  <1> QED
    BY <1>1 DEF AnyCall

LEMMA ThenKeeps ==
  ASSUME TypeOK, NEW p \in Proc,
         \/ Then(p)
         \/ \E S : \/ Start(p, [calls[p] EXCEPT !.todo = S])
                  \/ Start(p, [calls[p] EXCEPT !.todo = S, !.left = Tail(@)])
  PROVE  \E c : Start(p, c) /\ c.work = calls[p].work /\ c.left \in {calls[p].left, Tail(calls[p].left)}
  <1>1. CASE Then(p)
    <2> DEFINE c == [calls[p] EXCEPT !.left = Tail(@)]
    <2>1. Start(p, c) /\ c.work = calls[p].work /\ c.left = Tail(calls[p].left)
      BY <1>1, GoesOn DEF Then
    <2> QED
      BY <2>1
  <1>2. ASSUME NEW S, Start(p, [calls[p] EXCEPT !.todo = S])
        PROVE  \E c : Start(p, c) /\ c.work = calls[p].work /\ c.left = calls[p].left
    <2> DEFINE c == [calls[p] EXCEPT !.todo = S]
    <2>1. Start(p, c) /\ c.work = calls[p].work /\ c.left = calls[p].left
      BY <1>2, GoesOn
    <2> QED
      BY <2>1
  <1>3. ASSUME NEW S, Start(p, [calls[p] EXCEPT !.todo = S, !.left = Tail(@)])
        PROVE  \E c : Start(p, c) /\ c.work = calls[p].work /\ c.left = Tail(calls[p].left)
    <2> DEFINE c == [calls[p] EXCEPT !.todo = S, !.left = Tail(@)]
    <2>1. Start(p, c) /\ c.work = calls[p].work /\ c.left = Tail(calls[p].left)
      BY <1>3, GoesOn
    <2> QED
      BY <2>1
  <1> QED
    BY <1>1, <1>2, <1>3

\* Where the calls are after a step.
LEMMA Placed ==
  ASSUME TypeOK, NEW p \in Proc, NEW c, Start(p, c)
  PROVE  /\ calls'[p] = IF c.left = <<>> THEN Call ELSE c
         /\ \A q \in Proc \ {p} : calls'[q] = calls[q]
         /\ Call.left = <<>>
  BY DEF Start, TypeOK, Call

\* The daily check stays what it is.
LEMMA UpdatesKeep ==
  ASSUME Inv, NEW p \in Proc, Updates(p)
  PROVE  \E c : Start(p, c) /\ c.work = "updates"
  <1>1. calls[p].work = "updates"
    BY UpdatesHead
  <1>2. CASE Look(p)
    BY <1>2, Looked
  <1>3. CASE Then(p)
    BY <1>1, <1>3, ThenKeeps DEF Inv
  <1>4. CASE Retire(p)
    <2>1. Then(p) \/ \E S : Start(p, [calls[p] EXCEPT !.todo = S])
      BY <1>4 DEF Retire
    <2> QED
      BY <1>1, <2>1, ThenKeeps DEF Inv
  <1>5. CASE Bump(p)
    <2>1. Head(calls[p].left) = "bump"
      BY <1>5 DEF Bump, At
    <2> QED
      BY <1>5, <2>1, UpdateGoesOn DEF Bump, NextPackage
  <1> QED
    BY <1>2, <1>3, <1>4, <1>5 DEF Updates, Checked

\* A handler stays what it is, and those beside it where they are.
LEMMA WriteKeeps ==
  ASSUME Inv, NEW p \in Proc, Write(p)
  PROVE  /\ ~Idle(p) /\ \A q \in Proc \ {p} : calls'[q] = calls[q]
         /\ Idle(p)' \/ calls'[p].work = calls[p].work
  <1>1. \E c : Start(p, c) /\ c.work = calls[p].work
    <2>1. CASE InsertRequest(p)
      <3> DEFINE d == [calls[p] EXCEPT !.id = Len(requests) + 1, !.left = Tail(@)]
      <3>1. d.work = calls[p].work
        BY DEF Inv, TypeOK, AnyCall
      <3>2. Start(p, d)
        BY <2>1 DEF InsertRequest
      <3> HIDE DEF d
      <3> QED
        BY <3>1, <3>2
    <2>2. CASE Then(p)
      BY <2>2, ThenKeeps DEF Inv
    <2>3. CASE People(p) \/ Role(p)
      <3>1. \/ Then(p)
            \/ \E S : \/ Start(p, [calls[p] EXCEPT !.todo = S])
                     \/ Start(p, [calls[p] EXCEPT !.todo = S, !.left = Tail(@)])
        BY <2>3 DEF People, Role
      <3> QED
        BY <3>1, ThenKeeps DEF Inv
    <2>4. CASE Upsert(p) \/ List(p) \/ PutRecord(p) \/ SignRecord(p) \/ Point(p) \/ Register(p) \/ Adopt(p) \/ Delete(p)
      BY <2>2, <2>4 DEF Upsert, List, PutRecord, SignRecord, Point, Register, Adopt, Delete
    <2>5. CASE InsertTask(p) \/ SetWaiting(p) \/ InsertWorker(p)
      BY <2>2, <2>5 DEF InsertTask, SetWaiting, InsertWorker
    <2>6. CASE BlockPerson(p) \/ LiftPerson(p) \/ BlockRegistration(p) \/ LiftPackage(p)
      BY <2>2, <2>6 DEF BlockPerson, LiftPerson, BlockRegistration, LiftPackage
    <2>7. CASE Updates(p)
      BY <2>7, UpdatesKeep, UpdatesHead
    <2> QED
      BY <2>1, <2>3, <2>4, <2>5, <2>6, <2>7 DEF Write, Updates
  <1>2. ~Idle(p)
    <2>1. CASE Updates(p)
      BY <2>1, UpdatesHead
    <2> QED
      BY <2>1 DEF Write, Updates, Upsert, List, People, Role, InsertRequest, PutRecord, SignRecord, Point, Register, Adopt,
         Delete, InsertTask, SetWaiting, InsertWorker, BlockPerson, LiftPerson, BlockRegistration, LiftPackage, At
  <1> QED
    BY <1>1, <1>2 DEF Start, Inv, TypeOK, Idle, Call

\* The handlers that write no record.
LEMMA OthersWritten ==
  ASSUME Inv, CallsWritten, Grown, NEW p \in Proc, Write(p), calls[p].work \notin {"request", "backfill"}
  PROVE  CallsWritten'
  <1>1. ASSUME NEW c, Start(p, c), c.work = calls[p].work
        PROVE  CallsWritten'
    <2>1. Written(c, requests', bucket')
      BY <1>1 DEF Written
    <2> QED
      BY <1>1, <2>1, StartWritten DEF Inv
  <1>2. CASE Then(p)
    BY <1>1, <1>2, GoesOn DEF Then, Inv
  <1>3. ASSUME NEW S, Start(p, [calls[p] EXCEPT !.todo = S]) \/ Start(p, [calls[p] EXCEPT !.todo = S, !.left = Tail(@)])
        PROVE  CallsWritten'
    BY <1>1, <1>3, GoesOn DEF Inv
  <1>4. CASE Upsert(p) \/ List(p) \/ People(p) \/ Role(p)
    BY <1>2, <1>3, <1>4 DEF Upsert, List, People, Role
  <1>5. CASE InsertTask(p) \/ SetWaiting(p) \/ InsertWorker(p) \/ Delete(p)
    BY <1>2, <1>5 DEF InsertTask, SetWaiting, InsertWorker, Delete
  <1>6. CASE BlockPerson(p) \/ LiftPerson(p) \/ BlockRegistration(p) \/ LiftPackage(p)
    BY <1>2, <1>6 DEF BlockPerson, LiftPerson, BlockRegistration, LiftPackage
  <1>7. CASE Updates(p)
    BY <1>1, <1>7, UpdatesKeep, UpdatesHead
  <1>8. ~InsertRequest(p) /\ ~PutRecord(p) /\ ~SignRecord(p) /\ ~Point(p) /\ ~Register(p) /\ ~Adopt(p)
    BY OfHandler, Leads DEF Inv, InsertRequest, PutRecord, SignRecord, Point, Register, Adopt
  <1> QED
    BY <1>4, <1>5, <1>6, <1>7, <1>8 DEF Write, Updates

\* ... and the writes of one that does.
LEMMA RequestWritten ==
  ASSUME Inv, CallsWritten, Grown, NEW p \in Proc, Write(p), calls[p].work \in {"request", "backfill"}
  PROVE  CallsWritten'
  <1> DEFINE c == [calls[p] EXCEPT !.left = Tail(@)]
  <1>0. /\ c.left = Tail(calls[p].left) /\ c.who = calls[p].who /\ c.name = calls[p].name
        /\ c.project = calls[p].project /\ c.id = calls[p].id /\ c.work = calls[p].work
    BY GoesOn DEF Inv
  <1>1. Then(p) <=> Start(p, c)
    BY DEF Then
  <1> HIDE DEF c
  <1>2. ASSUME ~Idle(p)
        PROVE  Written(calls[p], requests, bucket)
    BY <1>2 DEF CallsWritten
  <1>3. CASE InsertRequest(p)
    <2> DEFINE i == Len(requests) + 1
               d == [calls[p] EXCEPT !.id = i, !.left = Tail(@)]
               r == [name |-> calls[p].name, owner |-> calls[p].who, project |-> calls[p].project,
                     migrated |-> calls[p].work = "backfill", record |-> FALSE]
    <2>1. Start(p, d) /\ requests' = Append(requests, r)
      BY <1>3 DEF InsertRequest
    <2>2. calls[p] \in AnyCall /\ Head(Tail(calls[p].left)) = "record"
      BY <1>3, OfHandler, Leads DEF InsertRequest, Inv
    <2>3. /\ d.left = Tail(calls[p].left) /\ d.who = calls[p].who /\ d.name = calls[p].name
          /\ d.project = calls[p].project /\ d.id = i /\ d.work = calls[p].work
      BY <2>2 DEF AnyCall
    <2>4. /\ r.name = calls[p].name /\ r.owner = calls[p].who /\ r.project = calls[p].project
          /\ r.migrated <=> (calls[p].work = "backfill")
      OBVIOUS
    <2> HIDE DEF d, r
    <2>5. i \in DOMAIN requests' /\ requests'[i] = r
      BY <2>1 DEF Inv, TypeOK
    <2> HIDE DEF i
    <2>6. Written(d, requests', bucket')
      BY <2>2, <2>3, <2>4, <2>5 DEF Written
    <2> QED
      BY <2>1, <2>6, StartWritten DEF Inv
  <1>4. ASSUME PutRecord(p) \/ SignRecord(p) \/ Point(p)
        PROVE  Written(c, requests', bucket')
    <2>1. /\ ~Idle(p) /\ calls[p].left \in LeftOf[calls[p].work] /\ calls[p].work \in Handler
          /\ Head(calls[p].left) \in {"record", "sign", "point"}
      BY <1>4, OfHandler DEF PutRecord, SignRecord, Point, Inv
    <2>2. /\ c.id \in DOMAIN requests
          /\ requests[c.id].name = c.name /\ requests[c.id].owner = c.who /\ requests[c.id].project = c.project
          /\ requests[c.id].migrated <=> (c.work = "backfill")
          /\ Head(calls[p].left) # "record" => <<c.id, "request.json">> \in bucket
          /\ Head(calls[p].left) \notin {"record", "sign"} => <<c.id, "request.json.sig">> \in bucket
      BY <1>0, <1>2, <2>1 DEF Written
    <2>3. /\ c.id \in DOMAIN requests'
          /\ requests'[c.id].name = c.name /\ requests'[c.id].owner = c.who /\ requests'[c.id].project = c.project
          /\ requests'[c.id].migrated <=> (c.work = "backfill")
      BY <2>2 DEF Grown
    <2>4. CASE PutRecord(p)
      <3>1. Head(c.left) = "sign" /\ <<c.id, "request.json">> \in bucket'
        BY <1>0, <2>1, <2>4, OfHandler, Leads DEF PutRecord, Inv
      <3> QED
        BY <2>3, <3>1 DEF Written
    <2>5. CASE SignRecord(p)
      <3>1. Head(c.left) \in {"point", "adopt"} /\ Head(calls[p].left) = "sign"
        BY <1>0, <2>1, <2>5, OfHandler, Leads DEF SignRecord, Inv
      <3>2. <<c.id, "request.json">> \in bucket' /\ <<c.id, "request.json.sig">> \in bucket'
        BY <1>0, <2>2, <2>5, <3>1 DEF SignRecord
      <3> QED
        BY <2>3, <3>1, <3>2 DEF Written
    <2>6. CASE Point(p)
      <3>1. c.left = <<"register">> /\ Head(calls[p].left) = "point"
        BY <1>0, <2>1, <2>6, OfHandler, Leads DEF Point, Inv
      <3>2. <<c.id, "request.json">> \in bucket' /\ <<c.id, "request.json.sig">> \in bucket'
        BY <2>2, <3>1 DEF Grown
      <3>3. requests' = [requests EXCEPT ![c.id].record = TRUE]
        BY <1>0, <2>6 DEF Point
      <3>4. requests'[c.id].record
        BY <2>2, <3>3, Pointed DEF Inv
      <3> QED
        BY <2>3, <3>1, <3>2, <3>4, Tuples DEF Written
    <2> QED
      BY <1>4, <2>4, <2>5, <2>6
  <1>5. CASE PutRecord(p) \/ SignRecord(p) \/ Point(p)
    <2>1. Start(p, c)
      BY <1>1, <1>5 DEF PutRecord, SignRecord, Point
    <2> QED
      BY <1>4, <1>5, <2>1, StartWritten DEF Inv
  <1>6. CASE Register(p) \/ Adopt(p)
    <2>1. Start(p, c) /\ c.left = <<>>
      BY <1>0, <1>1, <1>6, OfHandler, Leads DEF Register, Adopt, Inv
    <2> QED
      BY <2>1, StartWritten DEF Inv
  <1>7. ~Upsert(p) /\ ~List(p) /\ ~People(p) /\ ~Role(p) /\ ~Delete(p) /\ ~InsertTask(p) /\ ~SetWaiting(p)
    BY OfHandler, Leads DEF Inv, Upsert, List, People, Role, Delete, InsertTask, SetWaiting
  <1>8. ~InsertWorker(p) /\ ~BlockPerson(p) /\ ~LiftPerson(p) /\ ~BlockRegistration(p) /\ ~LiftPackage(p)
    BY OfHandler, Leads DEF Inv, InsertWorker, BlockPerson, LiftPerson, BlockRegistration, LiftPackage
  <1>9. ~Updates(p)
    BY UpdatesHead
  <1> QED
    BY <1>3, <1>5, <1>6, <1>7, <1>8, <1>9 DEF Write, Updates

LEMMA StaysWritten ==
  ASSUME CallsWritten, Grown, UNCHANGED calls
  PROVE  CallsWritten'
  BY DEF CallsWritten, Idle, Written, Grown

LEMMA BeginsWritten ==
  ASSUME Inv, CallsWritten, Grown, NEW p \in Proc, Requests(p) \/ Tick(p) \/ End(p)
  PROVE  CallsWritten'
  <1>1. ASSUME NEW c, Start(p, c), \/ c.left = <<>> \/ Head(c.left) = "request" \/ c.work \notin {"request", "backfill"}
        PROVE  CallsWritten'
    <2>1. c.left # <<>> => Written(c, requests', bucket')
      BY <1>1 DEF Written
    <2> QED
      BY <1>1, <2>1, StartWritten DEF Inv
  <1>2. ASSUME NEW w \in Handler, NEW l, NEW s, w \notin {"request", "backfill"},
               \/ Start(p, [Call EXCEPT !.work = w, !.who = l, !.left = s])
               \/ \E n : Start(p, [Call EXCEPT !.work = w, !.who = l, !.name = n, !.left = s])
               \/ \E r : Start(p, [Call EXCEPT !.work = w, !.who = l, !.role = r, !.left = s])
        PROVE  CallsWritten'
    <2>1. /\ [Call EXCEPT !.work = w, !.who = l, !.left = s].work = w
          /\ \A n : [Call EXCEPT !.work = w, !.who = l, !.name = n, !.left = s].work = w
          /\ \A r : [Call EXCEPT !.work = w, !.who = l, !.role = r, !.left = s].work = w
      BY CallTyped DEF AnyCall
    <2> QED
      BY <1>1, <1>2, <2>1
  <1>3. {"signIn", "worker", "delete", "build", "block", "unblock"} \subseteq Handler
    BY DEF Handler, LeftOf
  <1>4. ASSUME NEW l \in Login, SignIn(p, l) \/ RegisterWorker(p, l)
        PROVE  CallsWritten'
    BY <1>2, <1>3, <1>4 DEF SignIn, RegisterWorker, Ask
  <1>5. ASSUME NEW l \in Login, NEW n \in Name,
               DeletePackage(p, l, n) \/ BuildPackage(p, l, n) \/ BlockPackage(p, l, n) \/ UnblockPackage(p, l, n)
        PROVE  CallsWritten'
    BY <1>2, <1>3, <1>5 DEF DeletePackage, BuildPackage, BlockPackage, UnblockPackage, About
  <1>6. ASSUME NEW l \in Login, NEW o \in Login, BlockContributor(p, l, o) \/ UnblockContributor(p, l, o)
        PROVE  CallsWritten'
    BY <1>2, <1>3, <1>6 DEF BlockContributor, UnblockContributor
  <1>7. ASSUME NEW l \in Login, NEW w \in DOMAIN workers, RevokeWorker(p, l, w)
        PROVE  CallsWritten'
    BY <1>7, StaysWritten DEF RevokeWorker
  <1>8. ASSUME NEW l, NEW n, NEW j, NEW tag, NEW w,
               \/ Start(p, [Call EXCEPT !.work = w, !.who = l, !.name = n, !.project = j, !.tag = tag,
                                        !.left = RequestSteps])
               \/ Start(p, [Call EXCEPT !.work = w, !.who = l, !.name = n, !.project = j, !.tag = tag,
                                        !.left = <<"request", "record", "sign", "adopt">>])
        PROVE  CallsWritten'
    <2>1. /\ Head([Call EXCEPT !.work = w, !.who = l, !.name = n, !.project = j, !.tag = tag,
                               !.left = RequestSteps].left) = "request"
          /\ Head([Call EXCEPT !.work = w, !.who = l, !.name = n, !.project = j, !.tag = tag,
                               !.left = <<"request", "record", "sign", "adopt">>].left) = "request"
      BY CallTyped, Tuples DEF AnyCall, RequestSteps
    <2> QED
      BY <1>1, <1>8, <2>1
  <1>9. ASSUME NEW l \in Login, NEW n \in Name, NEW u \in Url, RequestPackage(p, l, n, u)
        PROVE  CallsWritten'
    BY <1>8, <1>9 DEF RequestPackage
  <1>10. ASSUME NEW n \in Name, Backfill(p, n)
         PROVE  CallsWritten'
    BY <1>8, <1>10 DEF Backfill
  <1>11. CASE SyncGovernance(p) \/ CheckUpdates(p)
    <2>1. /\ \A f, s : [Call EXCEPT !.work = "governance", !.file = f, !.left = s].work = "governance"
          /\ \A s : [Call EXCEPT !.work = "updates", !.left = s].work = "updates"
      BY CallTyped DEF AnyCall
    <2> QED
      BY <1>1, <1>11, <2>1 DEF SyncGovernance, CheckUpdates
  <1>12. CASE End(p)
    <2>1. Start(p, Call) /\ Call.left = <<>>
      BY <1>12 DEF End, Call
    <2> QED
      BY <1>1, <2>1
  <1> QED
    BY <1>4, <1>5, <1>6, <1>7, <1>9, <1>10, <1>11, <1>12 DEF Requests, Tick

\* Registrations point at what has been written.
LEMMA RecordedInit == Init => Recorded
  <1> SUFFICES ASSUME Init
               PROVE  Recorded
    OBVIOUS
  <1>1. CallsWritten
    BY DEF Init, CallsWritten, Idle, Call
  <1>2. ASSUME NEW n \in Registered
        PROVE  packages[n].request = 0
    BY <1>2 DEF Init, Registered, Registration
  <1>3. requests = <<>>
    BY DEF Init
  <1> QED
    BY <1>1, <1>2, <1>3 DEF Recorded, OnRecord

LEMMA RecordedNext == Inv /\ Recorded /\ [Next]_vars => Recorded'
  <1> SUFFICES ASSUME Inv, Recorded, [Next]_vars
               PROVE  Recorded'
    OBVIOUS
  <1>0. Grown
    BY RequestsGrow
  <1>1. CallsWritten'
    <2>1. CASE UNCHANGED calls
      BY <1>0, <2>1, StaysWritten DEF Recorded
    <2>2. ASSUME NEW p \in Proc, Write(p) \/ Requests(p) \/ Tick(p) \/ End(p)
          PROVE  CallsWritten'
      BY <1>0, <2>2, OthersWritten, RequestWritten, BeginsWritten DEF Recorded
    <2> QED
      BY <2>1, <2>2 DEF Next, vars, Report, Claim, Approve, Reject, MergeGovernance, DaysPass, ReleaseUpstream
  <1>2. Len(requests) \in Nat /\ Len(requests') \in Nat /\ DOMAIN requests = 1 .. Len(requests)
        /\ DOMAIN requests' = 1 .. Len(requests')
    BY NextInv DEF Inv, TypeOK
  <1>3. Len(requests) <= Len(requests')
    BY <1>0, <1>2 DEF Grown
  <1> DEFINE OK(i, n) ==
        /\ i \in 0 .. Len(requests')
        /\ i # 0 => /\ requests'[i].name = n /\ requests'[i].record
                    /\ {<<i, "request.json">>, <<i, "request.json.sig">>} \subseteq bucket'
  <1>4. ASSUME NEW n \in Name, packages[n] # None
        PROVE  OK(packages[n].request, n)
    <2>1. packages[n].request \in 0 .. Len(requests)
      BY <1>4 DEF Recorded, Registered
    <2>2. packages[n].request # 0 => /\ packages[n].request \in DOMAIN requests
                                     /\ requests[packages[n].request].name = n
                                     /\ requests[packages[n].request].record
                                     /\ <<packages[n].request, "request.json">> \in bucket
                                     /\ <<packages[n].request, "request.json.sig">> \in bucket
      BY <1>2, <1>4, <2>1 DEF Recorded, OnRecord, Registered
    <2> QED
      BY <1>0, <1>2, <1>3, <2>1, <2>2 DEF Grown
  <1>6. ASSUME NEW p \in Proc, Register(p) \/ Adopt(p)
        PROVE  \A n \in Name : packages'[n] # None => OK(packages'[n].request, n)
    <2> DEFINE c == calls[p]
    <2>1. /\ ~Idle(p) /\ c \in AnyCall /\ c.work \in {"request", "backfill"} /\ c.name \in Name
          /\ Head(c.left) \in {"register", "adopt"}
      BY <1>6, OfHandler, Leads DEF Register, Adopt, Inv, Fits
    <2>2. /\ c.id \in DOMAIN requests /\ requests[c.id].name = c.name
          /\ <<c.id, "request.json">> \in bucket /\ <<c.id, "request.json.sig">> \in bucket
          /\ Head(c.left) = "register" => requests[c.id].record
      BY <2>1 DEF Recorded, CallsWritten, Written
    <2>3. requests'[c.id].record
      <3>1. CASE Register(p)
        BY <1>0, <2>2, <3>1, OfHandler DEF Register, Grown, Inv
      <3>2. CASE Adopt(p)
        BY <2>2, <3>2, Pointed DEF Adopt, Inv
      <3> QED
        BY <1>6, <3>1, <3>2
    <2>4. OK(c.id, c.name)
      BY <1>0, <1>2, <1>3, <2>2, <2>3 DEF Grown
    <2>5. ASSUME packages'[c.name] # None
          PROVE  packages'[c.name].request = c.id
      <3>1. CASE Register(p)
        <4> DEFINE new == Registration(c.who, c.project, "registered", c.id, c.tag)
        <4>1. new.request = c.id /\ [new EXCEPT !.owner = packages[c.name].owner, !.by = packages[c.name].by].request = c.id
          BY DEF Registration
        <4>2. packages'[c.name] =
                IF packages[c.name] = None THEN new
                ELSE [new EXCEPT !.owner = packages[c.name].owner, !.by = packages[c.name].by]
          BY <2>1, <3>1 DEF Register, Inv, TypeOK
        <4> HIDE DEF new
        <4> QED
          BY <4>1, <4>2
      <3>2. CASE Adopt(p)
        <4>1. packages'[c.name] =
                IF packages[c.name] = None THEN packages[c.name]
                ELSE [packages[c.name] EXCEPT !.request = c.id, !.project = c.project]
          BY <2>1, <3>2 DEF Adopt, Inv, TypeOK
        <4>2. packages[c.name] # None => packages[c.name] \in Row
          BY <2>1 DEF Inv, TypeOK
        <4>3. packages[c.name] # None =>
                [packages[c.name] EXCEPT !.request = c.id, !.project = c.project].request = c.id
          BY <4>2 DEF Row
        <4> QED
          BY <2>5, <4>1, <4>3
      <3> QED
        BY <1>6, <3>1, <3>2
    <2>6. \A n \in Name \ {c.name} : packages'[n] = packages[n]
      BY <1>6 DEF Register, Adopt, Inv, TypeOK
    <2>7. ASSUME NEW n \in Name, packages'[n] # None
          PROVE  OK(packages'[n].request, n)
      <3>1. CASE n = c.name
        BY <2>4, <2>5, <2>7, <3>1
      <3>2. CASE n # c.name
        BY <1>4, <2>6, <2>7, <3>2
      <3> QED
        BY <3>1, <3>2
    <2> QED
      BY <2>7
  <1>7. \A n \in Name : packages'[n] # None => OK(packages'[n].request, n)
    <2> HIDE DEF OK
    <2>1. CASE SameHands
      BY <1>4, <2>1 DEF SameHands
    <2>2. SameHands \/ \E p \in Proc : Register(p) \/ Adopt(p)
      BY HandsStay
    <2> QED
      BY <1>6, <2>1, <2>2
  <1> QED
    BY <1>1, <1>7 DEF Recorded, OnRecord, Registered

\* However requests, renewals and backfills interleave and wherever an
\* invocation ends: what a registration points at is complete, since the row,
\* the document, its signature and the pointer come before it, in this order,
\* and nothing takes any of them back.
THEOREM RegistrationsAreOnRecord == Spec => []OnRecord
  <1>1. Init => Inv /\ Recorded
    BY InitInv, RecordedInit
  <1>2. Inv /\ Recorded /\ [Next]_vars => (Inv /\ Recorded)'
    BY NextInv, RecordedNext
  <1>3. Inv /\ Recorded => OnRecord
    BY DEF Recorded
  <1> QED
    BY <1>1, <1>2, <1>3, PTL DEF Spec

-----------------------------------------------------------------------------
\* Builds.
LEMMA CancelledStays ==
  ASSUME Inv, NEW S, tasks' = Cancelled(S)
  PROVE  NoneReopens
  <1>1. \A t \in DOMAIN tasks : tasks[t] \in Task
    BY Sequences DEF Inv, TypeOK
  <1>2. \A t \in DOMAIN tasks : LET r == [tasks[t] EXCEPT !.status = "cancelled"]
                                IN  /\ r.name = tasks[t].name /\ r.owner = tasks[t].owner
                                    /\ r.bump = tasks[t].bump /\ r.status = "cancelled"
    BY <1>1 DEF Task
  <1> QED
    BY <1>2 DEF Cancelled, NoneReopens, Open

LEMMA TasksStay ==
  ASSUME Inv, [Next]_vars, \A p \in Proc : ~InsertTask(p) /\ ~Bump(p)
  PROVE  NoneReopens
  <1>0. \A t \in DOMAIN tasks : tasks[t] \in Task
    BY Sequences DEF Inv, TypeOK
  <1>1. UNCHANGED tasks => NoneReopens
    BY DEF NoneReopens
  <1>2. \A t \in DOMAIN tasks : \A s : LET r == [tasks[t] EXCEPT !.status = s]
                                      IN  /\ r.name = tasks[t].name /\ r.owner = tasks[t].owner
                                          /\ r.bump = tasks[t].bump /\ r.status = s
    BY <1>0 DEF Task
  <1>3. ASSUME NEW S, tasks' = Cancelled(S)
        PROVE  NoneReopens
    BY <1>3, CancelledStays
  <1>4. ASSUME NEW t \in DOMAIN tasks, NEW s, tasks[t].status \in Open, tasks' = [tasks EXCEPT ![t].status = s]
        PROVE  NoneReopens
    <2>1. DOMAIN tasks' = DOMAIN tasks
      BY <1>4
    <2>2. \A u \in DOMAIN tasks : tasks'[u] = IF u = t THEN [tasks[t] EXCEPT !.status = s] ELSE tasks[u]
      BY <1>4
    <2> QED
      BY <1>2, <1>4, <2>1, <2>2 DEF NoneReopens
  <1>5. ASSUME NEW p \in Proc, Write(p)
        PROVE  NoneReopens
    <2>1. CASE Upsert(p) \/ List(p) \/ People(p) \/ Role(p)
      BY <1>1, <2>1 DEF Upsert, List, People, Role, Asks
    <2>2. CASE InsertRequest(p) \/ PutRecord(p) \/ SignRecord(p) \/ Point(p) \/ Register(p) \/ Adopt(p)
      BY <1>1, <2>2 DEF InsertRequest, PutRecord, SignRecord, Point, Register, Adopt
    <2>3. CASE SetWaiting(p) \/ InsertWorker(p) \/ LiftPerson(p) \/ LiftPackage(p)
      BY <1>1, <2>3 DEF SetWaiting, InsertWorker, LiftPerson, LiftPackage
    <2>4. CASE Delete(p) \/ BlockPerson(p) \/ BlockRegistration(p) \/ Retire(p)
      BY <1>1, <1>3, <2>4 DEF Delete, BlockPerson, BlockRegistration, Retire
    <2>5. CASE Updates(p) /\ ~Retire(p) /\ ~Bump(p)
      BY <1>1, <2>5, UpdatesOnly
    <2> QED
      BY <1>5, <2>1, <2>2, <2>3, <2>4, <2>5 DEF Write, Updates
  <1>6. ASSUME NEW p \in Proc, Requests(p) \/ Tick(p) \/ End(p)
        PROVE  NoneReopens
    BY <1>1, <1>6, BeginsOnly
  <1>7. ASSUME NEW t \in DOMAIN tasks, NEW status \in {"staged", "failed", "queued"}, Report(t, status)
        PROVE  NoneReopens
    <2>1. \A u \in DOMAIN tasks : \/ u = t /\ tasks'[u] = [tasks[t] EXCEPT !.status = status]
                                  \/ tasks'[u] = [tasks[u] EXCEPT !.status = "cancelled"]
                                  \/ tasks'[u] = tasks[u]
      BY <1>7 DEF Report
    <2>2. DOMAIN tasks' = DOMAIN tasks /\ tasks[t].status \in Open
      BY <1>7 DEF Report, OpenTasks, Open
    <2>3. ASSUME NEW u \in DOMAIN tasks
          PROVE  /\ tasks'[u].name = tasks[u].name /\ tasks'[u].owner = tasks[u].owner
                 /\ tasks'[u].bump = tasks[u].bump
                 /\ tasks'[u].status \in Open => tasks[u].status \in Open
      <3>1. CASE u = t /\ tasks'[u] = [tasks[t] EXCEPT !.status = status]
        BY <1>2, <2>2, <3>1
      <3>2. CASE tasks'[u] = [tasks[u] EXCEPT !.status = "cancelled"]
        BY <1>2, <3>2 DEF Open
      <3> QED
        BY <2>1, <3>1, <3>2
    <2> QED
      BY <2>2, <2>3 DEF NoneReopens
  <1>8. ASSUME NEW t \in DOMAIN tasks,
               \/ \E w \in DOMAIN workers : Claim(w, t)
               \/ \E l \in Login : Approve(l, t) \/ Reject(l, t)
        PROVE  NoneReopens
    BY <1>1, <1>4, <1>8 DEF Claim, Approve, Reject, OpenTasks, Open
  <1>9. CASE DaysPass
    <2>1. \A u \in DOMAIN tasks : \/ tasks'[u] = [tasks[u] EXCEPT !.age = @ + 1]
                                  \/ tasks'[u] = tasks[u]
      BY <1>9 DEF DaysPass
    <2>2. DOMAIN tasks' = DOMAIN tasks
      BY <1>9 DEF DaysPass
    <2>3. \A t \in DOMAIN tasks : LET r == [tasks[t] EXCEPT !.age = @ + 1]
                                  IN  /\ r.name = tasks[t].name /\ r.owner = tasks[t].owner
                                      /\ r.bump = tasks[t].bump /\ r.status = tasks[t].status
      BY <1>0 DEF Task
    <2> QED
      BY <2>1, <2>2, <2>3 DEF NoneReopens
  <1>10. CASE MergeGovernance \/ \E j \in Project : ReleaseUpstream(j)
    BY <1>1, <1>10 DEF MergeGovernance, ReleaseUpstream
  <1> QED
    BY <1>1, <1>5, <1>6, <1>7, <1>8, <1>9, <1>10 DEF Next, vars

\* A build at the end.
LEMMA Appended ==
  ASSUME TypeOK, NEW b, tasks' = Append(tasks, b)
  PROVE  /\ DOMAIN tasks' = DOMAIN tasks \cup {Len(tasks) + 1} /\ Len(tasks) + 1 \notin DOMAIN tasks
         /\ \A t \in DOMAIN tasks : tasks'[t] = tasks[t]
         /\ tasks'[Len(tasks) + 1] = b
  BY DEF TypeOK

\* Parts of what is finite.
LEMMA Parts ==
  ASSUME IsFiniteSet(Proc), NEW S, NEW s \in Seq(S)
  PROVE  /\ \A X \in SUBSET Proc : /\ IsFiniteSet(X) /\ Cardinality(X) \in Nat
                                  /\ Cardinality(X) <= Cardinality(Proc)
         /\ \A X \in SUBSET DOMAIN s : IsFiniteSet(X) /\ Cardinality(X) \in Nat
  <1>1. IsFiniteSet(DOMAIN s)
    BY FS_Interval
  <1>2. ASSUME NEW T, IsFiniteSet(T), NEW X \in SUBSET T
        PROVE  IsFiniteSet(X) /\ Cardinality(X) \in Nat /\ Cardinality(X) <= Cardinality(T)
    BY <1>2, FS_Subset, FS_CardinalityType
  <1> QED
    BY <1>1, <1>2

\* An invocation that goes on with something else than a bump is not, or no
\* longer, about to queue one; the others are where they were.
LEMMA HandsFree ==
  ASSUME Inv, NEW p \in Proc, NEW c, Start(p, c), c.left = <<>> \/ Head(c.left) # "bump"
  PROVE  \A n, tag : InHand(n, tag)' \subseteq InHand(n, tag) \ {p}
  <1>1. /\ calls'[p] = (IF c.left = <<>> THEN Call ELSE c) /\ Call.left = <<>>
        /\ \A q \in Proc \ {p} : calls'[q] = calls[q]
    BY DEF Start, Inv, TypeOK, Call
  <1>2. ~(At(p, "bump")')
    BY <1>1 DEF At, Idle
  <1> QED
    BY <1>1, <1>2 DEF InHand, At, Idle

\* The step of a handler that is no check of the updates.
LEMMA HandsFreeWrite ==
  ASSUME Inv, Inv', NEW p \in Proc, Write(p), ~Updates(p)
  PROVE  \A n, tag : InHand(n, tag)' \subseteq InHand(n, tag)
  <1>1. calls[p].work # "updates"
    BY OfHandler, Leads DEF Inv, Write, Updates, Upsert, List, People, Role, InsertRequest, PutRecord, SignRecord, Point,
       Register, Adopt, Delete, InsertTask, SetWaiting, InsertWorker, BlockPerson, LiftPerson, BlockRegistration,
       LiftPackage
  <1>2. At(p, "bump")' => calls'[p].work = "updates"
    <2>1. ASSUME At(p, "bump")'
          PROVE  calls'[p].work = "updates"
      <3>1. ~(Idle(p)') /\ Fits(calls'[p], contributors') /\ calls'[p] \in AnyCall /\ Head(calls'[p].left) = "bump"
        BY <2>1 DEF At, Idle, Inv, TypeOK, CallsFit
      <3>2. calls'[p].work \in Handler /\ calls'[p].left \in LeftOf[calls'[p].work]
        BY <3>1 DEF Fits, AnyCall
      <3> QED
        BY <3>1, <3>2, Leads
    <2> QED
      BY <2>1
  <1>3. ~(At(p, "bump")')
    BY <1>1, <1>2, WriteKeeps DEF At
  <1> QED
    BY <1>3, WriteKeeps DEF InHand, At, Idle

LEMMA BumpsNext ==
  ASSUME IsFiniteSet(Proc), Inv, BumpsInv, [Next]_vars
  PROVE  BumpsInv'
  <1> SUFFICES ASSUME NEW n \in Name, NEW tag \in 1 .. MaxTag
               PROVE  Cardinality(BumpsOf(n, tag)') + Cardinality(InHand(n, tag)') <= Cardinality(Proc)
    BY DEF BumpsInv
  <1> DEFINE B == BumpsOf(n, tag)
             H == InHand(n, tag)
             Goal == Cardinality(B') + Cardinality(H') <= Cardinality(Proc)
  <1>1. Inv'
    BY NextInv
  <1>2. /\ B \in SUBSET DOMAIN tasks /\ B' \in SUBSET DOMAIN tasks' /\ H \in SUBSET Proc /\ H' \in SUBSET Proc
    BY DEF BumpsOf, OpenTasks, InHand
  <1>3. Cardinality(B) + Cardinality(H) <= Cardinality(Proc)
    BY DEF BumpsInv
  <1>4. tasks \in Seq(Task) /\ tasks' \in Seq(Task)
    BY <1>1 DEF Inv, TypeOK
  <1> HIDE DEF B, H
  <1>5. /\ IsFiniteSet(B) /\ IsFiniteSet(H) /\ IsFiniteSet(B') /\ IsFiniteSet(H')
        /\ Cardinality(B) \in Nat /\ Cardinality(H) \in Nat /\ Cardinality(B') \in Nat /\ Cardinality(H') \in Nat
        /\ Cardinality(H') <= Cardinality(Proc) /\ Cardinality(Proc) \in Nat
    BY <1>2, <1>4, Parts, FS_CardinalityType
  \* No bump is new, and none is about to be queued that was not.
  <1>6. ASSUME B' \subseteq B, H' \subseteq H
        PROVE  Goal
    <2>1. Cardinality(B') <= Cardinality(B) /\ Cardinality(H') <= Cardinality(H)
      BY <1>5, <1>6, FS_Subset
    <2> QED
      BY <1>3, <1>5, <2>1
  <1>7. NoneReopens => B' \subseteq B
    BY DEF NoneReopens, B, BumpsOf, OpenTasks
  \* The look at the tasks: none is under way.
  <1>8. ASSUME NEW p \in Proc, Look(p)
        PROVE  Goal
    <2>1. PICK c \in AnyCall : /\ Start(p, c) /\ c.work = "updates" /\ c.left \in LeftOf["updates"]
                               /\ Head(c.left) = "bump" => ~Pending(c.name, c.tag)
      BY <1>8, Looked
    <2>2. UNCHANGED tasks
      BY <1>8, Looked DEF Asks
    <2>3. B' \subseteq B
      BY <2>2 DEF B, BumpsOf, OpenTasks
    <2>4. CASE Head(c.left) # "bump"
      <3>1. H' \subseteq H
        BY <2>1, <2>4, HandsFree DEF H
      <3> QED
        BY <1>6, <2>3, <3>1
    <2>5. CASE Head(c.left) = "bump" /\ c.name = n /\ c.tag = tag
      <3>0. ~Pending(n, tag)
        BY <2>1, <2>5
      <3>1. B = {}
        BY <3>0 DEF B, BumpsOf, Pending
      <3>2. Cardinality(B') = 0
        BY <2>3, <3>1, FS_EmptySet
      <3> QED
        BY <1>5, <3>2
    <2>6. CASE c.name # n \/ c.tag # tag
      <3>1. c.left # <<>>
        <4>1. c.work \in Handler /\ c.left \in LeftOf[c.work]
          BY <2>1 DEF AnyCall
        <4> QED
          BY <4>1, Leads
      <3>2. calls'[p] = c /\ \A q \in Proc \ {p} : calls'[q] = calls[q]
        BY <2>1, <3>1, Placed DEF Inv
      <3>3. H' \subseteq H
        BY <2>6, <3>2 DEF H, InHand, At, Idle
      <3> QED
        BY <1>6, <2>3, <3>3
    <2> QED
      BY <2>4, <2>5, <2>6
  \* The INSERT: what was in hand is under way.
  <1>9. ASSUME NEW p \in Proc, Bump(p)
        PROVE  Goal
    <2> DEFINE k == Len(tasks) + 1
               b == Build(calls[p].name, calls[p].who, calls[p].tag, calls[p].tag)
    <2>1. tasks' = Append(tasks, b) /\ b.name = calls[p].name /\ b.bump = calls[p].tag /\ b.status = "queued"
      BY <1>9 DEF Bump, Build
    <2> HIDE DEF b
    <2>2. /\ DOMAIN tasks' = DOMAIN tasks \cup {k} /\ \A t \in DOMAIN tasks : tasks'[t] = tasks[t]
          /\ tasks'[k] = b
      BY <2>1, Appended DEF Inv
    <2> HIDE DEF k
    <2>3. H' \subseteq H \ {p}
      <3>1. PICK c : Start(p, c) /\ c.left = EachPackage
        <4>1. Head(calls[p].left) = "bump"
          BY <1>9 DEF Bump, At
        <4> QED
          BY <1>9, <4>1, UpdateGoesOn DEF Updates, Bump, NextPackage
      <3>2. Head(c.left) # "bump"
        BY <3>1, UpdateSteps, Tuples
      <3> QED
        BY <3>1, <3>2, HandsFree DEF H
    <2>4. CASE calls[p].name = n /\ calls[p].tag = tag
      <3>1. p \in H
        BY <1>9, <2>4 DEF H, InHand, Bump
      <3>2. B' \in SUBSET (B \cup {k})
        BY <2>1, <2>2 DEF B, BumpsOf, OpenTasks
      <3>3. /\ IsFiniteSet(B \cup {k}) /\ Cardinality(B \cup {k}) \in Nat
            /\ Cardinality(B \cup {k}) <= Cardinality(B) + 1
        <4>1. /\ IsFiniteSet(B \cup {k})
              /\ Cardinality(B \cup {k}) = IF k \in B THEN Cardinality(B) ELSE Cardinality(B) + 1
          BY <1>5, FS_AddElement
        <4> QED
          BY <1>5, <4>1
      <3>4. Cardinality(B') <= Cardinality(B) + 1
        BY <1>5, <3>2, <3>3, FS_Subset
      <3>5. IsFiniteSet(H \ {p}) /\ Cardinality(H \ {p}) = Cardinality(H) - 1
        BY <1>5, <3>1, FS_RemoveElement
      <3>6. Cardinality(H') <= Cardinality(H) - 1
        BY <2>3, <3>5, FS_Subset
      <3> QED
        BY <1>3, <1>5, <3>4, <3>6
    <2>5. CASE calls[p].name # n \/ calls[p].tag # tag
      <3>1. B' \subseteq B
        BY <2>1, <2>2, <2>5 DEF B, BumpsOf, OpenTasks
      <3> QED
        BY <1>6, <2>3, <3>1
    <2> QED
      BY <2>4, <2>5
  \* A build that is no bump.
  <1>10. ASSUME NEW p \in Proc, InsertTask(p)
         PROVE  Goal
    <2> DEFINE b == Build(calls[p].name, calls[p].who,
                          IF packages[calls[p].name] = None THEN 0 ELSE packages[calls[p].name].tag, 0)
    <2>1. tasks' = Append(tasks, b) /\ b.bump = 0
      BY <1>10 DEF InsertTask, Build
    <2> HIDE DEF b
    <2>2. B' \subseteq B
      BY <2>1, Appended DEF Inv, B, BumpsOf, OpenTasks
    <2>3. ~Updates(p)
      BY <1>10, UpdatesHead, OfHandler DEF InsertTask, Inv
    <2> QED
      BY <1>1, <1>6, <1>10, <2>2, <2>3, HandsFreeWrite DEF Write, H
  <1>11. ASSUME \A p \in Proc : ~InsertTask(p) /\ ~Bump(p), H' \subseteq H
         PROVE  Goal
    BY <1>6, <1>7, <1>11, TasksStay
  <1>12. ASSUME UNCHANGED calls
         PROVE  H' \subseteq H
    BY <1>12 DEF H, InHand, At, Idle
  <1>13. ASSUME NEW p \in Proc, Write(p), ~Look(p), ~Bump(p)
         PROVE  H' \subseteq H
    <2>1. CASE ~Updates(p)
      BY <1>1, <1>13, <2>1, HandsFreeWrite DEF H
    <2>2. CASE Retire(p) \/ Checked(p)
      <3>1. /\ Head(calls[p].left) \in {"retire", "checked"} /\ calls[p].work = "updates"
            /\ calls[p].left \in LeftOf["updates"] /\ "updates" \in Handler
        BY <2>2, UpdatesHead DEF Updates, Retire, Checked, At, AnyCall
      <3>2. Tail(calls[p].left) = <<>> \/ Head(Tail(calls[p].left)) # "bump"
        BY <3>1, Leads, Tuples
      <3>3. \E c : Start(p, c) /\ c.left \in {calls[p].left, Tail(calls[p].left)}
        <4>1. Then(p) \/ \E S : Start(p, [calls[p] EXCEPT !.todo = S])
          BY <2>2 DEF Checked, Retire
        <4> QED
          BY <4>1, ThenKeeps DEF Inv
      <3> QED
        BY <3>1, <3>2, <3>3, HandsFree DEF H
    <2> QED
      BY <1>13, <2>1, <2>2 DEF Updates
  <1>14. ASSUME NEW p \in Proc, Requests(p) \/ Tick(p) \/ End(p)
         PROVE  H' \subseteq H
    <2>1. CASE Requests(p) \/ Tick(p)
      BY <1>12, <2>1, BeginsCalm, HandsFree DEF H
    <2>2. CASE End(p)
      <3>1. Start(p, Call) /\ Call.left = <<>>
        BY <2>2 DEF End, Call
      <3> QED
        BY <3>1, HandsFree DEF H
    <2> QED
      BY <1>14, <2>1, <2>2
  <1>15. ASSUME \A p \in Proc : ~Look(p) /\ ~Bump(p)
         PROVE  H' \subseteq H
    <2>1. CASE \E p \in Proc : Write(p)
      BY <1>13, <1>15, <2>1
    <2>2. CASE \E p \in Proc : Requests(p) \/ Tick(p) \/ End(p)
      BY <1>14, <2>2
    <2>3. CASE ~\E p \in Proc : Write(p) \/ Requests(p) \/ Tick(p) \/ End(p)
      <3>1. UNCHANGED calls
        BY <2>3 DEF Next, Report, Claim, Approve, Reject, MergeGovernance, DaysPass, ReleaseUpstream, vars
      <3> QED
        BY <1>12, <3>1
    <2> QED
      BY <2>1, <2>2, <2>3
  <1> HIDE DEF Goal
  <1>16. Goal
    BY <1>8, <1>9, <1>10, <1>11, <1>15
  <1> QED
    BY <1>16 DEF Goal, B, H

\* checkUpdates reads whether a bump is pending, and queues one in a later
\* await: checks that overlap may both. But each queues at most the one it
\* found missing: of one package and release never more are under way than
\* invocations can overlap, however many checks run, die and run again. Where
\* there is one at a time, none is bumped to twice.
THEOREM BumpsAreBounded ==
  ASSUME IsFiniteSet(Proc)
  PROVE  Spec => []BumpsBounded
  <1>1. Init => Inv /\ BumpsInv
    <2> SUFFICES ASSUME Init
                 PROVE  BumpsInv
      BY InitInv
    <2>1. \A n, tag : BumpsOf(n, tag) = {} /\ InHand(n, tag) = {}
      BY DEF Init, BumpsOf, OpenTasks, InHand, At, Idle, Call
    <2>2. Cardinality({}) = 0 /\ Cardinality(Proc) \in Nat
      BY FS_EmptySet, FS_CardinalityType
    <2>3. \A n, tag : Cardinality(BumpsOf(n, tag)) + Cardinality(InHand(n, tag)) <= Cardinality(Proc)
      BY <2>1, <2>2
    <2> QED
      BY <2>3 DEF BumpsInv
  <1>2. Inv /\ BumpsInv /\ [Next]_vars => (Inv /\ BumpsInv)'
    BY NextInv, BumpsNext
  <1>3. Inv /\ BumpsInv => BumpsBounded
    <2> SUFFICES ASSUME Inv, BumpsInv, NEW n \in Name, NEW tag \in 1 .. MaxTag
                 PROVE  Cardinality(BumpsOf(n, tag)) <= Cardinality(Proc)
      BY DEF BumpsBounded
    <2>1. tasks \in Seq(Task) /\ BumpsOf(n, tag) \in SUBSET DOMAIN tasks /\ InHand(n, tag) \in SUBSET Proc
      BY DEF Inv, TypeOK, BumpsOf, OpenTasks, InHand
    <2>2. Cardinality(BumpsOf(n, tag)) \in Nat /\ Cardinality(InHand(n, tag)) \in Nat /\ Cardinality(Proc) \in Nat
      BY <2>1, Parts, FS_CardinalityType
    <2> QED
      BY <2>2 DEF BumpsInv
  <1> QED
    BY <1>1, <1>2, <1>3, PTL DEF Spec

-----------------------------------------------------------------------------
\* One request at a time: when one has begun, nothing else is under way until
\* it has ended.
LEMMA StartLone ==
  ASSUME TypeOK, Lone, NEW p \in Proc, NEW c, Start(p, c), ~Idle(p) \/ Quiet
  PROVE  Lone' /\ \A q \in Proc \ {p} : Idle(q) /\ calls'[q] = calls[q]
  <1>1. \A q \in Proc \ {p} : Idle(q) /\ calls'[q] = calls[q]
    BY DEF Start, TypeOK, Lone, Quiet
  <1>2. \A q \in Proc \ {p} : Idle(q)'
    BY <1>1 DEF Idle
  <1> QED
    BY <1>1, <1>2 DEF Lone

LEMMA Alone ==
  ASSUME Serial, Inv, Lone, NEW p \in Proc, Write(p) \/ Requests(p) \/ Tick(p) \/ End(p)
  PROVE  \/ UNCHANGED calls
         \/ Lone' /\ \A q \in Proc \ {p} : Idle(q) /\ calls'[q] = calls[q]
  <1>1. CASE Write(p)
    <2>1. ~Idle(p) /\ \A q \in Proc \ {p} : Idle(q) /\ calls'[q] = calls[q]
      BY <1>1, WriteKeeps DEF Lone
    <2> QED
      BY <2>1 DEF Lone, Idle
  <1>2. CASE Requests(p) \/ Tick(p)
    <2>1. MayStart(p) /\ (UNCHANGED calls \/ \E c : Start(p, c))
      BY <1>2, BeginsCalm
    <2> QED
      BY <2>1, StartLone DEF MayStart, Inv
  <1>3. CASE End(p)
    BY <1>3, StartLone DEF End, Inv
  <1> QED
    BY <1>1, <1>2, <1>3

LEMMA LoneNext ==
  ASSUME Serial, Inv, Lone, [Next]_vars
  PROVE  Lone'
  <1>1. CASE UNCHANGED calls
    BY <1>1 DEF Lone, Idle
  <1> QED
    BY <1>1, Alone DEF Next, vars, Report, Claim, Approve, Reject, MergeGovernance, DaysPass, ReleaseUpstream

LEMMA LoneInit == Init => Lone
  BY DEF Init, Lone, Idle, Call

-----------------------------------------------------------------------------
\* What a handler relies on.
LEMMA RelyStays ==
  ASSUME NEW c, SameHands, UNCHANGED contributors, Relies(c, contributors, packages),
         c.work \in {"request", "backfill"} => c.name \in Name
  PROVE  Relies(c, contributors', packages')
  BY DEF Relies, SameHands

LEMMA OnlyBuilds ==
  ASSUME NEW c, c.work \in Handler, c.left \in LeftOf[c.work], c.left = <<"task", "waiting">>
  PROVE  c.work = "build"
  BY Leads, Tuples

LEMMA RelyWrite ==
  ASSUME Serial, Inv, Lone, CallsRely, NEW p \in Proc, Write(p), [Next]_vars
  PROVE  CallsRely'
  <1> SUFFICES ASSUME ~(Idle(p)')
               PROVE  Relies(calls'[p], contributors', packages')
    <2>1. CASE UNCHANGED calls
      <3>1. \A q \in Proc \ {p} : Idle(q)
        BY WriteKeeps DEF Lone
      <3> QED
        BY <2>1, <3>1 DEF CallsRely, Idle
    <2>2. CASE \A q \in Proc \ {p} : Idle(q) /\ calls'[q] = calls[q]
      BY <2>2 DEF CallsRely, Idle
    <2> QED
      BY <2>1, <2>2, Alone
  <1>0. Fits(calls'[p], contributors') /\ calls'[p].left \in LeftOf[calls'[p].work] /\ calls'[p].work \in Handler
    BY NextInv DEF Inv, TypeOK, CallsFit, AnyCall, Fits
  \* Builds and workers that go on have written; the others rely on nothing.
  <1>1. ASSUME calls'[p].work \notin {"request", "backfill", "worker"}, calls'[p].left # <<"task", "waiting">>
        PROVE  Relies(calls'[p], contributors', packages')
    BY <1>1 DEF Relies
  <1>2. ASSUME Start(p, [calls[p] EXCEPT !.left = Tail(@)])
        PROVE  /\ calls'[p].left = Tail(calls[p].left) /\ calls'[p].work = calls[p].work
               /\ calls'[p].who = calls[p].who /\ calls'[p].name = calls[p].name
               /\ calls'[p].project = calls[p].project
    <2> DEFINE c == [calls[p] EXCEPT !.left = Tail(@)]
    <2>1. calls'[p] = IF c.left = <<>> THEN Call ELSE c
      BY <1>2 DEF Start, Inv, TypeOK
    <2>2. Call.left = <<>>
      BY DEF Call
    <2> QED
      BY <2>1, <2>2, GoesOn DEF Idle, Inv
  <1>3. CASE InsertRequest(p)
    <2> DEFINE i == Len(requests) + 1
               d == [calls[p] EXCEPT !.id = i, !.left = Tail(@)]
    <2>1. calls[p] \in AnyCall /\ calls[p].work \in {"request", "backfill"} /\ calls[p].name \in Name /\ ~Idle(p)
      BY <1>3, OfHandler, Leads DEF InsertRequest, Inv, Fits
    <2>2. /\ d.left = Tail(calls[p].left) /\ d.who = calls[p].who /\ d.name = calls[p].name
          /\ d.project = calls[p].project /\ d.work = calls[p].work
      BY <2>1 DEF AnyCall
    <2>3. Start(p, d)
      BY <1>3 DEF InsertRequest
    <2> HIDE DEF d
    <2>4. calls'[p] = d
      BY <2>3 DEF Start, Inv, TypeOK, Idle, Call
    <2>5. d.left # <<"task", "waiting">>
      BY <1>0, <2>1, <2>2, <2>4, OnlyBuilds
    <2> QED
      BY <1>3, <2>1, <2>2, <2>4, <2>5 DEF InsertRequest, roles, Relies, CallsRely
  <1>4. CASE PutRecord(p) \/ SignRecord(p) \/ Point(p)
    <2>1. calls[p].work \in {"request", "backfill"} /\ ~Idle(p)
      BY <1>4, OfHandler, Leads DEF PutRecord, SignRecord, Point, Inv
    <2>2. Start(p, [calls[p] EXCEPT !.left = Tail(@)])
      BY <1>4 DEF PutRecord, SignRecord, Point, Then
    <2>3. calls'[p].left # <<"task", "waiting">>
      BY <1>0, <1>2, <2>1, <2>2, OnlyBuilds
    <2> QED
      BY <1>2, <1>4, <2>1, <2>2, <2>3 DEF PutRecord, SignRecord, Point, roles, Relies, CallsRely
  <1>5. CASE Register(p) \/ Adopt(p) \/ InsertWorker(p) \/ InsertTask(p)
    <2>1. Tail(calls[p].left) = <<>> \/ (calls[p].work = "build" /\ Tail(calls[p].left) = <<"waiting">>)
      <3>1. ASSUME Register(p) \/ Adopt(p)
            PROVE  Tail(calls[p].left) = <<>>
        BY <3>1, OfHandler, Leads DEF Register, Adopt, Inv
      <3>2. ASSUME InsertWorker(p)
            PROVE  Tail(calls[p].left) = <<>>
        BY <3>2, OfHandler, Leads DEF InsertWorker, Inv
      <3>3. ASSUME InsertTask(p)
            PROVE  calls[p].work = "build" /\ Tail(calls[p].left) = <<"waiting">>
        BY <3>3, OfHandler, Leads DEF InsertTask, Inv
      <3> QED
        BY <1>5, <3>1, <3>2, <3>3
    <2>2. Start(p, [calls[p] EXCEPT !.left = Tail(@)])
      BY <1>5 DEF Register, Adopt, InsertWorker, InsertTask, Then
    <2>3. calls'[p].left = <<"waiting">> /\ calls'[p].work = "build"
      BY <1>2, <2>1, <2>2 DEF Idle
    <2> QED
      BY <1>1, <2>3, Tuples
  <1>6. CASE /\ ~Updates(p)
             /\ ~InsertRequest(p) /\ ~PutRecord(p) /\ ~SignRecord(p) /\ ~Point(p) /\ ~Register(p) /\ ~Adopt(p)
             /\ ~InsertWorker(p) /\ ~InsertTask(p)
    <2>1. calls[p].work \notin {"request", "backfill", "worker"} /\ Head(calls[p].left) # "task"
          /\ calls[p].left \in LeftOf[calls[p].work] /\ calls[p].work \in Handler
      <3> DEFINE Q == /\ calls[p].work \notin {"request", "backfill", "worker"} /\ Head(calls[p].left) # "task"
                      /\ calls[p].left \in LeftOf[calls[p].work] /\ calls[p].work \in Handler
      <3>1. CASE Upsert(p) \/ List(p) \/ People(p) \/ Role(p)
        BY <3>1, OfHandler, Leads DEF Upsert, List, People, Role, Inv
      <3>2. CASE Delete(p) \/ SetWaiting(p)
        BY <3>2, OfHandler, Leads DEF Delete, SetWaiting, Inv
      <3>3. CASE BlockPerson(p) \/ LiftPerson(p) \/ BlockRegistration(p) \/ LiftPackage(p)
        BY <3>3, OfHandler, Leads DEF BlockPerson, LiftPerson, BlockRegistration, LiftPackage, Inv
      <3> HIDE DEF Q
      <3> QED
        BY <1>6, <3>1, <3>2, <3>3 DEF Write, Updates, Q
    <2>2. \/ Then(p)
          \/ \E S : \/ Start(p, [calls[p] EXCEPT !.todo = S])
                    \/ Start(p, [calls[p] EXCEPT !.todo = S, !.left = Tail(@)])
      BY <1>6 DEF Write, Upsert, List, People, Role, Delete, SetWaiting, BlockPerson,
         LiftPerson, BlockRegistration, LiftPackage, Updates
    <2>3. calls'[p].work = calls[p].work /\ calls'[p].left \in {calls[p].left, Tail(calls[p].left)}
      <3>1. ASSUME NEW c, Start(p, c)
            PROVE  calls'[p] = c
        BY <3>1 DEF Start, Inv, TypeOK, Idle, Call
      <3>2. CASE Then(p)
        BY <3>1, <3>2, GoesOn DEF Then, Inv
      <3>3. ASSUME NEW S, Start(p, [calls[p] EXCEPT !.todo = S])
            PROVE  calls'[p].work = calls[p].work /\ calls'[p].left = calls[p].left
        <4> DEFINE c == [calls[p] EXCEPT !.todo = S]
        <4>1. c.work = calls[p].work /\ c.left = calls[p].left
          BY GoesOn DEF Inv
        <4>2. Start(p, c)
          BY <3>3
        <4> HIDE DEF c
        <4> QED
          BY <3>1, <4>1, <4>2
      <3>4. ASSUME NEW S, Start(p, [calls[p] EXCEPT !.todo = S, !.left = Tail(@)])
            PROVE  calls'[p].work = calls[p].work /\ calls'[p].left = Tail(calls[p].left)
        <4> DEFINE c == [calls[p] EXCEPT !.todo = S, !.left = Tail(@)]
        <4>1. c.work = calls[p].work /\ c.left = Tail(calls[p].left)
          BY GoesOn DEF Inv
        <4>2. Start(p, c)
          BY <3>4
        <4> HIDE DEF c
        <4> QED
          BY <3>1, <4>1, <4>2
      <3> QED
        BY <2>2, <3>2, <3>3, <3>4
    <2>4. calls[p].work = "build" => Tail(calls[p].left) = <<>>
      <3>1. LeftOf["build"] = {<<"task", "waiting">>, <<"waiting">>}
        BY DEF LeftOf
      <3>2. calls[p].work = "build" => calls[p].left = <<"waiting">>
        BY <2>1, <3>1, Tuples
      <3> QED
        BY <3>2, Tuples
    <2>5. calls'[p].left # <<"task", "waiting">>
      BY <1>0, <2>1, <2>3, <2>4, OnlyBuilds, Tuples
    <2> QED
      BY <1>1, <2>1, <2>3, <2>5
  <1>7. CASE Updates(p)
    <2>1. calls'[p].work = "updates"
      BY <1>7, WriteKeeps, UpdatesHead
    <2>2. LeftOf["updates"] \cap {<<"task", "waiting">>} = {}
      BY UpdateSteps, Tuples
    <2> QED
      BY <1>0, <1>1, <2>1, <2>2
  <1> QED
    BY <1>3, <1>4, <1>5, <1>6, <1>7

LEMMA RelyBegins ==
  ASSUME Inv, CallsRely, NEW p \in Proc, Requests(p) \/ Tick(p) \/ End(p)
  PROVE  CallsRely'
  <1>0. UNCHANGED <<contributors, packages>>
    BY BeginsOnly
  <1>1. ASSUME NEW c, Start(p, c), c.left # <<>> => Relies(c, contributors, packages)
        PROVE  CallsRely'
    <2> SUFFICES ASSUME NEW q \in Proc, ~(Idle(q)')
                 PROVE  Relies(calls'[q], contributors, packages)
      BY <1>0 DEF CallsRely
    <2>1. CASE q = p
      <3>1. calls'[p] = IF c.left = <<>> THEN Call ELSE c
        BY <1>1 DEF Start, Inv, TypeOK
      <3>2. Call.left = <<>>
        BY DEF Call
      <3> QED
        BY <1>1, <2>1, <3>1, <3>2 DEF Idle
    <2>2. CASE q # p
      <3>1. calls'[q] = calls[q]
        BY <1>1, <2>2 DEF Start, Inv, TypeOK
      <3> QED
        BY <3>1 DEF CallsRely, Idle
    <2> QED
      BY <2>1, <2>2
  <1>2. ASSUME NEW w \in {"signIn", "delete", "block", "unblock", "build", "governance", "updates"},
               NEW s, s # <<"task", "waiting">>, NEW c, c.work = w, c.left = s, Start(p, c)
        PROVE  CallsRely'
    <2>1. Relies(c, contributors, packages)
      BY <1>2 DEF Relies
    <2> QED
      BY <1>1, <1>2, <2>1
  <1>3. ASSUME NEW l \in Login, SignIn(p, l)
        PROVE  CallsRely'
    <2> DEFINE c == [Call EXCEPT !.work = "signIn", !.who = l, !.role = roleFor(l), !.left = <<"upsert">>]
    <2>1. c.work = "signIn" /\ c.left = <<"upsert">> /\ Start(p, c)
      BY <1>3, CallTyped DEF AnyCall, SignIn
    <2> HIDE DEF c
    <2> QED
      BY <1>2, <2>1, Tuples
  <1>4. ASSUME NEW l \in Login, RegisterWorker(p, l)
        PROVE  CallsRely'
    <2> DEFINE c == [Call EXCEPT !.work = "worker", !.who = l, !.left = <<"worker">>]
    <2>1. c.work = "worker" /\ c.who = l /\ c.left = <<"worker">> /\ Start(p, c)
      BY <1>4, CallTyped DEF AnyCall, RegisterWorker, Ask
    <2> HIDE DEF c
    <2>2. contributors[l] # None /\ contributors[l].by = None
      BY <1>4 DEF RegisterWorker, MayEnter, SignedIn, Blocked
    <2>3. Relies(c, contributors, packages)
      BY <2>1, <2>2 DEF Relies
    <2> QED
      BY <1>1, <2>1, <2>3
  <1>5. ASSUME NEW w \in {"delete", "block", "unblock", "build"}, NEW l, NEW n, NEW s, s # <<"task", "waiting">>,
               Start(p, [Call EXCEPT !.work = w, !.who = l, !.name = n, !.left = s])
        PROVE  CallsRely'
    <2> DEFINE c == [Call EXCEPT !.work = w, !.who = l, !.name = n, !.left = s]
    <2>1. c.work = w /\ c.left = s /\ Start(p, c)
      BY <1>5, CallTyped DEF AnyCall
    <2> HIDE DEF c
    <2> QED
      BY <1>2, <1>5, <2>1
  <1>6. ASSUME NEW l \in Login, NEW n \in Name,
               DeletePackage(p, l, n) \/ BlockPackage(p, l, n) \/ UnblockPackage(p, l, n)
        PROVE  CallsRely'
    BY <1>5, <1>6, Tuples DEF DeletePackage, BlockPackage, UnblockPackage, About
  <1>7. ASSUME NEW l \in Login, NEW n \in Name, BuildPackage(p, l, n)
        PROVE  CallsRely'
    <2>1. CASE About(p, "build", l, n, <<"waiting">>)
      BY <1>5, <2>1, Tuples DEF About
    <2>2. CASE About(p, "build", l, n, <<"task", "waiting">>)
      <3> DEFINE c == [Call EXCEPT !.work = "build", !.who = l, !.name = n, !.left = <<"task", "waiting">>]
      <3>1. c.work = "build" /\ c.who = l /\ Start(p, c)
        BY <2>2, CallTyped DEF AnyCall, About
      <3> HIDE DEF c
      <3>2. contributors[l] # None /\ contributors[l].by = None
        BY <1>7 DEF BuildPackage, MayEnter, SignedIn, Blocked
      <3>3. Relies(c, contributors, packages)
        BY <3>1, <3>2 DEF Relies
      <3> QED
        BY <1>1, <3>1, <3>3
    <2> QED
      BY <1>7, <2>1, <2>2 DEF BuildPackage
  <1>8. ASSUME NEW l \in Login, NEW o \in Login, BlockContributor(p, l, o) \/ UnblockContributor(p, l, o)
        PROVE  CallsRely'
    BY <1>5, <1>8, Tuples DEF BlockContributor, UnblockContributor
  <1>9. ASSUME NEW l \in Login, NEW w \in DOMAIN workers, RevokeWorker(p, l, w)
        PROVE  CallsRely'
    BY <1>0, <1>9 DEF RevokeWorker, CallsRely, Idle
  <1>10. ASSUME NEW w \in {"request", "backfill"}, NEW l, NEW n \in Name, NEW j, NEW tag, NEW s,
                s # <<"task", "waiting">>,
                Start(p, [Call EXCEPT !.work = w, !.who = l, !.name = n, !.project = j, !.tag = tag, !.left = s]),
                packages[n] # None => packages[n].owner = l,
                w = "request" => ProjectFree(n, j)
         PROVE  CallsRely'
    <2> DEFINE c == [Call EXCEPT !.work = w, !.who = l, !.name = n, !.project = j, !.tag = tag, !.left = s]
    <2>1. c.work = w /\ c.who = l /\ c.name = n /\ c.project = j /\ c.left = s /\ Start(p, c)
      BY <1>10, CallTyped DEF AnyCall
    <2> HIDE DEF c
    <2>2. Relies(c, contributors, packages)
      BY <1>10, <2>1 DEF Relies, ProjectFree, Registered
    <2> QED
      BY <1>1, <2>1, <2>2
  <1>11. ASSUME NEW l \in Login, NEW n \in Name, NEW u \in Url, RequestPackage(p, l, n, u)
         PROVE  CallsRely'
    <2> DEFINE j == parseProjectUrl(u).project
               tag == IF parseProjectUrl(u).tag # 0 THEN parseProjectUrl(u).tag ELSE detect(j)
    <2>1. Start(p, [Call EXCEPT !.work = "request", !.who = l, !.name = n, !.project = j, !.tag = tag,
                                !.left = RequestSteps])
      BY <1>11 DEF RequestPackage
    <2>2. /\ packages[n] # None => packages[n].owner = l
          /\ ProjectFree(n, j)
      BY <1>11 DEF RequestPackage, Mine, Registered
    <2>3. RequestSteps # <<"task", "waiting">>
      BY Tuples DEF RequestSteps
    <2> HIDE DEF j, tag
    <2> QED
      BY <1>10, <2>1, <2>2, <2>3
  <1>12. ASSUME NEW n \in Name, Backfill(p, n)
         PROVE  CallsRely'
    <2>1. <<"request", "record", "sign", "adopt">> # <<"task", "waiting">>
      BY Tuples
    <2> QED
      BY <1>10, <1>12, <2>1 DEF Backfill
  <1>13. CASE SyncGovernance(p)
    <2> DEFINE c == [Call EXCEPT !.work = "governance", !.file = main, !.left = <<"list", "people", "roles">>]
    <2>1. c.work = "governance" /\ c.left = <<"list", "people", "roles">> /\ Start(p, c)
      BY <1>13, CallTyped DEF AnyCall, SyncGovernance
    <2> HIDE DEF c
    <2> QED
      BY <1>2, <2>1, Tuples
  <1>14. CASE CheckUpdates(p)
    <2> DEFINE c == [Call EXCEPT !.work = "updates",
                                 !.left = <<"stale", "retire", "select", "release", "approved", "pending", "bump", "checked">>]
    <2>1. c.work = "updates" /\ c.left = <<"stale", "retire", "select", "release", "approved", "pending", "bump", "checked">>
      BY CallTyped DEF AnyCall
    <2>2. Start(p, c)
      BY <1>14 DEF CheckUpdates
    <2> HIDE DEF c
    <2> QED
      BY <1>2, <2>1, <2>2, Tuples
  <1>15. CASE End(p)
    <2>1. Start(p, Call) /\ Call.left = <<>>
      BY <1>15 DEF End, Call
    <2> QED
      BY <1>1, <2>1
  <1> QED
    BY <1>3, <1>4, <1>6, <1>7, <1>8, <1>9, <1>11, <1>12, <1>13, <1>14, <1>15 DEF Requests, Tick

LEMMA RelyNext ==
  ASSUME Serial, Inv, Lone, CallsRely, [Next]_vars
  PROVE  CallsRely'
  <1>1. CASE UNCHANGED <<calls, contributors>> /\ \A p \in Proc : ~Register(p) /\ ~Adopt(p)
    <2>1. SameHands
      BY <1>1, HandsStay
    <2>2. ASSUME NEW p \in Proc, ~Idle(p)
          PROVE  Relies(calls[p], contributors', packages')
      <3>1. calls[p].work \in {"request", "backfill"} => calls[p].name \in Name
        BY <2>2 DEF Inv, CallsFit, Fits
      <3> QED
        BY <1>1, <2>1, <2>2, <3>1, RelyStays DEF CallsRely
    <2> QED
      BY <1>1, <2>2 DEF CallsRely, Idle
  <1>2. ASSUME NEW p \in Proc, Write(p) \/ Requests(p) \/ Tick(p) \/ End(p)
        PROVE  CallsRely'
    BY <1>2, RelyWrite, RelyBegins
  <1>3. (\E p \in Proc : Register(p) \/ Adopt(p)) => \E p \in Proc : Write(p)
    BY DEF Write
  <1> QED
    BY <1>1, <1>2, <1>3 DEF Next, vars, Report, Claim, Approve, Reject, MergeGovernance, DaysPass, ReleaseUpstream,
       roles

-----------------------------------------------------------------------------
\* Registrations and their requests.
HandsInv == OwnRequest /\ OneNamePerProject

LEMMA HandsNext ==
  ASSUME Inv, Recorded, CallsRely, HandsInv, [Next]_vars
  PROVE  HandsInv'
  <1>0. Grown
    BY RequestsGrow
  <1>1. \A n \in Name : packages[n] # None /\ packages[n].request # 0 => packages[n].request \in DOMAIN requests
    BY DEF Recorded, Registered, Inv, TypeOK
  <1>2. \A n \in Name : packages[n] # None /\ packages[n].request # 0 =>
          LET i == packages[n].request
          IN  /\ requests'[i].owner = packages[n].owner /\ requests'[i].project = packages[n].project
              /\ requests'[i].migrated = requests[i].migrated
    BY <1>0, <1>1 DEF Grown, HandsInv, OwnRequest, Registered
  <1> DEFINE Asked(n) == packages[n] # None /\ packages[n].request # 0 /\ ~requests'[packages[n].request].migrated
  <1>3. \A m, n \in Name : Asked(m) /\ Asked(n) /\ packages[m].project = packages[n].project => m = n
    <2> DEFINE asked == {n \in Registered : packages[n].request # 0 /\ ~requests[packages[n].request].migrated}
    <2>1. \A m, n \in asked : packages[m].project = packages[n].project => m = n
      BY DEF HandsInv, OneNamePerProject
    <2>2. \A n \in Name : Asked(n) => n \in asked
      BY <1>2 DEF Registered
    <2> HIDE DEF asked, Asked
    <2> QED
      BY <2>1, <2>2
  <1>4. ASSUME SameHands
        PROVE  HandsInv'
    <2>1. OwnRequest'
      BY <1>2, <1>4 DEF SameHands, OwnRequest, Registered
    <2>2. OneNamePerProject'
      BY <1>3, <1>4 DEF SameHands, OneNamePerProject, Registered
    <2> QED
      BY <2>1, <2>2 DEF HandsInv
  <1>5. ASSUME NEW p \in Proc, Register(p) \/ Adopt(p)
        PROVE  HandsInv'
    <2> DEFINE c == calls[p]
               n == c.name
    <2>1. /\ ~Idle(p) /\ c \in AnyCall /\ n \in Name /\ c.who \in Login
          /\ Head(c.left) \in {"register", "adopt"} /\ c.work \in {"request", "backfill"}
          /\ Register(p) => c.work = "request"
          /\ Adopt(p) => c.work = "backfill"
      <3>1. (Register(p) => At(p, "register")) /\ (Adopt(p) => At(p, "adopt"))
        BY DEF Register, Adopt
      <3>2. At(p, "register") \/ At(p, "adopt")
        BY <1>5, <3>1
      <3>3. /\ ~Idle(p) /\ c \in AnyCall /\ c.left \in LeftOf[c.work] /\ c.work \in Handler
            /\ Fits(c, contributors) /\ Head(c.left) \in {"register", "adopt"}
            /\ (At(p, "register") => Head(c.left) = "register") /\ (At(p, "adopt") => Head(c.left) = "adopt")
        BY <3>2, OfHandler DEF Inv
      <3>4. /\ Head(c.left) = "register" => c.work = "request"
            /\ Head(c.left) = "adopt" => c.work = "backfill"
        BY <3>3, Leads
      <3>5. n \in Name /\ c.who \in Login
        BY <3>3, <3>4 DEF Fits
      <3> QED
        BY <3>1, <3>3, <3>4, <3>5
    <2>2. /\ c.id \in DOMAIN requests
          /\ requests[c.id].owner = c.who /\ requests[c.id].project = c.project
          /\ requests[c.id].migrated <=> (c.work = "backfill")
      BY <2>1 DEF Recorded, CallsWritten, Written
    <2>3. /\ requests'[c.id].owner = c.who /\ requests'[c.id].project = c.project
          /\ requests'[c.id].migrated <=> (c.work = "backfill")
      BY <1>0, <2>2 DEF Grown
    <2>4. Relies(c, contributors, packages)
      BY <2>1 DEF CallsRely
    <2>5. ASSUME packages'[n] # None
          PROVE  /\ packages'[n].request = c.id /\ packages'[n].owner = c.who
                 /\ packages'[n].project = c.project
      <3>1. CASE Register(p)
        <4> DEFINE new == Registration(c.who, c.project, "registered", c.id, c.tag)
                   old == [new EXCEPT !.owner = packages[n].owner, !.by = packages[n].by]
        <4>1. /\ new.request = c.id /\ new.owner = c.who /\ new.project = c.project
              /\ old.request = c.id /\ old.owner = packages[n].owner /\ old.project = c.project
          BY DEF Registration
        <4>2. packages'[n] = IF packages[n] = None THEN new ELSE old
          BY <2>1, <3>1 DEF Register, Inv, TypeOK
        <4>3. packages[n] # None => packages[n].owner = c.who
          BY <2>1, <2>4 DEF Relies
        <4> HIDE DEF new, old
        <4> QED
          BY <4>1, <4>2, <4>3
      <3>2. CASE Adopt(p)
        <4> DEFINE r == [packages[n] EXCEPT !.request = c.id, !.project = c.project]
        <4>1. packages'[n] = IF packages[n] = None THEN packages[n] ELSE r
          BY <2>1, <3>2 DEF Adopt, Inv, TypeOK
        <4>2. packages[n] # None => packages[n] \in Row /\ packages[n].owner = c.who
          BY <2>1, <2>4 DEF Inv, TypeOK, Relies
        <4>3. packages[n] # None => r.request = c.id /\ r.project = c.project /\ r.owner = packages[n].owner
          BY <4>2 DEF Row
        <4> HIDE DEF r
        <4> QED
          BY <2>5, <4>1, <4>2, <4>3
      <3> QED
        BY <1>5, <3>1, <3>2
    <2>6. \A m \in Name \ {n} : packages'[m] = packages[m]
      BY <1>5 DEF Register, Adopt, Inv, TypeOK
    <2>7. c.work = "request" =>
            \A m \in Name \ {n} : packages[m] # None /\ packages[m].request # 0 => packages[m].project # c.project
      BY <2>4 DEF Relies
    <2> HIDE DEF n, c
    <2>8. OwnRequest'
      BY <1>2, <2>1, <2>3, <2>5, <2>6 DEF OwnRequest, Registered
    <2>9. OneNamePerProject'
      <3>1. ASSUME NEW m \in Name \ {n}, packages'[n] # None, packages'[m] # None, packages'[m].request # 0,
                   ~requests'[packages'[n].request].migrated, packages'[m].project = packages'[n].project
            PROVE  FALSE
        BY <2>1, <2>3, <2>5, <2>6, <2>7, <3>1
      <3> QED
        BY <1>3, <2>6, <3>1 DEF OneNamePerProject, Registered
    <2> QED
      BY <2>8, <2>9 DEF HandsInv
  <1> QED
    BY <1>4, <1>5, HandsStay

-----------------------------------------------------------------------------
\* People: who writes them, and their workers.
LEMMA PeopleStay ==
  ASSUME [Next]_vars, \A p \in Proc : ~Upsert(p) /\ ~Role(p) /\ ~BlockPerson(p) /\ ~LiftPerson(p)
  PROVE  UNCHANGED contributors
  <1>1. ASSUME NEW p \in Proc, Write(p)
        PROVE  UNCHANGED contributors
    <2>1. CASE List(p) \/ People(p) \/ Delete(p)
      BY <2>1 DEF List, People, Delete, Asks, roles
    <2>2. CASE InsertRequest(p) \/ PutRecord(p) \/ SignRecord(p) \/ Point(p) \/ Register(p) \/ Adopt(p)
      BY <2>2 DEF InsertRequest, PutRecord, SignRecord, Point, Register, Adopt, roles
    <2>3. CASE InsertTask(p) \/ SetWaiting(p) \/ InsertWorker(p) \/ BlockRegistration(p) \/ LiftPackage(p)
      BY <2>3 DEF InsertTask, SetWaiting, InsertWorker, BlockRegistration, LiftPackage, roles
    <2>4. CASE Updates(p)
      BY <2>4, UpdatesOnly
    <2> QED
      BY <1>1, <2>1, <2>2, <2>3, <2>4 DEF Write, Updates
  <1>2. ASSUME NEW p \in Proc, Requests(p) \/ Tick(p) \/ End(p)
        PROVE  UNCHANGED contributors
    BY <1>2, BeginsOnly
  <1>3. ASSUME NEW t \in DOMAIN tasks,
               \/ \E status \in {"staged", "failed", "queued"} : Report(t, status)
               \/ \E w \in DOMAIN workers : Claim(w, t)
               \/ \E l \in Login : Approve(l, t) \/ Reject(l, t)
        PROVE  UNCHANGED contributors
    BY <1>3 DEF Report, Claim, Approve, Reject, roles
  <1>4. CASE MergeGovernance \/ DaysPass \/ \E j \in Project : ReleaseUpstream(j)
    BY <1>4 DEF MergeGovernance, DaysPass, ReleaseUpstream, roles
  <1> QED
    BY <1>1, <1>2, <1>3, <1>4 DEF Next, vars

LEMMA WorkersStay ==
  ASSUME Inv, [Next]_vars, \A p \in Proc : ~InsertWorker(p) /\ ~BlockPerson(p)
  PROVE  DOMAIN workers' = DOMAIN workers /\ \A w \in DOMAIN workers : /\ workers'[w].owner = workers[w].owner
                                                                       /\ workers[w].revoked => workers'[w].revoked
  <1>0. UNCHANGED workers \/ \E p \in Proc, l \in Login, w \in DOMAIN workers : RevokeWorker(p, l, w)
    <2>1. ASSUME NEW p \in Proc, Write(p)
          PROVE  UNCHANGED workers
      <3>1. CASE Upsert(p) \/ List(p) \/ People(p) \/ Role(p) \/ Delete(p) \/ LiftPerson(p)
        BY <3>1 DEF Upsert, List, People, Role, Delete, Asks, LiftPerson
      <3>2. CASE InsertRequest(p) \/ PutRecord(p) \/ SignRecord(p) \/ Point(p) \/ Register(p) \/ Adopt(p)
        BY <3>2 DEF InsertRequest, PutRecord, SignRecord, Point, Register, Adopt
      <3>3. CASE InsertTask(p) \/ SetWaiting(p) \/ BlockRegistration(p) \/ LiftPackage(p)
        BY <3>3 DEF InsertTask, SetWaiting, BlockRegistration, LiftPackage
      <3>4. CASE Updates(p)
        BY <3>4, UpdatesOnly
      <3> QED
        BY <2>1, <3>1, <3>2, <3>3, <3>4 DEF Write, Updates
    <2>2. ASSUME NEW p \in Proc, Requests(p) \/ Tick(p) \/ End(p),
                 \A l \in Login, w \in DOMAIN workers : ~RevokeWorker(p, l, w)
          PROVE  UNCHANGED workers
      <3>1. CASE Requests(p)
        <4>1. ASSUME NEW l \in Login, SignIn(p, l) \/ RegisterWorker(p, l)
              PROVE  UNCHANGED workers
          BY <4>1 DEF SignIn, RegisterWorker, Asks
        <4>2. ASSUME NEW l \in Login, NEW n \in Name,
                     \/ DeletePackage(p, l, n) \/ BuildPackage(p, l, n) \/ BlockPackage(p, l, n)
                     \/ UnblockPackage(p, l, n) \/ \E u \in Url : RequestPackage(p, l, n, u)
              PROVE  UNCHANGED workers
          BY <4>2 DEF DeletePackage, BuildPackage, BlockPackage, UnblockPackage, RequestPackage, Asks
        <4>3. ASSUME NEW l \in Login, NEW o \in Login, BlockContributor(p, l, o) \/ UnblockContributor(p, l, o)
              PROVE  UNCHANGED workers
          BY <4>3 DEF BlockContributor, UnblockContributor, Asks
        <4> QED
          BY <2>2, <3>1, <4>1, <4>2, <4>3 DEF Requests
      <3>2. CASE Tick(p) \/ End(p)
        BY <3>2 DEF Tick, End, SyncGovernance, CheckUpdates, Backfill, Asks
      <3> QED
        BY <2>2, <3>1, <3>2
    <2>3. ASSUME NEW t \in DOMAIN tasks,
                 \/ \E status \in {"staged", "failed", "queued"} : Report(t, status)
                 \/ \E w \in DOMAIN workers : Claim(w, t)
                 \/ \E l \in Login : Approve(l, t) \/ Reject(l, t)
          PROVE  UNCHANGED workers
      BY <2>3 DEF Report, Claim, Approve, Reject
    <2>4. CASE MergeGovernance \/ DaysPass \/ \E j \in Project : ReleaseUpstream(j)
      BY <2>4 DEF MergeGovernance, DaysPass, ReleaseUpstream
    <2> QED
      BY <2>1, <2>2, <2>3, <2>4 DEF Next, vars
  <1>1. ASSUME NEW p \in Proc, NEW l \in Login, NEW v \in DOMAIN workers, RevokeWorker(p, l, v)
        PROVE  DOMAIN workers' = DOMAIN workers /\ \A w \in DOMAIN workers : /\ workers'[w].owner = workers[w].owner
                                                                             /\ workers[w].revoked => workers'[w].revoked
    <2>1. \A w \in DOMAIN workers : workers[w] \in Host
      BY Sequences DEF Inv, TypeOK
    <2>2. \A w \in DOMAIN workers : LET r == [workers[w] EXCEPT !.revoked = TRUE]
                                    IN  r.owner = workers[w].owner /\ r.revoked
      BY <2>1 DEF Host
    <2>3. workers' = [workers EXCEPT ![v].revoked = TRUE]
      BY <1>1 DEF RevokeWorker
    <2>4. \A w \in DOMAIN workers : workers'[w] = IF w = v THEN [workers[w] EXCEPT !.revoked = TRUE] ELSE workers[w]
      BY <2>3
    <2> QED
      BY <2>2, <2>3, <2>4
  <1> QED
    BY <1>0, <1>1

\* A role, or a block, that is written: who else is blocked stays the same.
LEMMA PersonWritten ==
  ASSUME TypeOK, NEW l \in Login, NEW r \in Person, contributors' = [contributors EXCEPT ![l] = r]
  PROVE  /\ \A m \in Login \ {l} : m \in Blocked' <=> m \in Blocked
         /\ l \in Blocked' <=> r.by # None
         /\ SignedIn' = SignedIn \cup {l}
         /\ \A m \in Login \ {l} : contributors'[m] = contributors[m]
         /\ contributors'[l] = r
  BY PersonIsSomebody DEF TypeOK, Blocked, SignedIn

LEMMA IdleNext ==
  ASSUME Inv, CallsRely, BlockedAreIdle, [Next]_vars
  PROVE  BlockedAreIdle'
  <1> DEFINE Still == /\ DOMAIN workers' = DOMAIN workers
                      /\ \A w \in DOMAIN workers : /\ workers'[w].owner = workers[w].owner
                                                   /\ workers[w].revoked => workers'[w].revoked
  <1>1. ASSUME Blocked' \subseteq Blocked, Still, NoneReopens
        PROVE  BlockedAreIdle'
    BY <1>1 DEF BlockedAreIdle, NoneReopens, OpenTasks
  <1>2. CASE \A p \in Proc : /\ ~Upsert(p) /\ ~Role(p) /\ ~BlockPerson(p) /\ ~LiftPerson(p)
                             /\ ~InsertWorker(p) /\ ~InsertTask(p) /\ ~Bump(p)
    <2>1. Blocked' = Blocked
      BY <1>2, PeopleStay DEF Blocked, SignedIn
    <2> QED
      BY <1>1, <1>2, <2>1, TasksStay, WorkersStay
  <1>3. ASSUME NEW p \in Proc, Upsert(p) \/ Role(p) \/ LiftPerson(p)
        PROVE  BlockedAreIdle'
    <2>1. Still /\ NoneReopens
      BY <1>3 DEF Upsert, Role, LiftPerson, NoneReopens
    <2>2. CASE Upsert(p)
      <3> DEFINE c == calls[p]
                 r == [role |-> c.role, by |-> IF c.who \in SignedIn THEN contributors[c.who].by ELSE None]
      <3>1. c.work = "signIn" /\ c.who \in Login /\ c.role \in {"maintainer", "contributor"}
        BY <2>2, OfHandler, Leads DEF Upsert, Inv, Fits
      <3>2. (IF c.who \in SignedIn THEN contributors[c.who].by ELSE None) \in Login \cup {None}
        BY <3>1, PeopleTyped DEF Inv, SignedIn
      <3>3. r \in Person /\ contributors' = [contributors EXCEPT ![c.who] = r]
        BY <2>2, <3>1, <3>2 DEF Person, Upsert
      <3>4. r.by # None => c.who \in Blocked
        BY DEF Blocked
      <3> HIDE DEF r
      <3>5. Blocked' \subseteq Blocked
        BY <3>1, <3>3, <3>4, PersonWritten DEF Inv, Blocked, SignedIn
      <3> QED
        BY <1>1, <2>1, <3>5
    <2>3. CASE UNCHANGED contributors
      BY <1>1, <2>1, <2>3 DEF Blocked, SignedIn
    <2>4. ASSUME NEW l \in calls[p].todo, Role(p),
                 contributors' = [contributors EXCEPT ![l].role =
                                  IF l \in File[calls[p].file] THEN "maintainer" ELSE "contributor"]
          PROVE  BlockedAreIdle'
      <3> DEFINE r == [contributors[l] EXCEPT !.role = IF l \in File[calls[p].file] THEN "maintainer" ELSE "contributor"]
      <3>1. l \in Login /\ contributors[l] # None /\ contributors[l] \in Person
        BY <2>4, OfHandler, Leads, PeopleTyped DEF Role, Fits, Inv
      <3>2. r \in Person /\ r.by = contributors[l].by
        BY <3>1 DEF Person
      <3>3. contributors' = [contributors EXCEPT ![l] = r]
        BY <2>4
      <3> HIDE DEF r
      <3>4. Blocked' \subseteq Blocked
        BY <3>1, <3>2, <3>3, PersonWritten DEF Inv, Blocked, SignedIn
      <3> QED
        BY <1>1, <2>1, <3>4
    <2>5. CASE LiftPerson(p)
      <3> DEFINE l == calls[p].name
                 r == [contributors[l] EXCEPT !.by = None]
      <3>1. l \in Login /\ contributors[l] # None /\ contributors[l] \in Person
        BY <2>5, OfHandler, Leads, PeopleTyped DEF LiftPerson, Fits, Inv
      <3>2. r \in Person /\ r.by = None
        BY <3>1 DEF Person
      <3>3. contributors' = [contributors EXCEPT ![l] = r]
        BY <2>5 DEF LiftPerson
      <3> HIDE DEF r
      <3>4. Blocked' \subseteq Blocked
        BY <3>1, <3>2, <3>3, PersonWritten DEF Inv, Blocked, SignedIn
      <3> QED
        BY <1>1, <2>1, <3>4
    <2> QED
      BY <1>3, <2>2, <2>3, <2>4, <2>5 DEF Role
  <1>4. ASSUME NEW p \in Proc, BlockPerson(p)
        PROVE  BlockedAreIdle'
    <2> DEFINE l == calls[p].name
               r == [contributors[l] EXCEPT !.by = calls[p].who]
               hit == {t \in DOMAIN tasks : OfBlocked(t, l)}
    <2>1. l \in Login /\ contributors[l] # None /\ contributors[l] \in Person /\ calls[p].who \in Login
      BY <1>4, OfHandler, Leads, PeopleTyped DEF BlockPerson, Fits, Inv
    <2>2. r \in Person
      BY <2>1 DEF Person
    <2>3. contributors' = [contributors EXCEPT ![l] = r]
      BY <1>4 DEF BlockPerson
    <2> HIDE DEF r
    <2>4. \A m \in Login \ {l} : m \in Blocked' <=> m \in Blocked
      BY <2>1, <2>2, <2>3, PersonWritten DEF Inv
    <2>5. /\ DOMAIN workers' = DOMAIN workers
          /\ \A w \in DOMAIN workers : /\ workers'[w].owner = workers[w].owner
                                       /\ workers[w].revoked => workers'[w].revoked
                                       /\ workers[w].owner = l => workers'[w].revoked
      <3>1. \A w \in DOMAIN workers : workers[w] \in Host
        BY Sequences DEF Inv, TypeOK
      <3>2. \A w \in DOMAIN workers : LET h == [workers[w] EXCEPT !.revoked = TRUE]
                                      IN  h.owner = workers[w].owner /\ h.revoked
        BY <3>1 DEF Host
      <3> QED
        BY <1>4, <3>2 DEF BlockPerson
    <2>6. NoneReopens
      BY <1>4, CancelledStays DEF BlockPerson
    <2>7. \A t \in DOMAIN tasks : tasks[t].owner = l => tasks'[t].status \notin Open
      <3>1. \A t \in DOMAIN tasks : tasks[t] \in Task
        BY Sequences DEF Inv, TypeOK
      <3>2. tasks' = Cancelled(hit)
        BY <1>4 DEF BlockPerson
      <3>3. \A t \in DOMAIN tasks : [tasks[t] EXCEPT !.status = "cancelled"].status = "cancelled"
        BY <3>1 DEF Task
      <3>4. ASSUME NEW t \in DOMAIN tasks, tasks[t].owner = l
            PROVE  tasks'[t].status \notin Open
        <4>1. CASE t \in hit
          BY <3>2, <3>3, <4>1 DEF Cancelled, Open
        <4>2. CASE t \notin hit
          BY <3>2, <3>4, <4>2 DEF Cancelled, OfBlocked
        <4> QED
          BY <4>1, <4>2
      <3> QED
        BY <3>4
    <2>8. Blocked' \subseteq Login
      BY DEF Blocked, SignedIn
    <2> HIDE DEF l, hit
    <2> QED
      BY <2>4, <2>5, <2>6, <2>7, <2>8 DEF BlockedAreIdle, NoneReopens, OpenTasks
  <1>5. ASSUME NEW p \in Proc, InsertWorker(p)
        PROVE  BlockedAreIdle'
    <2>1. calls[p].work = "worker" /\ ~Idle(p) /\ calls[p].who \in Login
      BY <1>5, OfHandler, Leads DEF InsertWorker, Fits, Inv
    <2>2. calls[p].who \notin Blocked
      BY <2>1 DEF CallsRely, Relies, Blocked
    <2> DEFINE h == [owner |-> calls[p].who, revoked |-> FALSE]
               k == Len(workers) + 1
    <2>3. workers' = Append(workers, h) /\ h.owner = calls[p].who
      BY <1>5 DEF InsertWorker
    <2> HIDE DEF h
    <2>4. DOMAIN workers' = DOMAIN workers \cup {k} /\ workers'[k] = h
          /\ \A w \in DOMAIN workers : workers'[w] = workers[w]
      BY <2>3 DEF Inv, TypeOK
    <2> HIDE DEF k
    <2>5. Blocked' = Blocked /\ UNCHANGED tasks
      BY <1>5 DEF InsertWorker, Blocked, SignedIn, roles
    <2> QED
      BY <2>2, <2>3, <2>4, <2>5 DEF BlockedAreIdle, OpenTasks
  <1>6. ASSUME NEW b, tasks' = Append(tasks, b), UNCHANGED <<contributors, workers>>,
               b.owner \notin Blocked \/ b.bump # 0
        PROVE  BlockedAreIdle'
    <2> DEFINE k == Len(tasks) + 1
    <2>1. /\ DOMAIN tasks' = DOMAIN tasks \cup {k} /\ \A t \in DOMAIN tasks : tasks'[t] = tasks[t]
          /\ tasks'[k] = b
      BY <1>6, Appended DEF Inv
    <2> HIDE DEF k
    <2>2. Blocked' = Blocked
      BY <1>6 DEF Blocked, SignedIn
    <2> QED
      BY <1>6, <2>1, <2>2 DEF BlockedAreIdle, OpenTasks
  <1>7. ASSUME NEW p \in Proc, InsertTask(p)
        PROVE  BlockedAreIdle'
    <2>1. calls[p].left = <<"task", "waiting">> /\ ~Idle(p)
      BY <1>7, OfHandler, Leads DEF InsertTask, Inv
    <2>2. calls[p].who \notin Blocked
      BY <2>1 DEF CallsRely, Relies, Blocked
    <2> DEFINE b == Build(calls[p].name, calls[p].who,
                          IF packages[calls[p].name] = None THEN 0 ELSE packages[calls[p].name].tag, 0)
    <2>3. tasks' = Append(tasks, b) /\ b.owner = calls[p].who /\ UNCHANGED <<contributors, workers>>
      BY <1>7 DEF InsertTask, Build, roles
    <2> HIDE DEF b
    <2> QED
      BY <1>6, <2>2, <2>3
  <1>8. ASSUME NEW p \in Proc, Bump(p)
        PROVE  BlockedAreIdle'
    <2> DEFINE b == Build(calls[p].name, calls[p].who, calls[p].tag, calls[p].tag)
    <2>1. calls[p].tag \in 1 .. MaxTag
      <3>1. Updates(p) /\ Head(calls[p].left) = "bump"
        BY <1>8 DEF Updates, Bump, At
      <3>2. calls[p].work = "updates" /\ Fits(calls[p], contributors)
        BY <3>1, UpdatesHead
      <3> QED
        BY <3>1, <3>2 DEF Fits
    <2>2. b.bump # 0
      BY <2>1 DEF Build
    <2>3. tasks' = Append(tasks, b) /\ UNCHANGED <<contributors, workers>>
      BY <1>8 DEF Bump, roles
    <2> HIDE DEF b
    <2> QED
      BY <1>6, <2>2, <2>3
  <1> QED
    BY <1>2, <1>3, <1>4, <1>5, <1>7, <1>8

-----------------------------------------------------------------------------
\* Roles. Only an apply of the file is about to write any.
LEMMA Governs ==
  ASSUME Inv, NEW p \in Proc, At(p, "list") \/ Writing(p)
  PROVE  calls[p].work = "governance"
  <1>1. \E s \in {"list", "people", "roles"} : At(p, s)
    BY DEF Writing, At
  <1> QED
    BY <1>1, OfHandler, Leads DEF Inv

\* A step that writes no role and brings nobody to the writes of one.
LEMMA RolesSame ==
  ASSUME RolesInv, UNCHANGED <<known, maintainers>>,
         \A l \in SignedIn' : l \in SignedIn /\ (isMaintainer(l)' <=> isMaintainer(l)),
         \A q \in Proc : Writing(q)' => Writing(q) /\ calls'[q] = calls[q]
  PROVE  RolesInv'
  <1>1. (maintainers = File[known])'
    BY DEF RolesInv
  <1>2. (\A q \in Proc : Writing(q) => known = calls[q].file)'
    BY DEF RolesInv
  <1>3. ASSUME NEW q \in Proc, At(q, "roles")'
        PROVE  Follows(SignedIn \ calls[q].todo, calls[q].file)'
    <2>1. Writing(q)'
      BY <1>3 DEF Writing, At
    <2>2. calls'[q] = calls[q] /\ At(q, "roles")
      BY <1>3, <2>1 DEF At, Idle
    <2>3. Follows(SignedIn \ calls[q].todo, calls[q].file)
      BY <2>2 DEF RolesInv
    <2> QED
      BY <2>2, <2>3 DEF Follows
  <1> QED
    BY <1>1, <1>2, <1>3 DEF RolesInv

\* The only apply under way is that of p.
LEMMA RolesOwn ==
  ASSUME Inv, RolesInv, OneApply, NEW p \in Proc, At(p, "list") \/ Writing(p),
         \A q \in Proc \ {p} : calls'[q] = calls[q], maintainers' = File[known'],
         Writing(p)' => known' = calls'[p].file,
         At(p, "roles")' => Follows(SignedIn \ calls[p].todo, calls[p].file)'
  PROVE  RolesInv'
  <1>1. \A q \in Proc \ {p} : ~Writing(q)
    BY Governs DEF OneApply
  <1>2. \A q \in Proc \ {p} : ~(Writing(q)') /\ ~(At(q, "roles")')
    BY <1>1 DEF Writing, At, Idle
  <1> QED
    BY <1>2 DEF RolesInv

\* The steps of a sign-in and of an apply.
LEMMA RoleWriters ==
  ASSUME Inv, RolesInv, OneApply, FreshSignIns, NEW p \in Proc, Upsert(p) \/ List(p) \/ People(p) \/ Role(p)
  PROVE  RolesInv'
  <1>0. /\ ~Idle(p) /\ \A q \in Proc \ {p} : calls'[q] = calls[q]
        /\ Upsert(p) => At(p, "upsert")
        /\ List(p) => At(p, "list")
        /\ People(p) => At(p, "people")
        /\ Role(p) => At(p, "roles")
    BY WriteKeeps DEF Write, Upsert, List, People, Role
  <1>1. ASSUME NEW c, Start(p, c)
        PROVE  IF c.left = <<>> THEN Idle(p)' ELSE calls'[p] = c
    BY <1>1, Placed DEF Inv, Idle
  <1>2. CASE Upsert(p)
    <2> DEFINE c == calls[p]
               r == [role |-> c.role, by |-> IF c.who \in SignedIn THEN contributors[c.who].by ELSE None]
    <2>1. /\ c.work = "signIn" /\ c.who \in Login /\ c.role \in {"maintainer", "contributor"}
          /\ Head(c.left) = "upsert" /\ Tail(c.left) = <<>>
      BY <1>2, OfHandler, Leads DEF Upsert, Inv, Fits
    <2>2. (IF c.who \in SignedIn THEN contributors[c.who].by ELSE None) \in Login \cup {None}
      BY <2>1, PeopleTyped DEF Inv, SignedIn
    <2>3. r \in Person /\ r.role = c.role /\ contributors' = [contributors EXCEPT ![c.who] = r]
      BY <1>2, <2>1, <2>2 DEF Person, Upsert
    <2> HIDE DEF r
    <2>4. UNCHANGED <<known, maintainers>> /\ maintainers = File[known]
      BY <1>2 DEF Upsert, RolesInv
    <2>5. ~(Writing(p)')
      <3> DEFINE d == [c EXCEPT !.left = Tail(@)]
      <3>1. Start(p, d) /\ d.left = <<>>
        BY <1>2, <2>1, GoesOn DEF Upsert, Then, Inv
      <3> HIDE DEF d
      <3> QED
        BY <1>1, <3>1 DEF Writing
    <2>6. \A q \in Proc : Writing(q)' => q # p /\ Writing(q) /\ calls'[q] = calls[q]
      BY <1>0, <2>5 DEF Writing, Idle
    <2>7. ASSUME NEW q \in Proc, At(q, "roles")'
          PROVE  Follows(SignedIn \ calls[q].todo, calls[q].file)'
      <3>1. Writing(q)'
        BY <2>7 DEF Writing, At
      <3>2. calls'[q] = calls[q] /\ At(q, "roles") /\ known = calls[q].file
        BY <2>6, <2>7, <3>1 DEF At, Idle, RolesInv
      <3>3. Follows(SignedIn \ calls[q].todo, calls[q].file) /\ c.role = roleFor(c.who)
        BY <1>0, <1>2, <3>2 DEF RolesInv, FreshSignIns
      <3>4. ASSUME NEW l \in SignedIn' \ calls[q].todo
            PROVE  isMaintainer(l)' <=> l \in File[calls[q].file]
        <4>0. /\ l \in Login /\ contributors'[c.who] = r
              /\ l # c.who => l \in SignedIn /\ contributors'[l] = contributors[l]
          BY <2>1, <2>3, <3>4, PersonWritten DEF Inv, SignedIn
        <4>1. CASE l = c.who
          <5>1. r.role = "maintainer" <=> l \in maintainers
            BY <2>3, <3>3, <4>1 DEF roleFor
          <5> QED
            BY <2>4, <3>2, <3>4, <4>0, <4>1, <5>1 DEF isMaintainer
        <4>2. CASE l # c.who
          BY <3>3, <3>4, <4>0, <4>2 DEF Follows, isMaintainer
        <4> QED
          BY <4>1, <4>2
      <3> QED
        BY <3>2, <3>4 DEF Follows
    <2> QED
      BY <2>4, <2>6, <2>7 DEF RolesInv
  <1>3. CASE List(p)
    <2> DEFINE c == calls[p]
               d == [c EXCEPT !.left = Tail(@)]
    <2>1. c.work = "governance" /\ Tail(c.left) = <<"people", "roles">>
      BY <1>3, OfHandler, Leads DEF List, Inv
    <2>2. Start(p, d) /\ d.left = <<"people", "roles">> /\ d.file = c.file
      BY <1>3, <2>1, GoesOn DEF List, Then, Inv
    <2> HIDE DEF d
    <2>3. calls'[p] = d
      BY <1>1, <2>2, Tuples
    <2>4. ~(At(p, "roles")')
      BY <2>2, <2>3, Tuples DEF At, Idle
    <2>5. known' = c.file /\ maintainers' = File[c.file]
      BY <1>3 DEF List
    <2> QED
      BY <1>0, <1>3, <2>2, <2>3, <2>4, <2>5, RolesOwn
  <1>4. CASE People(p)
    <2> DEFINE c == calls[p]
               S == Changing(c.file)
               d == [c EXCEPT !.todo = S, !.left = Tail(@)]
    <2>1. c.work = "governance" /\ Tail(c.left) = <<"roles">> /\ Head(c.left) = "people"
      BY <1>4, OfHandler, Leads DEF People, Inv
    <2>2. Start(p, d) /\ d.left = <<"roles">> /\ d.file = c.file /\ d.todo = S
      BY <1>4, <2>1, GoesOn DEF People, Inv
    <2> HIDE DEF d
    <2>3. calls'[p] = d
      BY <1>1, <2>2, Tuples
    <2>4. Writing(p) /\ known = c.file
      BY <1>0, <2>1 DEF Writing, RolesInv
    <2>5. UNCHANGED <<contributors, known, maintainers>> /\ maintainers = File[known]
      BY <1>4 DEF People, Asks, roles, RolesInv
    <2>6. Follows(SignedIn \ calls[p].todo, calls[p].file)'
      <3>1. \A l \in SignedIn \ S : isMaintainer(l) <=> l \in File[c.file]
        BY DEF Changing
      <3>2. SignedIn' = SignedIn /\ \A l : isMaintainer(l)' <=> isMaintainer(l)
        BY <2>5 DEF SignedIn, isMaintainer
      <3> HIDE DEF S
      <3> QED
        BY <2>2, <2>3, <3>1, <3>2 DEF Follows
    <2> QED
      BY <1>0, <2>2, <2>3, <2>4, <2>5, <2>6, RolesOwn
  <1>5. CASE Role(p)
    <2> DEFINE c == calls[p]
    <2>1. /\ c.work = "governance" /\ Tail(c.left) = <<>> /\ Head(c.left) = "roles" /\ c \in AnyCall
          /\ Fits(c, contributors) /\ c.left # <<>>
      BY <1>5, OfHandler, Leads DEF Role, Inv
    <2>2. UNCHANGED <<known, maintainers>> /\ maintainers = File[known]
      BY <1>5 DEF Role, RolesInv
    <2>3. Writing(p) /\ known = c.file /\ Follows(SignedIn \ c.todo, c.file)
      BY <1>0, <1>5, <2>1 DEF RolesInv, Writing
    <2>4. CASE c.todo = {} /\ Then(p)
      <3> DEFINE d == [c EXCEPT !.left = Tail(@)]
      <3>1. Start(p, d) /\ d.left = <<>>
        BY <2>1, <2>4, GoesOn DEF Then, Inv
      <3> HIDE DEF d
      <3>2. ~(Writing(p)') /\ ~(At(p, "roles")')
        BY <1>1, <3>1 DEF Writing, At
      <3> QED
        BY <1>0, <2>2, <2>3, <3>2, RolesOwn
    <2>5. ASSUME NEW l \in c.todo,
                 contributors' = [contributors EXCEPT ![l].role =
                                  IF l \in File[c.file] THEN "maintainer" ELSE "contributor"],
                 Start(p, [c EXCEPT !.todo = @ \ {l}])
          PROVE  RolesInv'
      <3> DEFINE r == [contributors[l] EXCEPT !.role = IF l \in File[c.file] THEN "maintainer" ELSE "contributor"]
                 d == [c EXCEPT !.todo = c.todo \ {l}]
      <3>1. Start(p, d) /\ d.left = c.left /\ d.file = c.file /\ d.todo = c.todo \ {l}
        BY <2>5, GoesOn DEF Inv
      <3> HIDE DEF d
      <3>2. calls'[p] = d
        BY <1>1, <2>1, <3>1
      <3>3. l \in Login /\ contributors[l] # None /\ contributors[l] \in Person
        BY <2>1, PeopleTyped DEF Fits, Inv
      <3>4. r \in Person /\ (r.role = "maintainer" <=> l \in File[c.file])
        BY <3>3 DEF Person
      <3>5. contributors' = [contributors EXCEPT ![l] = r]
        BY <2>5
      <3> HIDE DEF r
      <3>6. ASSUME NEW m \in SignedIn' \ (c.todo \ {l})
            PROVE  isMaintainer(m)' <=> m \in File[c.file]
        <4>1. CASE m = l
          <5>1. contributors'[l] = r
            BY <3>3, <3>4, <3>5, PersonWritten DEF Inv
          <5> QED
            BY <3>4, <3>6, <4>1, <5>1 DEF isMaintainer
        <4>2. CASE m # l
          <5>1. m \in SignedIn \ c.todo /\ contributors'[m] = contributors[m] /\ m \in Login
            BY <3>3, <3>4, <3>5, <3>6, <4>2, PersonWritten DEF Inv, SignedIn
          <5> QED
            BY <2>3, <3>6, <5>1 DEF Follows, isMaintainer
        <4> QED
          BY <4>1, <4>2
      <3>7. Follows(SignedIn \ calls[p].todo, calls[p].file)'
        BY <3>1, <3>2, <3>6 DEF Follows
      <3> QED
        BY <1>0, <2>2, <2>3, <3>1, <3>2, <3>7, RolesOwn
    <2> QED
      BY <1>5, <2>4, <2>5 DEF Role
  <1> QED
    BY <1>2, <1>3, <1>4, <1>5

\* The other steps of a handler: no person's role is among what they write.
LEMMA RolesKept ==
  ASSUME Inv, NEW p \in Proc, Write(p), ~Upsert(p), ~List(p), ~People(p), ~Role(p)
  PROVE  /\ UNCHANGED <<known, maintainers>> /\ ~(Writing(p)')
         /\ \A l \in SignedIn' : l \in SignedIn /\ (isMaintainer(l)' <=> isMaintainer(l))
  <1>1. UNCHANGED <<known, maintainers>>
    <2>1. CASE InsertRequest(p) \/ PutRecord(p) \/ SignRecord(p) \/ Point(p) \/ Register(p) \/ Adopt(p) \/ Delete(p)
      BY <2>1 DEF InsertRequest, PutRecord, SignRecord, Point, Register, Adopt, Delete, roles
    <2>2. CASE InsertTask(p) \/ SetWaiting(p) \/ InsertWorker(p)
      BY <2>2 DEF InsertTask, SetWaiting, InsertWorker, roles
    <2>3. CASE BlockPerson(p) \/ LiftPerson(p) \/ BlockRegistration(p) \/ LiftPackage(p)
      BY <2>3 DEF BlockPerson, LiftPerson, BlockRegistration, LiftPackage, roles
    <2>4. CASE Updates(p)
      BY <2>4, UpdatesOnly
    <2> QED
      BY <2>1, <2>2, <2>3, <2>4 DEF Write, Updates
  <1>2. ~(Writing(p)')
    <2>1. \E s \in Steps : At(p, s) /\ s \notin {"list", "people", "roles"}
      <3>1. CASE InsertRequest(p) \/ PutRecord(p) \/ SignRecord(p) \/ Point(p) \/ Register(p) \/ Adopt(p) \/ Delete(p)
        <4>1. At(p, "request") \/ At(p, "record") \/ At(p, "sign") \/ At(p, "point") \/ At(p, "register")
                \/ At(p, "adopt") \/ At(p, "delete")
          BY <3>1 DEF InsertRequest, PutRecord, SignRecord, Point, Register, Adopt, Delete
        <4> QED
          BY <4>1 DEF Steps
      <3>2. CASE InsertTask(p) \/ SetWaiting(p) \/ InsertWorker(p)
        <4>1. At(p, "task") \/ At(p, "waiting") \/ At(p, "worker")
          BY <3>2 DEF InsertTask, SetWaiting, InsertWorker
        <4> QED
          BY <4>1 DEF Steps
      <3>3. CASE BlockPerson(p) \/ LiftPerson(p) \/ BlockRegistration(p) \/ LiftPackage(p)
        <4>1. At(p, "blockPerson") \/ At(p, "liftPerson") \/ At(p, "blockPackage") \/ At(p, "liftPackage")
          BY <3>3 DEF BlockPerson, LiftPerson, BlockRegistration, LiftPackage
        <4> QED
          BY <4>1 DEF Steps
      <3>4. CASE Updates(p)
        BY <3>4, UpdatesHead DEF At, Steps
      <3> QED
        BY <3>1, <3>2, <3>3, <3>4 DEF Write, Updates
    <2>2. calls[p].work # "governance"
      <3>1. /\ calls[p].left \in LeftOf[calls[p].work] /\ calls[p].work \in Handler
            /\ Head(calls[p].left) \notin {"list", "people", "roles"}
        BY <2>1, OfHandler DEF At, Inv
      <3>2. calls[p].work = "governance" => Head(calls[p].left) \in {"list", "people", "roles"}
        BY <3>1, Tuples DEF LeftOf
      <3> QED
        BY <3>1, <3>2
    <2>3. Writing(p)' => calls'[p].work = "governance"
      <3>1. Inv'
        BY NextInv DEF Next
      <3>2. ~(Idle(p)') => /\ calls'[p].left \in LeftOf[calls'[p].work] /\ calls'[p].work \in Handler
        BY <3>1 DEF Inv, TypeOK, CallsFit, AnyCall, Fits
      <3> QED
        BY <3>2, Leads DEF Writing
    <2> QED
      BY <2>2, <2>3, WriteKeeps DEF Writing
  <1>3. ASSUME NEW b \in Login \cup {None}, At(p, "blockPerson") \/ At(p, "liftPerson"),
               contributors' = [contributors EXCEPT ![calls[p].name].by = b]
        PROVE  \A l \in SignedIn' : l \in SignedIn /\ (isMaintainer(l)' <=> isMaintainer(l))
    <2> DEFINE l == calls[p].name
               r == [contributors[l] EXCEPT !.by = b]
    <2>1. l \in Login /\ contributors[l] # None /\ contributors[l] \in Person
      <3>1. calls[p].left \in {<<"blockPerson">>, <<"liftPerson">>} /\ Fits(calls[p], contributors)
        BY <1>3, OfHandler, Leads DEF Inv
      <3>2. calls[p].name \in Login /\ contributors[calls[p].name] # None
        BY <3>1 DEF Fits
      <3> QED
        BY <3>2, PeopleTyped DEF Inv
    <2>2. r \in Person /\ r.role = contributors[l].role
      BY <2>1 DEF Person
    <2>3. contributors' = [contributors EXCEPT ![l] = r]
      BY <1>3
    <2> HIDE DEF r
    <2>4. /\ SignedIn' = SignedIn \cup {l} /\ contributors'[l] = r
          /\ \A m \in Login : m # l => contributors'[m] = contributors[m]
      BY <2>1, <2>2, <2>3, PersonWritten DEF Inv
    <2>5. SignedIn' = SignedIn
      BY <2>1, <2>4 DEF SignedIn
    <2> QED
      BY <2>2, <2>4, <2>5 DEF isMaintainer, SignedIn
  <1>4. \A l \in SignedIn' : l \in SignedIn /\ (isMaintainer(l)' <=> isMaintainer(l))
    <2>1. CASE BlockPerson(p)
      <3>1. calls[p].who \in Login /\ At(p, "blockPerson")
        BY <2>1, OfHandler, Leads DEF BlockPerson, Fits, Inv
      <3> QED
        BY <1>3, <2>1, <3>1 DEF BlockPerson
    <2>2. CASE LiftPerson(p)
      BY <1>3, <2>2 DEF LiftPerson
    <2>3. CASE UNCHANGED contributors
      BY <2>3 DEF SignedIn, isMaintainer
    <2>4. CASE InsertRequest(p) \/ PutRecord(p) \/ SignRecord(p) \/ Point(p) \/ Register(p) \/ Adopt(p) \/ Delete(p)
      BY <2>3, <2>4 DEF InsertRequest, PutRecord, SignRecord, Point, Register, Adopt, Delete, roles
    <2>5. CASE InsertTask(p) \/ SetWaiting(p) \/ InsertWorker(p) \/ BlockRegistration(p) \/ LiftPackage(p)
      BY <2>3, <2>5 DEF InsertTask, SetWaiting, InsertWorker, BlockRegistration, LiftPackage, roles
    <2>6. CASE Updates(p)
      BY <2>3, <2>6, UpdatesOnly
    <2> QED
      BY <2>1, <2>2, <2>4, <2>5, <2>6 DEF Write, Updates
  <1> QED
    BY <1>1, <1>2, <1>4

LEMMA RolesNext ==
  ASSUME Inv, RolesInv, OneApply, FreshSignIns, [Next]_vars
  PROVE  RolesInv'
  <1>1. CASE UNCHANGED <<calls, contributors, known, maintainers>>
    <2>1. \A l \in SignedIn' : l \in SignedIn /\ (isMaintainer(l)' <=> isMaintainer(l))
      BY <1>1 DEF SignedIn, isMaintainer
    <2>2. \A q \in Proc : Writing(q)' => Writing(q) /\ calls'[q] = calls[q]
      BY <1>1 DEF Writing, Idle
    <2> QED
      BY <1>1, <2>1, <2>2, RolesSame
  \* A step of p that leaves it with other writes.
  <1>2. ASSUME NEW p \in Proc, UNCHANGED <<known, maintainers>>, ~(Writing(p)'),
               \A q \in Proc \ {p} : calls'[q] = calls[q],
               \A l \in SignedIn' : l \in SignedIn /\ (isMaintainer(l)' <=> isMaintainer(l))
        PROVE  RolesInv'
    <2>1. \A q \in Proc : Writing(q)' => Writing(q) /\ calls'[q] = calls[q]
      BY <1>2 DEF Writing, Idle
    <2> QED
      BY <1>2, <2>1, RolesSame
  <1>3. ASSUME NEW p \in Proc, Write(p)
        PROVE  RolesInv'
    <2>1. CASE Upsert(p) \/ List(p) \/ People(p) \/ Role(p)
      BY <2>1, RoleWriters
    <2>2. CASE ~Upsert(p) /\ ~List(p) /\ ~People(p) /\ ~Role(p)
      BY <1>2, <1>3, <2>2, RolesKept, WriteKeeps
    <2> QED
      BY <2>1, <2>2
  <1>4. ASSUME NEW p \in Proc, Requests(p) \/ Tick(p) \/ End(p)
        PROVE  RolesInv'
    <2>1. UNCHANGED <<contributors, known, maintainers>>
      BY <1>4, BeginsOnly
    <2>2. \A l \in SignedIn' : l \in SignedIn /\ (isMaintainer(l)' <=> isMaintainer(l))
      BY <2>1 DEF SignedIn, isMaintainer
    <2>3. UNCHANGED calls \/ \E c : Start(p, c) /\ (c.left = <<>> \/ Head(c.left) \notin {"people", "roles"})
      <3>1. CASE Requests(p) \/ Tick(p)
        BY <3>1, BeginsCalm
      <3>2. CASE End(p)
        BY <3>2 DEF End, Call
      <3> QED
        BY <1>4, <3>1, <3>2
    <2>4. ASSUME NEW c, Start(p, c), c.left = <<>> \/ Head(c.left) \notin {"people", "roles"}
          PROVE  ~(Writing(p)') /\ \A q \in Proc \ {p} : calls'[q] = calls[q]
      BY <2>4, Placed DEF Writing, Idle, Inv
    <2> QED
      BY <1>1, <1>2, <2>1, <2>2, <2>3, <2>4
  <1>5. CASE ~\E p \in Proc : Write(p) \/ Requests(p) \/ Tick(p) \/ End(p)
    <2>1. UNCHANGED <<calls, contributors, known, maintainers>>
      BY <1>5 DEF Next, Report, Claim, Approve, Reject, MergeGovernance, DaysPass, ReleaseUpstream, roles, vars
    <2> QED
      BY <1>1, <2>1
  <1> QED
    BY <1>3, <1>4, <1>5

-----------------------------------------------------------------------------
\* What the handlers keep where no two are under way at a time.
SerialInv == Inv /\ Recorded /\ Lone /\ CallsRely /\ HandsInv

LEMMA SerialInit == Init => SerialInv
  <1> SUFFICES ASSUME Init
               PROVE  SerialInv
    OBVIOUS
  <1>1. Inv /\ Recorded /\ Lone
    BY InitInv, RecordedInit, LoneInit
  <1>2. CallsRely
    BY DEF Init, CallsRely, Idle, Call
  <1>3. \A n \in Name : packages[n] # None => packages[n].request = 0
    BY DEF Init, Registration
  <1>4. HandsInv
    BY <1>3 DEF HandsInv, OwnRequest, OneNamePerProject, Registered
  <1> QED
    BY <1>1, <1>2, <1>4 DEF SerialInv

LEMMA SerialNext ==
  ASSUME Serial, SerialInv, [Next]_vars
  PROVE  SerialInv'
  <1>1. Inv' /\ Recorded'
    BY NextInv, RecordedNext DEF SerialInv
  <1>2. Lone'
    BY LoneNext DEF SerialInv
  <1> QED
    BY <1>1, <1>2, RelyNext, HandsNext DEF SerialInv

\* handlePackageRequest takes a name that is free or its own, and the upsert
\* keeps the owner of a row that is there: where no two requests overlap, the
\* request a registration points at is its owner's, for its project. (With
\* overlap it is not: the row may have come between the check and the upsert.)
THEOREM RequestsAreTheOwners ==
  ASSUME Serial
  PROVE  Spec => []OwnRequest
  <1>1. SerialInv /\ [Next]_vars => SerialInv'
    BY SerialNext
  <1>2. SerialInv => OwnRequest
    BY DEF SerialInv, HandsInv
  <1> QED
    BY <1>1, <1>2, SerialInit, PTL DEF Spec

\* byProject looks the project up under every other name before the request is
\* written: where no two requests overlap, no project is requested under two
\* names.
THEOREM ProjectsHaveOneName ==
  ASSUME Serial
  PROVE  Spec => []OneNamePerProject
  <1>1. SerialInv /\ [Next]_vars => SerialInv'
    BY SerialNext
  <1>2. SerialInv => OneNamePerProject
    BY DEF SerialInv, HandsInv
  <1> QED
    BY <1>1, <1>2, SerialInit, PTL DEF Spec

\* The batch of handleBlockContributor revokes every worker of the person and
\* cancels every build, and blockedResponse stands before every door that adds
\* one: where no two requests overlap, who is blocked has neither, but for the
\* bumps of the daily check.
THEOREM BlockedStayIdle ==
  ASSUME Serial
  PROVE  Spec => []BlockedAreIdle
  <1>1. Init => SerialInv /\ BlockedAreIdle
    <2>1. Init => workers = <<>> /\ tasks = <<>>
      BY DEF Init
    <2> QED
      BY <2>1, SerialInit DEF BlockedAreIdle, OpenTasks
  <1>2. SerialInv /\ BlockedAreIdle /\ [Next]_vars => (SerialInv /\ BlockedAreIdle)'
    BY SerialNext, IdleNext DEF SerialInv
  <1>3. SerialInv /\ BlockedAreIdle => BlockedAreIdle
    OBVIOUS
  <1> QED
    BY <1>1, <1>2, <1>3, PTL DEF Spec

\* applyGovernance stores the hash before it writes the roles, so an apply that
\* dies is never run again for its version; but the people it goes through are
\* all whose role differs from the file, not those the version changes. So
\* whatever died before, and whoever signs in beside it, an apply that comes to
\* its end leaves every role as its file has it, where no two applies overlap
\* and no sign-in sleeps through one.
THEOREM AppliesMendRoles == Spec /\ [](OneApply /\ FreshSignIns) => []AppliesMend
  <1>1. Init => Inv /\ RolesInv
    <2> SUFFICES ASSUME Init
                 PROVE  RolesInv
      BY InitInv
    <2>1. \A p \in Proc : Idle(p)
      BY DEF Init, Idle, Call
    <2> QED
      BY <2>1 DEF RolesInv, Writing, At, Init
  <1>2. Inv /\ RolesInv /\ OneApply /\ FreshSignIns /\ [Next]_vars => (Inv /\ RolesInv)'
    BY NextInv, RolesNext
  <1>3. Inv /\ RolesInv => AppliesMend
    <2> SUFFICES ASSUME RolesInv, NEW p \in Proc, At(p, "roles"), calls[p].todo = {}, NEW l \in SignedIn
                 PROVE  isMaintainer(l) <=> l \in File[calls[p].file]
      BY DEF AppliesMend
    <2> QED
      BY DEF RolesInv, Follows
  <1> QED
    BY <1>1, <1>2, <1>3, PTL DEF Spec

=============================================================================
