--------------------------- MODULE PipelineProofs ---------------------------
(***************************************************************************)
(* Theorems about the scheduler, the tokens of its jobs and the rings they *)
(* move, for every deployment, every repository and every bound: what is   *)
(* queued and when, what a job may do, the soak before a promotion and the *)
(* rollback after one.                                                     *)
(***************************************************************************)
EXTENDS Pipeline, WellFoundedInduction, FiniteSetTheorems, TLAPS

-----------------------------------------------------------------------------
(* The jobs there are.                                                     *)

JobsOf(d) == Scheduled(d) \cup {Asked(b) : b \in {r \in d.requests : Accepted(r)}}

\* What a job of the rules looks like.
FromRules(j) ==
    /\ j.kind \in {"sync", "security", "enqueue", "promote", "health", "gc", "verify"}
    /\ j.kind # "promote" => j.params.force = FALSE
    /\ j.kind = "promote" => /\ j.arch = "x86_64" /\ j.params.from \in {"edge", "rc"}
                             /\ j.params.to \in {"rc", "stable"} /\ j.params.from # j.params.to
    /\ j.kind = "sync" => j.arch \in Arch /\ j.params.arch = j.arch /\ j.params.ring = None
    /\ j.kind \notin {"sync", "health"} => j.arch = "x86_64"
    /\ j.kind = "verify" => j.params.ring = None

LEMMA RulesList ==
  /\ DOMAIN RULES = 1 .. 8
  /\ \A k \in 1 .. 8 : k = 1 \/ k = 2 \/ k = 3 \/ k = 4 \/ k = 5 \/ k = 6 \/ k = 7 \/ k = 8
  /\ RULES[1].kind = "sync" /\ RULES[2].kind = "security" /\ RULES[3].kind = "enqueue" /\ RULES[4].kind = "promote"
  /\ RULES[5].kind = "promote" /\ RULES[6].kind = "health" /\ RULES[7].kind = "gc" /\ RULES[8].kind = "verify"
  /\ \A k \in 1 .. 8 : k \notin {4, 5} => RULES[k].params = Params
  /\ RULES[4].params.from = "edge" /\ RULES[4].params.to = "rc"
  /\ RULES[5].params.from = "rc" /\ RULES[5].params.to = "stable"
  <1>0. PICK P, Q : P = Daily("edge", "rc", "daily rc") /\ Q = Daily("rc", "stable", "daily stable")
    BY DEF Daily
  <1>1. /\ RULES[1] = Rule("sync", 180, None, None, Params) /\ RULES[2] = Rule("security", 180, None, None, Params)
        /\ RULES[3] = Rule("enqueue", 60, None, None, Params)
        /\ RULES[4] = Rule("promote", 0, 360, None, P) /\ RULES[5] = Rule("promote", 0, 540, None, Q)
        /\ RULES[6] = Rule("health", 0, 510, None, Params) /\ RULES[7] = Rule("gc", 0, 240, 0, Params)
        /\ RULES[8] = Rule("verify", 0, 180, 6, Params) /\ DOMAIN RULES = 1 .. 8
    BY <1>0 DEF RULES, Daily
  <1>2. \A k \in 1 .. 8 : k = 1 \/ k = 2 \/ k = 3 \/ k = 4 \/ k = 5 \/ k = 6 \/ k = 7 \/ k = 8
    OBVIOUS
  <1>3. /\ P.from = "edge" /\ P.to = "rc" /\ Q.from = "rc" /\ Q.to = "stable"
    BY <1>0 DEF Daily, Params
  <1>4. /\ RULES[1].slot = None /\ RULES[2].slot = None /\ RULES[3].slot = None /\ RULES[4].slot = 360
        /\ RULES[5].slot = 540 /\ RULES[6].slot = 510 /\ RULES[7].slot = 240 /\ RULES[8].slot = 180
    BY <1>1 DEF Rule
  <1>5. /\ RULES[1].params = Params /\ RULES[2].params = Params /\ RULES[3].params = Params /\ RULES[4].params = P
        /\ RULES[5].params = Q /\ RULES[6].params = Params /\ RULES[7].params = Params /\ RULES[8].params = Params
    BY <1>1 DEF Rule
  <1>6. /\ RULES[1].kind = "sync" /\ RULES[2].kind = "security" /\ RULES[3].kind = "enqueue" /\ RULES[4].kind = "promote"
        /\ RULES[5].kind = "promote" /\ RULES[6].kind = "health" /\ RULES[7].kind = "gc" /\ RULES[8].kind = "verify"
    BY <1>1 DEF Rule
  <1>8. \A k \in 1 .. 8 : k \notin {4, 5} => RULES[k].params = Params
    BY <1>2, <1>5
  <1>9. /\ RULES[4].params.from = "edge" /\ RULES[4].params.to = "rc"
        /\ RULES[5].params.from = "rc" /\ RULES[5].params.to = "stable"
    BY <1>3, <1>5
  <1>10. DOMAIN RULES = 1 .. 8
    BY <1>1
  <1> QED
    BY <1>2, <1>6, <1>8, <1>9, <1>10

\* The slot of a rule is none or a minute of the day.
OfTheDay(v) == v = None \/ v \in 0 .. 1400

LEMMA RuleSlots ==
  ASSUME NEW k \in DOMAIN RULES
  PROVE  OfTheDay(RULES[k].slot)
  <1>1. PICK P, Q : P = Daily("edge", "rc", "daily rc") /\ Q = Daily("rc", "stable", "daily stable")
    BY DEF Daily
  <1>2. /\ RULES[1] = Rule("sync", 180, None, None, Params) /\ RULES[2] = Rule("security", 180, None, None, Params)
        /\ RULES[3] = Rule("enqueue", 60, None, None, Params)
        /\ RULES[4] = Rule("promote", 0, 360, None, P) /\ RULES[5] = Rule("promote", 0, 540, None, Q)
        /\ RULES[6] = Rule("health", 0, 510, None, Params) /\ RULES[7] = Rule("gc", 0, 240, 0, Params)
        /\ RULES[8] = Rule("verify", 0, 180, 6, Params)
    BY <1>1 DEF RULES, Daily
  <1>3. /\ RULES[1].slot = None /\ RULES[2].slot = None /\ RULES[3].slot = None /\ RULES[4].slot = 360
        /\ RULES[5].slot = 540 /\ RULES[6].slot = 510 /\ RULES[7].slot = 240 /\ RULES[8].slot = 180
    BY <1>2 DEF Rule
  <1>4. /\ OfTheDay(None) /\ OfTheDay(360) /\ OfTheDay(540) /\ OfTheDay(510) /\ OfTheDay(240) /\ OfTheDay(180)
    BY DEF OfTheDay
  <1>5. k = 1 \/ k = 2 \/ k = 3 \/ k = 4 \/ k = 5 \/ k = 6 \/ k = 7 \/ k = 8
    BY RulesList
  <1> QED
    BY <1>3, <1>4, <1>5

LEMMA SlotJob ==
  ASSUME NEW s \in JobSlots
  PROVE  /\ s[1] \in DOMAIN RULES
         /\ s[2] \in DOMAIN jobsOf(RULES[s[1]])
         /\ FromRules(JobAt(s))
  <1>1. PICK k \in DOMAIN RULES : s \in {k} \X DOMAIN jobsOf(RULES[k])
    BY DEF JobSlots
  <1>2. s[1] = k /\ s[2] \in DOMAIN jobsOf(RULES[k])
    BY <1>1
  <1>3. JobAt(s) = jobsOf(RULES[k])[s[2]]
    BY <1>2 DEF JobAt
  <1>4. k \in 1 .. 8
    BY <1>1, RulesList, SMTT(30)
  <1>5. CASE k = 1
    <2>1. RULES[k].kind = "sync"
      BY <1>4, <1>5, RulesList, SMTT(30)
    <2>2. jobsOf(RULES[k]) = <<syncJobFor("x86_64"), syncJobFor("aarch64")>>
      BY <2>1 DEF jobsOf
    <2>3. s[2] \in 1 .. 2
      BY <1>2, <2>2
    <2>4. JobAt(s) \in {syncJobFor("x86_64"), syncJobFor("aarch64")}
      BY <1>3, <2>2, <2>3
    <2> QED
      BY <1>1, <1>2, <2>4 DEF FromRules, syncJobFor, Job, Params, Arch
  <1>6. CASE k = 6
    <2>1. RULES[k].kind = "health"
      BY <1>4, <1>6, RulesList, SMTT(30)
    <2>2. s[2] \in 1 .. 6
      BY <1>2, <2>1 DEF jobsOf
    <2>3. JobAt(s).kind = "health" /\ JobAt(s).params.force = FALSE
      BY <1>3, <2>1, <2>2 DEF jobsOf, Job, Params
    <2> QED
      BY <1>1, <1>2, <2>3 DEF FromRules
  <1>7. CASE k \notin {1, 6}
    <2>1. RULES[k].kind \in {"security", "enqueue", "promote", "gc", "verify"}
      BY <1>4, <1>7, RulesList, SMTT(30)
    <2>2. jobsOf(RULES[k]) = <<Job(RULES[k].kind, RULES[k].params, "x86_64")>>
      BY <2>1 DEF jobsOf
    <2>3. JobAt(s) = Job(RULES[k].kind, RULES[k].params, "x86_64")
      BY <1>2, <1>3, <2>2
    <2>4. CASE k \in {4, 5}
      <3>1. JobAt(s).kind = "promote" /\ JobAt(s).arch = "x86_64"
        BY <1>4, <2>3, <2>4, RulesList, SMTT(30) DEF Job
      <3>2. JobAt(s).params = RULES[k].params
        BY <2>3 DEF Job
      <3>3. \/ RULES[k].params.from = "edge" /\ RULES[k].params.to = "rc"
            \/ RULES[k].params.from = "rc" /\ RULES[k].params.to = "stable"
        <4>1. CASE k = 4
          BY <4>1, RulesList, Zenon
        <4>2. CASE k = 5
          BY <4>2, RulesList, Zenon
        <4> QED
          BY <2>4, <4>1, <4>2
      <3> QED
        BY <1>1, <1>2, <3>1, <3>2, <3>3 DEF FromRules
    <2>5. CASE k \in {2, 3, 7, 8}
      <3>1. JobAt(s).kind \in {"security", "enqueue", "gc", "verify"} /\ JobAt(s).arch = "x86_64"
        BY <1>4, <2>3, <2>5, RulesList, SMTT(30) DEF Job
      <3>2. JobAt(s).params = Params
        BY <1>4, <2>3, <2>5, RulesList, SMTT(30) DEF Job
      <3> QED
        BY <1>1, <1>2, <3>1, <3>2 DEF FromRules, Params
    <2> QED
      BY <1>4, <1>7, <2>4, <2>5
  <1> QED
    BY <1>5, <1>6, <1>7

\* The rule of a job of the rules is one of theirs, and the workflow is no job of theirs.
LEMMA RuleOfJob ==
  /\ RuleOf(Workflow).slot = 345
  /\ \A s \in JobSlots : /\ RuleOf(JobAt(s)) \in ToSet(RULES)
                         /\ RuleOf(JobAt(s)).slot = None \/ RuleOf(JobAt(s)).slot \in 0 .. 1400
                         /\ JobAt(s) # Workflow
  <1>1. RuleOf(Workflow).slot = 345
    BY DEF RuleOf, WorkflowRule, Rule
  <1> SUFFICES ASSUME NEW s \in JobSlots
               PROVE  /\ RuleOf(JobAt(s)) \in ToSet(RULES)
                      /\ RuleOf(JobAt(s)).slot = None \/ RuleOf(JobAt(s)).slot \in 0 .. 1400
                      /\ JobAt(s) # Workflow
    BY <1>1
  <1>2. JobAt(s) # Workflow
    <2>1. JobAt(s).kind # "factory-update.yml"
      BY SlotJob DEF FromRules
    <2> QED
      BY <2>1 DEF Workflow, Job, WorkflowRule, Rule
  <1>3. RULES[s[1]] \in ToSet(RULES) /\ JobAt(s) \in ToSet(jobsOf(RULES[s[1]]))
    BY SlotJob DEF ToSet, JobAt
  <1>4. RuleOf(JobAt(s)) \in ToSet(RULES)
    BY <1>2, <1>3 DEF RuleOf
  <1>5. PICK k \in DOMAIN RULES : RuleOf(JobAt(s)) = RULES[k]
    BY <1>4 DEF ToSet
  <1>6. RULES[k].slot = None \/ RULES[k].slot \in 0 .. 1400
    BY RuleSlots DEF OfTheDay
  <1> QED
    BY <1>2, <1>4, <1>5, <1>6

\* What a job that a maintainer queues looks like.
LEMMA AskedJob ==
  ASSUME NEW d, NEW b \in d.requests, Accepted(b)
  PROVE  LET j == Asked(b) IN
         /\ j.kind = b.kind
         /\ j.kind \in {"sync", "promote", "render", "health", "rollback", "verify", "gc", "relayout", "security", "enqueue"}
         /\ j.arch \in Arch
         /\ j.kind = "promote" => /\ j.arch = "x86_64" /\ j.params = b.params
                                  /\ j.params.from \in Ring /\ j.params.to \in Ring /\ j.params.from # j.params.to
         /\ j.kind = "sync" => j.params.arch = j.arch /\ j.params.ring \in {None} \cup SYNC_SOURCES[j.arch]
         /\ j.kind \in {"render", "rollback"} => j.params.ring \in Ring
         /\ j.kind = "verify" => j.params.ring \in {None} \cup Ring
         /\ j.kind = "security" => j.arch = "x86_64" \/ b.arch = "aarch64"
  <1>1. CASE b.kind = "sync"
    BY <1>1 DEF Accepted, Asked, Job, Params, Arch
  <1>2. CASE b.kind \in {"render", "health"}
    BY <1>2 DEF Accepted, Asked, Job, Params
  <1>3. CASE b.kind \in {"security", "enqueue"}
    BY <1>3 DEF Accepted, Asked, Job, Params, Arch
  <1>4. CASE b.kind \in {"gc", "relayout"}
    BY <1>4 DEF Accepted, Asked, Job, Params, Arch
  <1>5. CASE b.kind \in {"promote", "rollback", "verify"}
    BY <1>5 DEF Accepted, Asked, Job, Arch
  <1> QED
    BY <1>1, <1>2, <1>3, <1>4, <1>5 DEF Accepted

-----------------------------------------------------------------------------
(* Every job can be finished with the token its claim issues.              *)

\* What the routes ask for, call by call.
LEMMA NeedsOfCalls ==
  /\ \A call \in OfTask(This) : Needs(call) = TaskScope(This) /\ call.route # "tasks/artifacts/package"
  /\ \A call \in Event : Needs(call) = EventScope /\ call.route # "tasks/artifacts/package"
  /\ \A call \in Upload : Needs(call) = PoolScope /\ call.route # "tasks/artifacts/package"
  /\ \A r : Needs(Call("releases", r)) = Scope("release", r) /\ Call("releases", r).route # "tasks/artifacts/package"
  /\ \A r : Needs(Call("releases/artifacts", r)) = Scope("artifacts", r)
            /\ Call("releases/artifacts", r).route # "tasks/artifacts/package"
  <1>1. \A call \in OfTask(This) : Needs(call) = TaskScope(This) /\ call.route # "tasks/artifacts/package"
    <2> SUFFICES ASSUME NEW call \in OfTask(This)
                 PROVE  Needs(call) = TaskScope(This) /\ call.route # "tasks/artifacts/package"
      OBVIOUS
    <2>1. call.of = This /\ call.route \in {"tasks/heartbeat", "tasks/complete", "tasks/fail"}
      BY DEF OfTask, Call
    <2>2. call \in OfTask(call.of)
      BY <2>1
    <2>3. Needs(call) = TaskScope(call.of)
      BY <2>1, <2>2 DEF Needs, OfTask, Stage, Fetch, Call
    <2> QED
      BY <2>1, <2>3
  <1>2. \A call \in Event : Needs(call) = EventScope /\ call.route # "tasks/artifacts/package"
    BY DEF Event, Call, Needs, OfTask, Stage, Fetch
  <1>3. \A call \in Upload : Needs(call) = PoolScope /\ call.route # "tasks/artifacts/package"
    BY DEF Upload, Call, Needs, OfTask, Stage, Fetch
  <1>4. \A r : Needs(Call("releases", r)) = Scope("release", r) /\ Call("releases", r).route # "tasks/artifacts/package"
    BY DEF Call, Needs, OfTask, Stage, Fetch
  <1>5. \A r : Needs(Call("releases/artifacts", r)) = Scope("artifacts", r)
               /\ Call("releases/artifacts", r).route # "tasks/artifacts/package"
    BY DEF Call, Needs, OfTask, Stage, Fetch
  <1> QED
    BY <1>1, <1>2, <1>3, <1>4, <1>5

LEMMA ReadyBasic ==
  ASSUME NEW j
  PROVE  /\ MayFinish(j, OfTask(This) \cup Event)
         /\ PoolScope \in scopesFor(j) => MayFinish(j, Upload)
         /\ \A call : call.route # "tasks/artifacts/package" => MayFetch(j, call)
  <1>1. TaskScope(This) \in scopesFor(j) /\ EventScope \in scopesFor(j)
    BY DEF scopesFor
  <1>2. \A call : call.route # "tasks/artifacts/package" => MayFetch(j, call)
    BY DEF MayFetch, Fetch, Call
  <1> QED
    BY <1>1, <1>2, NeedsOfCalls DEF authorize, MayFinish

LEMMA ReadyPin ==
  ASSUME NEW j, NEW rings, \A r \in rings : Scope("release", r) \in scopesFor(j)
  PROVE  MayFinish(j, Pin(rings))
  BY NeedsOfCalls, ReadyBasic DEF authorize, Pin, MayFinish

LEMMA ReadyRender ==
  ASSUME NEW j, NEW rings, \A r \in rings : Scope("artifacts", r) \in scopesFor(j)
  PROVE  MayFinish(j, Render(rings))
  BY NeedsOfCalls, ReadyBasic DEF authorize, Render, MayFinish

\* Kind by kind.
LEMMA ReadyRings ==
  ASSUME NEW j, j.kind \in {"sync", "promote", "rollback", "render", "verify"},
         j.kind \in {"rollback", "render"} => j.params.ring \in Ring,
         j.kind = "verify" => j.params.ring \in {None} \cup Ring
  PROVE  MayFinish(j, Calls(j))
  <1>1. CASE j.kind = "sync"
    <2>1. PoolScope \in scopesFor(j)
      BY <1>1 DEF scopesFor
    <2>2. \A r \in SourceRings(j) : Scope("release", r) \in scopesFor(j) /\ Scope("artifacts", r) \in scopesFor(j)
      BY <1>1 DEF scopesFor, Writes, RingsNamed
    <2>3. MayFinish(j, Pin(SourceRings(j))) /\ MayFinish(j, Render(SourceRings(j)))
      BY <2>2, ReadyPin, ReadyRender
    <2>4. Calls(j) = (OfTask(This) \cup Event) \cup Upload \cup Pin(SourceRings(j)) \cup Render(SourceRings(j))
      BY <1>1 DEF Calls
    <2> QED
      BY <2>1, <2>3, <2>4, ReadyBasic DEF MayFinish
  <1>2. CASE j.kind = "promote"
    <2>1. \A r \in {j.params.to} : Scope("release", r) \in scopesFor(j) /\ Scope("artifacts", r) \in scopesFor(j)
      BY <1>2 DEF scopesFor, Writes
    <2>2. MayFinish(j, Pin({j.params.to})) /\ MayFinish(j, Render({j.params.to}))
      BY <2>1, ReadyPin, ReadyRender
    <2>3. Calls(j) = (OfTask(This) \cup Event) \cup Pin({j.params.to}) \cup Render({j.params.to})
      BY <1>2 DEF Calls
    <2> QED
      BY <2>2, <2>3, ReadyBasic DEF MayFinish
  <1>3. CASE j.kind = "rollback"
    <2>1. RingOf(j) = j.params.ring
      BY <1>3, SchedulerAssumption DEF RingOf, Ring
    <2>2. \A r \in {j.params.ring} : Scope("release", r) \in scopesFor(j) /\ Scope("artifacts", r) \in scopesFor(j)
      BY <1>3, <2>1 DEF scopesFor, Writes
    <2>3. MayFinish(j, Pin({j.params.ring})) /\ MayFinish(j, Render({j.params.ring}))
      BY <2>2, ReadyPin, ReadyRender
    <2>4. Calls(j) = (OfTask(This) \cup Event) \cup Pin({j.params.ring}) \cup Render({j.params.ring})
      BY <1>3 DEF Calls
    <2> QED
      BY <2>3, <2>4, ReadyBasic DEF MayFinish
  <1>4. CASE j.kind = "render"
    <2>1. RingOf(j) = j.params.ring
      BY <1>4, SchedulerAssumption DEF RingOf, Ring
    <2>2. \A r \in {j.params.ring} : Scope("artifacts", r) \in scopesFor(j)
      BY <1>4, <2>1 DEF scopesFor, Renders
    <2>3. MayFinish(j, Render({j.params.ring}))
      BY <2>2, ReadyRender
    <2>4. Calls(j) = (OfTask(This) \cup Event) \cup Render({j.params.ring})
      BY <1>4 DEF Calls
    <2> QED
      BY <2>3, <2>4, ReadyBasic DEF MayFinish
  <1>5. CASE j.kind = "verify"
    <2> DEFINE rings == IF j.params.ring = None THEN Ring ELSE {j.params.ring}
    <2>1. PoolScope \in scopesFor(j)
      BY <1>5 DEF scopesFor
    <2>2. \A r \in rings : Scope("release", r) \in scopesFor(j) /\ Scope("artifacts", r) \in scopesFor(j)
      BY <1>5 DEF scopesFor, Writes
    <2>3. Calls(j) = (OfTask(This) \cup Event) \cup Upload \cup Pin(rings) \cup Render(rings)
      BY <1>5 DEF Calls
    <2> HIDE DEF rings
    <2>4. MayFinish(j, Pin(rings)) /\ MayFinish(j, Render(rings))
      BY <2>2, ReadyPin, ReadyRender
    <2> QED
      BY <2>1, <2>3, <2>4, ReadyBasic DEF MayFinish
  <1> QED
    BY <1>1, <1>2, <1>3, <1>4, <1>5

LEMMA ReadyOthers ==
  ASSUME NEW j, j.kind \in {"security", "gc", "relayout", "enqueue", "health"}
  PROVE  MayFinish(j, Calls(j))
  <1>1. MayFinish(j, OfTask(This) \cup Event)
    BY ReadyBasic
  <1>2. \A call : call.route # "tasks/artifacts/package" => MayFetch(j, call)
    BY ReadyBasic
  <1>3. CASE j.kind = "security"
    <2>1. \A r \in {"rc", "stable"} : Scope("release", r) \in scopesFor(j) /\ Scope("artifacts", r) \in scopesFor(j)
      BY <1>3 DEF scopesFor, Writes
    <2>2. MayFinish(j, Pin({"rc", "stable"})) /\ MayFinish(j, Render({"rc", "stable"}))
      BY <2>1, ReadyPin, ReadyRender
    <2>3. ASSUME NEW r \in {"security/advisories", "security/matches", "security/prune"}
          PROVE  authorize(j, Call(r, None)) /\ MayFetch(j, Call(r, None))
      <3>1. Needs(Call(r, None)) = Scope("security:write", None)
        BY <2>3 DEF Needs, Call, OfTask, Stage, Fetch
      <3>2. Scope("security:write", None) \in scopesFor(j)
        BY <1>3 DEF scopesFor
      <3>3. Call(r, None).route # "tasks/artifacts/package"
        BY <2>3 DEF Call
      <3> QED
        BY <1>2, <3>1, <3>2, <3>3 DEF authorize
    <2>4. Calls(j) = OfTask(This) \cup Event \cup ({Call(r, None) : r \in {"security/advisories", "security/matches", "security/prune"}}
                                                   \cup Pin({"rc", "stable"}) \cup Render({"rc", "stable"}))
      BY <1>3 DEF Calls
    <2> QED
      BY <1>1, <2>2, <2>3, <2>4 DEF MayFinish
  <1>4. CASE j.kind = "gc"
    <2>1. authorize(j, Call("pool/gc", None)) /\ MayFetch(j, Call("pool/gc", None))
      <3>1. Needs(Call("pool/gc", None)) = Scope("gc", None)
        BY DEF Needs, Call, OfTask, Stage, Fetch
      <3>2. Scope("gc", None) \in scopesFor(j)
        BY <1>4 DEF scopesFor
      <3>3. Call("pool/gc", None).route # "tasks/artifacts/package"
        BY DEF Call
      <3> QED
        BY <1>2, <3>1, <3>2, <3>3 DEF authorize
    <2>2. Calls(j) = OfTask(This) \cup Event \cup {Call("pool/gc", None)}
      BY <1>4 DEF Calls
    <2> QED
      BY <1>1, <2>1, <2>2 DEF MayFinish
  <1>5. CASE j.kind = "relayout"
    <2>1. authorize(j, Call("pool/relayout", None)) /\ MayFetch(j, Call("pool/relayout", None))
      <3>1. Needs(Call("pool/relayout", None)) = Scope("relayout", None)
        BY DEF Needs, Call, OfTask, Stage, Fetch
      <3>2. Scope("relayout", None) \in scopesFor(j)
        BY <1>5 DEF scopesFor
      <3>3. Call("pool/relayout", None).route # "tasks/artifacts/package"
        BY DEF Call
      <3> QED
        BY <1>2, <3>1, <3>2, <3>3 DEF authorize
    <2>2. \A r \in Ring : Scope("artifacts", r) \in scopesFor(j)
      BY <1>5 DEF scopesFor, Renders
    <2>3. MayFinish(j, Render(Ring))
      BY <2>2, ReadyRender
    <2>4. Calls(j) = OfTask(This) \cup Event \cup ({Call("pool/relayout", None)} \cup Render(Ring))
      BY <1>5 DEF Calls
    <2> QED
      BY <1>1, <2>1, <2>3, <2>4 DEF MayFinish
  <1>6. CASE j.kind = "enqueue"
    <2>1. authorize(j, Call("factory/enqueue", None)) /\ MayFetch(j, Call("factory/enqueue", None))
      <3>1. Needs(Call("factory/enqueue", None)) = Scope("factory:write", None)
        BY DEF Needs, Call, OfTask, Stage, Fetch
      <3>2. Scope("factory:write", None) \in scopesFor(j)
        BY <1>6 DEF scopesFor
      <3>3. Call("factory/enqueue", None).route # "tasks/artifacts/package"
        BY DEF Call
      <3> QED
        BY <1>2, <3>1, <3>2, <3>3 DEF authorize
    <2>2. Calls(j) = OfTask(This) \cup Event \cup {Call("factory/enqueue", None)}
      BY <1>6 DEF Calls
    <2> QED
      BY <1>1, <2>1, <2>2 DEF MayFinish
  <1>7. CASE j.kind = "health"
    <2>1. Calls(j) = OfTask(This) \cup Event \cup {}
      BY <1>7 DEF Calls
    <2> QED
      BY <1>1, <2>1 DEF MayFinish
  <1> QED
    BY <1>3, <1>4, <1>5, <1>6, <1>7

\* The tasks of a package on its way into edge.
LEMMA ReadyPackages ==
  /\ \A t \in PackageTasks : MayFinish(t, Calls(t))
  /\ \A call \in Calls(PackageTask("build", "community", FALSE)) \ Event : workerMay(call)
  <1>0. ASSUME NEW t PROVE Needs(Stage(t)) = StagingScope(t) /\ Needs(Fetch(t)) = StagingScope(t)
    BY DEF Needs, OfTask, Stage, Fetch, Call
  <1>1. ASSUME NEW t \in PackageTasks
        PROVE  MayFinish(t, Calls(t))
    <2>1. /\ t.kind \in {"build", "publish", "audit"} /\ RingOf(t) = "edge"
          /\ t.kind = "build" => Stages(t) \/ ~Stages(t)
      BY <1>1 DEF PackageTasks, PackageTask, RingOf, Params
    <2>2. \A r \in {"edge"} : r = "edge"
      OBVIOUS
    <2>3. CASE t.kind = "build" /\ Stages(t)
      <3>1. StagingScope(This) \in scopesFor(t)
        BY <2>3 DEF scopesFor
      <3>2. authorize(t, Stage(This))
        BY <1>0, <3>1 DEF authorize
      <3>3. MayFetch(t, Stage(This))
        BY DEF MayFetch, Stage, Fetch, Call
      <3>4. Calls(t) = (OfTask(This) \cup Event) \cup {Stage(This)}
        BY <2>3 DEF Calls
      <3> QED
        BY <3>2, <3>3, <3>4, ReadyBasic DEF MayFinish
    <2>4. CASE t.kind = "build" /\ ~Stages(t)
      <3>1. PoolScope \in scopesFor(t)
        BY <2>4 DEF scopesFor
      <3>2. \A r \in {"edge"} : Scope("release", r) \in scopesFor(t) /\ Scope("artifacts", r) \in scopesFor(t)
        BY <2>1, <2>4 DEF scopesFor, Writes
      <3>3. MayFinish(t, Pin({"edge"})) /\ MayFinish(t, Render({"edge"}))
        BY <3>2, ReadyPin, ReadyRender
      <3>4. Calls(t) = (OfTask(This) \cup Event) \cup Upload \cup Pin({"edge"}) \cup Render({"edge"})
        BY <2>4 DEF Calls
      <3> QED
        BY <3>1, <3>3, <3>4, ReadyBasic DEF MayFinish
    <2>5. CASE t.kind = "publish"
      <3>1. PoolScope \in scopesFor(t) /\ StagingScope(Built) \in scopesFor(t)
        BY <2>5 DEF scopesFor
      <3>2. \A r \in {"edge"} : Scope("release", r) \in scopesFor(t) /\ Scope("artifacts", r) \in scopesFor(t)
        BY <2>5 DEF scopesFor, Writes
      <3>3. MayFinish(t, Pin({"edge"})) /\ MayFinish(t, Render({"edge"}))
        BY <3>2, ReadyPin, ReadyRender
      <3>4. authorize(t, Fetch(Built)) /\ MayFetch(t, Fetch(Built))
        BY <1>0, <2>5, <3>1 DEF authorize, MayFetch
      <3>5. Calls(t) = (OfTask(This) \cup Event) \cup {Fetch(Built)} \cup Upload \cup Pin({"edge"}) \cup Render({"edge"})
        BY <2>5 DEF Calls
      <3> QED
        BY <3>1, <3>3, <3>4, <3>5, ReadyBasic DEF MayFinish
    <2>6. CASE t.kind = "audit"
      <3>1. StagingScope(Built) \in scopesFor(t)
        BY <2>6 DEF scopesFor
      <3>2. authorize(t, Stage(Built))
        BY <1>0, <3>1 DEF authorize
      <3>3. MayFetch(t, Stage(Built))
        BY DEF MayFetch, Stage, Fetch, Call
      <3>4. Calls(t) = (OfTask(This) \cup Event) \cup {Stage(Built)}
        BY <2>6 DEF Calls
      <3> QED
        BY <3>2, <3>3, <3>4, ReadyBasic DEF MayFinish
    <2> QED
      BY <2>1, <2>3, <2>4, <2>5, <2>6
  <1>2. \A call \in Calls(PackageTask("build", "community", FALSE)) \ Event : workerMay(call)
    <2>1. Calls(PackageTask("build", "community", FALSE)) = OfTask(This) \cup Event \cup {Stage(This)}
      BY DEF Calls, PackageTask, Stages
    <2> QED
      BY <2>1 DEF workerMay
  <1> QED
    BY <1>1, <1>2

\* So of every deployment, whatever its maintainers ask for.
LEMMA ReadyJobs ==
  ASSUME NEW d, NEW j \in JobsOf(d)
  PROVE  MayFinish(j, Calls(j))
  <1>1. CASE j \in Scheduled(d)
    <2>1. PICK s \in JobSlots : j = JobAt(s)
      BY <1>1 DEF Scheduled
    <2>2. FromRules(j)
      BY <2>1, SlotJob
    <2> QED
      BY <2>2, ReadyRings, ReadyOthers DEF FromRules
  <1>2. CASE j \notin Scheduled(d)
    <2>1. PICK b \in d.requests : Accepted(b) /\ j = Asked(b)
      BY <1>2 DEF JobsOf
    <2>2. /\ j.kind \in {"sync", "promote", "render", "health", "rollback", "verify", "gc", "relayout", "security", "enqueue"}
          /\ j.kind \in {"render", "rollback"} => j.params.ring \in Ring
          /\ j.kind = "verify" => j.params.ring \in {None} \cup Ring
      BY <2>1, AskedJob
    <2> QED
      BY <2>2, ReadyRings, ReadyOthers
  <1> QED
    BY <1>1, <1>2

-----------------------------------------------------------------------------
(* The tick: what is left of it, and the guard.                            *)

\* All that moves what the scheduler keeps.
SchedNext ==
    \/ TickStep \/ World \/ Hands \/ Clock
    \/ \E w \in Arch : Claim(w) \/ CompleteJob(w) \/ FailJob(w) \/ Die(w)

LEMMA NextIsSched ==
  ASSUME Next
  PROVE  SchedNext \/ UNCHANGED schedVars
  <1>1. CASE (TickStep \/ World \/ Hands) /\ UNCHANGED ringVars
    BY <1>1 DEF SchedNext
  <1>2. CASE TimePasses
    BY <1>2 DEF SchedNext, TimePasses
  <1>3. CASE \E w \in Arch : JobStep(w) \/ Trouble(w)
    <2>1. PICK w \in Arch : JobStep(w) \/ Trouble(w)
      BY <1>3
    <2>2. CASE Begin(w) \/ Finish(w) \/ Fail(w) \/ Stop(w)
      BY <2>2 DEF SchedNext, Begin, Finish, Fail, Stop
    <2>3. CASE ~(Begin(w) \/ Finish(w) \/ Fail(w) \/ Stop(w))
      <3>1. UNCHANGED schedVars
        BY <2>1, <2>3 DEF JobStep, Trouble, Gate, Previous, Promote, Align, FastTrack, PinRing, RenderRing, Healthy, Rollback,
                          RenderAgain, EvidenceBlocks, Unhealthy
      <3> QED
        BY <3>1
    <2> QED
      BY <2>2, <2>3
  <1> QED
    BY <1>1, <1>2, <1>3 DEF Next

AllSteps == {"requeue", "provenance", "mark", "metrics", "cost", "audience", "guard", "jobs", "dispatch"}
SlotJobs == {JobAt(s) : s \in JobSlots}

TickOK ==
    /\ tick \in [on : BOOLEAN, steps : SUBSET AllSteps, jobs : SUBSET JobSlots, due : {None} \cup SlotJobs, done : BOOLEAN]
    /\ ~tick.on => tick.steps = {} /\ tick.jobs = {} /\ tick.due = None
    /\ tick.due # None => tick.due.kind \in env.kinds
    /\ \A s \in tick.jobs : JobAt(s).kind \in env.kinds

AnySettings == [done : SUBSET {"provenance", "cost", "audience"}, guard : BOOLEAN]

\* What the guard pauses is not gone through while it is up: the estimate that
\* raises it comes before the rules are read.
GuardOK ==
    /\ settings \in AnySettings /\ over \in BOOLEAN
    /\ "cost" \in tick.steps => "guard" \in tick.steps
    /\ "guard" \in tick.steps => tick.jobs = {} /\ tick.due = None
    /\ settings.guard => /\ \A s \in tick.jobs : JobAt(s).kind \notin Writers
                         /\ tick.due # None => tick.due.kind \notin Writers

TickInv == TickOK /\ GuardOK

\* The order of the steps, where something rests on it.
LEMMA AtFirst ==
  /\ At("guard") => "cost" \notin tick.steps
  /\ At("mark") => "provenance" \notin tick.steps
  <1>1. At("guard") => "cost" \notin tick.steps
    <2> SUFFICES ASSUME At("guard"), "cost" \in tick.steps PROVE FALSE
      OBVIOUS
    <2>1. Order[5] = "cost" /\ 5 \in DOMAIN Order
      BY DEF Order
    <2>2. \A i \in 1 .. 5 : Order[i] # "guard"
      BY DEF Order
    <2> QED
      BY <2>1, <2>2 DEF At
  <1>2. At("mark") => "provenance" \notin tick.steps
    <2> SUFFICES ASSUME At("mark"), "provenance" \in tick.steps PROVE FALSE
      OBVIOUS
    <2>1. Order[2] = "provenance" /\ 2 \in DOMAIN Order
      BY DEF Order
    <2>2. \A i \in 1 .. 2 : Order[i] # "mark"
      BY DEF Order
    <2> QED
      BY <2>1, <2>2 DEF At
  <1> QED
    BY <1>1, <1>2

LEMMA StepsOfTick ==
  /\ Steps \subseteq AllSteps /\ "guard" \in Steps
  /\ "provenance" \in Steps => "mark" \in Steps
  <1>1. ToSet(Order) = AllSteps
    <2>1. DOMAIN Order = 1 .. 9
      BY DEF Order
    <2>2. /\ Order[1] = "requeue" /\ Order[2] = "provenance" /\ Order[3] = "mark" /\ Order[4] = "metrics" /\ Order[5] = "cost"
          /\ Order[6] = "audience" /\ Order[7] = "guard" /\ Order[8] = "jobs" /\ Order[9] = "dispatch"
      BY DEF Order
    <2>3. \A i \in 1 .. 9 : Order[i] \in AllSteps
      <3>1. \A i \in 1 .. 9 : i = 1 \/ i = 2 \/ i = 3 \/ i = 4 \/ i = 5 \/ i = 6 \/ i = 7 \/ i = 8 \/ i = 9
        OBVIOUS
      <3> QED
        BY <2>2, <3>1 DEF AllSteps
    <2>4. \A s \in AllSteps : \E i \in 1 .. 9 : Order[i] = s
      BY <2>2 DEF AllSteps
    <2> QED
      BY <2>1, <2>3, <2>4 DEF ToSet
  <1> QED
    BY <1>1 DEF Steps, Due, AllSteps

\* A tick that drops steps, stays, or ends.
LEMMA TickDrops ==
  ASSUME TickInv, NEW s, Go(s), s # "guard", UNCHANGED env,
         settings' \in AnySettings, over' \in BOOLEAN,
         settings'.guard => settings.guard
  PROVE  TickInv'
  <1>1. /\ tick'.on = tick.on /\ tick'.jobs = tick.jobs /\ tick'.due = tick.due /\ tick'.done = tick.done
        /\ tick'.steps = tick.steps \ {s} /\ TickOK'
    BY DEF TickInv, TickOK, Go
  <1>2. GuardOK'
    BY <1>1 DEF TickInv, GuardOK
  <1> QED
    BY <1>1, <1>2 DEF TickInv

LEMMA TickStays ==
  ASSUME TickInv, UNCHANGED <<tick, env>>, settings' \in AnySettings, over' \in BOOLEAN,
         settings'.guard => settings.guard
  PROVE  TickInv'
  BY DEF TickInv, TickOK, GuardOK

LEMMA TickOver ==
  ASSUME TickInv, tick' \in {Idle, Ended}, UNCHANGED env,
         settings' \in AnySettings, over' \in BOOLEAN
  PROVE  TickInv'
  <1>1. /\ tick'.on = FALSE /\ tick'.steps = {} /\ tick'.jobs = {} /\ tick'.due = None
        /\ tick' \in [on : BOOLEAN, steps : SUBSET AllSteps, jobs : SUBSET JobSlots, due : {None} \cup SlotJobs, done : BOOLEAN]
    <2>1. Idle \in [on : BOOLEAN, steps : SUBSET AllSteps, jobs : SUBSET JobSlots, due : {None} \cup SlotJobs, done : BOOLEAN]
      BY DEF Idle
    <2>2. Ended \in [on : BOOLEAN, steps : SUBSET AllSteps, jobs : SUBSET JobSlots, due : {None} \cup SlotJobs, done : BOOLEAN]
      BY DEF Idle, Ended
    <2>3. Idle.on = FALSE /\ Idle.steps = {} /\ Idle.jobs = {} /\ Idle.due = None
      BY DEF Idle
    <2>4. Ended.on = FALSE /\ Ended.steps = {} /\ Ended.jobs = {} /\ Ended.due = None
      BY DEF Idle, Ended
    <2>5. CASE tick' = Idle
      BY <2>1, <2>3, <2>5
    <2>6. CASE tick' = Ended
      BY <2>2, <2>4, <2>6
    <2> QED
      BY <2>5, <2>6
  <1> QED
    BY <1>1 DEF TickInv, TickOK, GuardOK

LEMMA OverNext ==
  ASSUME TickInv, SchedNext
  PROVE  over' \in BOOLEAN
  <1> USE DEF bookVars, worldVars, jobVars
  <1>1. CASE TickStep
    BY <1>1 DEF TickInv, GuardOK, TickStep, Tick, TickEnds, Requeue, Provenance, ProvenanceMark, snapshotMetrics, dailyCost,
                dailyAudience, costGuard, Consider, Create, DispatchWorkflow
  <1>2. CASE Spend
    BY <1>2 DEF Spend
  <1>3. CASE TickCut \/ LiftGuard \/ Push \/ WorkflowRuns \/ Hands \/ Clock
    BY <1>3 DEF TickInv, GuardOK, TickCut, LiftGuard, Push, WorkflowRuns, Hands, handleQueueJob, Clock
  <1>4. CASE \E w \in Arch : Claim(w) \/ CompleteJob(w) \/ FailJob(w) \/ Die(w)
    BY <1>4 DEF TickInv, GuardOK, Claim, CompleteJob, FailJob, Die, Report
  <1> QED
    BY <1>1, <1>2, <1>3, <1>4 DEF SchedNext, World

LEMMA TickInvInit ==
  ASSUME Init
  PROVE  TickInv
  BY DEF Init, TickInv, TickOK, GuardOK, Idle, AnySettings

LEMMA TickInvNext ==
  ASSUME TickInv, SchedNext
  PROVE  TickInv'
  <1> USE DEF bookVars, worldVars, jobVars
  <1>0. settings \in AnySettings /\ over' \in BOOLEAN
    BY OverNext DEF TickInv, GuardOK
  <1>1. CASE Tick
    <2>1. tick' = [Idle EXCEPT !.on = TRUE, !.steps = Steps] /\ UNCHANGED <<env, settings>>
      BY <1>1 DEF Tick
    <2>2. /\ tick'.on = TRUE /\ tick'.steps = Steps /\ tick'.jobs = {} /\ tick'.due = None
          /\ tick' \in [on : BOOLEAN, steps : SUBSET AllSteps, jobs : SUBSET JobSlots, due : {None} \cup SlotJobs, done : BOOLEAN]
      BY <2>1, StepsOfTick DEF Idle
    <2> QED
      BY <1>0, <2>1, <2>2, StepsOfTick DEF TickInv, TickOK, GuardOK
  <1>2. CASE TickEnds
    BY <1>0, <1>2, TickOver DEF TickEnds
  <1>3. CASE Requeue
    <2>1. UNCHANGED <<env, settings>> /\ (tick' = tick \/ Go("requeue"))
      BY <1>3 DEF Requeue
    <2> QED
      BY <1>0, <2>1, TickDrops, TickStays
  <1>4. CASE Provenance
    <2>1. UNCHANGED <<env, settings>>
      BY <1>4 DEF Provenance
    <2>2. CASE tick' = [tick EXCEPT !.steps = @ \ {"provenance", "mark"}]
      <3>1. /\ tick'.on = tick.on /\ tick'.jobs = tick.jobs /\ tick'.due = tick.due /\ tick'.done = tick.done
            /\ tick'.steps = tick.steps \ {"provenance", "mark"} /\ TickOK'
        BY <2>1, <2>2 DEF TickInv, TickOK
      <3>2. GuardOK'
        BY <1>0, <2>1, <3>1 DEF TickInv, GuardOK
      <3> QED
        BY <3>1, <3>2 DEF TickInv
    <2>3. CASE Go("provenance")
      BY <1>0, <2>1, <2>3, TickDrops
    <2>4. CASE tick' = Ended
      BY <1>0, <2>1, <2>4, TickOver
    <2> QED
      BY <1>4, <2>2, <2>3, <2>4 DEF Provenance
  <1>5. CASE ProvenanceMark
    <2>1. settings' \in AnySettings /\ settings'.guard = settings.guard
      BY <1>0, <1>5 DEF ProvenanceMark, AnySettings
    <2>2. UNCHANGED env /\ Go("mark")
      BY <1>5 DEF ProvenanceMark
    <2> QED
      BY <1>0, <2>1, <2>2, TickDrops
  <1>6. CASE snapshotMetrics
    <2>1. UNCHANGED <<env, settings>> /\ Go("metrics")
      BY <1>6 DEF snapshotMetrics
    <2> QED
      BY <1>0, <2>1, TickDrops
  <1>7. CASE dailyCost
    <2>1. UNCHANGED env /\ tick' = [tick EXCEPT !.steps = @ \ {"cost"}] /\ "cost" \in tick.steps
      BY <1>7 DEF dailyCost, Go, At
    <2>2. tick.jobs = {} /\ tick.due = None /\ "guard" \in tick.steps
      BY <2>1 DEF TickInv, GuardOK
    <2>3. settings' \in AnySettings
      <3>1. settings' = settings \/ settings' = [done |-> settings.done \cup {"cost"}, guard |-> over]
        BY <1>7 DEF dailyCost
      <3>2. settings.done \cup {"cost"} \subseteq {"provenance", "cost", "audience"}
        BY <1>0 DEF AnySettings
      <3> QED
        BY <1>0, <3>1, <3>2 DEF TickInv, GuardOK, AnySettings
    <2> QED
      BY <1>0, <2>1, <2>2, <2>3 DEF TickInv, TickOK, GuardOK
  <1>8. CASE dailyAudience
    <2>1. settings' \in AnySettings /\ settings'.guard = settings.guard
      BY <1>0, <1>8 DEF dailyAudience, AnySettings
    <2>2. UNCHANGED env /\ Go("audience")
      BY <1>8 DEF dailyAudience
    <2> QED
      BY <1>0, <2>1, <2>2, TickDrops
  <1>9. CASE costGuard
    <2>1. "cost" \notin tick.steps /\ "guard" \in tick.steps /\ tick.on = TRUE
      BY <1>9, AtFirst DEF costGuard, At, TickInv, TickOK
    <2>2. PICK jobs \in SUBSET JobSlots :
             /\ jobs = {s \in JobSlots : JobAt(s).kind \in env.kinds /\ ~(settings.guard /\ JobAt(s).kind \in Writers)}
             /\ tick' = [tick EXCEPT !.steps = @ \ {"guard"}, !.jobs = jobs]
             /\ UNCHANGED <<env, settings>>
      BY <1>9 DEF costGuard
    <2>3. /\ tick'.on = TRUE /\ tick'.steps = tick.steps \ {"guard"} /\ tick'.jobs = jobs /\ tick'.due = tick.due
          /\ tick' \in [on : BOOLEAN, steps : SUBSET AllSteps, jobs : SUBSET JobSlots, due : {None} \cup SlotJobs, done : BOOLEAN]
      BY <2>1, <2>2 DEF TickInv, TickOK
    <2> QED
      BY <1>0, <2>1, <2>2, <2>3 DEF TickInv, TickOK, GuardOK
  <1>10. CASE Consider
    <2>1. UNCHANGED <<env, settings>> /\ tick.on
      BY <1>10 DEF Consider, At
    <2>2. CASE Go("jobs")
      BY <1>0, <2>1, <2>2, TickDrops
    <2>3. CASE ~Go("jobs")
      <3>1. PICK s \in tick.jobs : \E due \in {None, JobAt(s)} : tick' = [tick EXCEPT !.jobs = @ \ {s}, !.due = due]
        BY <1>10, <2>3 DEF Consider
      <3>4. PICK due \in {None, JobAt(s)} : tick' = [tick EXCEPT !.jobs = @ \ {s}, !.due = due]
        BY <3>1
      <3>2. s \in JobSlots /\ due \in {None} \cup SlotJobs
        BY <3>4 DEF TickInv, TickOK, SlotJobs
      <3>3. /\ tick'.on = TRUE /\ tick'.steps = tick.steps /\ tick'.jobs = tick.jobs \ {s} /\ tick'.due = due
            /\ tick' \in [on : BOOLEAN, steps : SUBSET AllSteps, jobs : SUBSET JobSlots, due : {None} \cup SlotJobs, done : BOOLEAN]
        BY <2>1, <3>4, <3>2 DEF TickInv, TickOK
      <3> QED
        BY <1>0, <2>1, <3>4, <3>3 DEF TickInv, TickOK, GuardOK
    <2> QED
      BY <2>2, <2>3
  <1>11. CASE Create
    <2>1. UNCHANGED <<env, settings>> /\ tick.on
      BY <1>11 DEF Create, At
    <2>2. CASE tick' = Ended
      BY <1>0, <2>1, <2>2, TickOver
    <2>3. CASE tick' = [tick EXCEPT !.due = None]
      <3>1. /\ tick'.on = tick.on /\ tick'.steps = tick.steps /\ tick'.jobs = tick.jobs /\ tick'.due = None
            /\ tick' \in [on : BOOLEAN, steps : SUBSET AllSteps, jobs : SUBSET JobSlots, due : {None} \cup SlotJobs, done : BOOLEAN]
        BY <2>3 DEF TickInv, TickOK
      <3> QED
        BY <1>0, <2>1, <3>1 DEF TickInv, TickOK, GuardOK
    <2> QED
      BY <1>11, <2>2, <2>3 DEF Create
  <1>12. CASE DispatchWorkflow
    <2>1. UNCHANGED <<env, settings>> /\ Go("dispatch")
      BY <1>12 DEF DispatchWorkflow
    <2> QED
      BY <1>0, <2>1, TickDrops
  <1>13. CASE TickCut
    BY <1>0, <1>13, TickOver DEF TickCut
  <1>14. CASE Spend \/ Push \/ WorkflowRuns
    <2>1. UNCHANGED <<tick, env, settings>>
      BY <1>14 DEF Spend, Push, WorkflowRuns
    <2> QED
      BY <1>0, <2>1, TickStays
  <1>15. CASE LiftGuard
    <2>1. UNCHANGED <<tick, env>> /\ settings' = [settings EXCEPT !.guard = FALSE]
      BY <1>15 DEF LiftGuard
    <2>2. settings' \in AnySettings /\ settings'.guard = FALSE
      BY <1>0, <2>1 DEF AnySettings
    <2> QED
      BY <1>0, <2>1, <2>2, TickStays
  <1>16. CASE Hands
    <2>1. UNCHANGED <<tick, env, settings>>
      BY <1>16 DEF Hands, handleQueueJob
    <2> QED
      BY <1>0, <2>1, TickStays
  <1>17. CASE Clock
    <2>1. settings' \in AnySettings
      <3>1. settings' = [settings EXCEPT !.done = {}] \/ settings' = settings
        BY <1>17 DEF Clock
      <3> QED
        BY <1>0, <3>1 DEF AnySettings
    <2>2. tick' = Idle /\ UNCHANGED env
      BY <1>17 DEF Clock
    <2> QED
      BY <1>0, <2>1, <2>2, TickOver
  <1>18. CASE \E w \in Arch : Claim(w) \/ CompleteJob(w) \/ FailJob(w) \/ Die(w)
    <2>1. UNCHANGED <<tick, env, settings>>
      BY <1>18 DEF Claim, CompleteJob, FailJob, Die, Report
    <2> QED
      BY <1>0, <2>1, TickStays
  <1> QED
    BY <1>1, <1>2, <1>3, <1>4, <1>5, <1>6, <1>7, <1>8, <1>9, <1>10, <1>11, <1>12, <1>13, <1>14, <1>15, <1>16, <1>17, <1>18
       DEF SchedNext, TickStep, World

-----------------------------------------------------------------------------
(* The tasks in flight.                                                    *)

Row == [by : {"scheduled", "manual"}, status : {"queued", "leased", "lost"}, attempts : Nat]

\* At most one of a job's tasks is the scheduler's; none is; one is being worked on.
Single(s) == \A i, k \in DOMAIN s : s[i].by = "scheduled" /\ s[k].by = "scheduled" => i = k
Manual(s) == \A i \in DOMAIN s : s[i].by # "scheduled"
InWork(s) == \E i \in DOMAIN s : s[i].status = "leased"

\* What a step makes of a job's tasks when it adds none.
Follows(t, s) ==
    /\ t \in Seq(Row) /\ Len(t) <= Len(s)
    /\ Single(s) => Single(t)
    /\ Manual(s) => Manual(t)

LEMMA Removed ==
  ASSUME NEW s \in Seq(Row), NEW i \in DOMAIN s
  PROVE  /\ Follows(RemoveRow(s, i), s)
         /\ s[i].status # "leased" /\ InWork(s) => InWork(RemoveRow(s, i))
  <1> DEFINE t == RemoveRow(s, i)
  <1>1. Len(s) \in Nat /\ DOMAIN s = 1 .. Len(s) /\ i \in 1 .. Len(s)
    OBVIOUS
  <1>2. /\ SubSeq(s, 1, i - 1) \in Seq(Row) /\ Len(SubSeq(s, 1, i - 1)) = i - 1
        /\ \A k \in 1 .. i - 1 : SubSeq(s, 1, i - 1)[k] = s[k]
    BY <1>1
  <1>3. /\ SubSeq(s, i + 1, Len(s)) \in Seq(Row) /\ Len(SubSeq(s, i + 1, Len(s))) = Len(s) - i
        /\ \A k \in 1 .. Len(s) - i : SubSeq(s, i + 1, Len(s))[k] = s[k + i]
    BY <1>1
  <1>4. t \in Seq(Row) /\ Len(t) = Len(s) - 1 /\ DOMAIN t = 1 .. Len(s) - 1
    BY <1>1, <1>2, <1>3 DEF RemoveRow
  <1>5. \A k \in 1 .. Len(s) - 1 : t[k] = s[IF k < i THEN k ELSE k + 1]
    <2> TAKE k \in 1 .. Len(s) - 1
    <2> DEFINE a == SubSeq(s, 1, i - 1)
               b == SubSeq(s, i + 1, Len(s))
    <2>1. t = a \o b
      BY DEF RemoveRow
    <2> HIDE DEF a, b, t
    <2>2. a \in Seq(Row) /\ b \in Seq(Row) /\ Len(a) = i - 1 /\ Len(b) = Len(s) - i
      BY <1>2, <1>3 DEF a, b
    <2>3. CASE k < i
      <3>1. k \in 1 .. i - 1
        BY <1>1, <2>3
      <3>2. t[k] = a[k]
        BY <1>1, <2>1, <2>2, <3>1
      <3> QED
        BY <1>2, <2>3, <3>1, <3>2 DEF a
    <2>4. CASE ~(k < i)
      <3>1. k - (i - 1) \in 1 .. Len(s) - i /\ (k - (i - 1)) + i = k + 1
        BY <1>1, <2>4
      <3>2. t[k] = b[k - (i - 1)]
        BY <1>1, <2>1, <2>2, <2>4, <3>1, SMTT(30)
      <3> QED
        BY <1>3, <2>4, <3>1, <3>2 DEF b
    <2> QED
      BY <2>3, <2>4
  <1> HIDE DEF t
  <1>6. Single(s) => Single(t)
    <2> SUFFICES ASSUME Single(s), NEW k \in DOMAIN t, NEW l \in DOMAIN t, t[k].by = "scheduled", t[l].by = "scheduled"
                 PROVE  k = l
      BY DEF Single
    <2> DEFINE m(n) == IF n < i THEN n ELSE n + 1
    <2>1. k \in 1 .. Len(s) - 1 /\ l \in 1 .. Len(s) - 1
      BY <1>4
    <2>2. m(k) \in DOMAIN s /\ m(l) \in DOMAIN s
      BY <1>1, <2>1
    <2>3. s[m(k)].by = "scheduled" /\ s[m(l)].by = "scheduled"
      BY <1>5, <2>1
    <2>4. m(k) = m(l)
      BY <2>2, <2>3 DEF Single
    <2> QED
      BY <1>1, <2>1, <2>4
  <1>7. Manual(s) => Manual(t)
    BY <1>1, <1>4, <1>5 DEF Manual
  <1>8. ASSUME s[i].status # "leased", InWork(s) PROVE InWork(t)
    <2>1. PICK k \in 1 .. Len(s) : s[k].status = "leased"
      BY <1>1, <1>8 DEF InWork
    <2>2. k # i
      BY <1>8, <2>1
    <2>3. CASE k < i
      BY <1>1, <1>4, <1>5, <2>1, <2>3 DEF InWork
    <2>4. CASE k > i
      <3>1. k - 1 \in 1 .. Len(s) - 1 /\ ~(k - 1 < i) /\ (k - 1) + 1 = k
        BY <1>1, <2>4
      <3> QED
        BY <1>4, <1>5, <2>1, <3>1 DEF InWork
    <2> QED
      BY <1>1, <2>2, <2>3, <2>4
  <1> QED
    BY <1>1, <1>4, <1>6, <1>7, <1>8 DEF Follows, t

\* A task changes its status, and who asked for it stays.
LEMMA Changes ==
  ASSUME NEW s \in Seq(Row), NEW i \in DOMAIN s, NEW r \in Row, r.by = s[i].by
  PROVE  /\ Follows([s EXCEPT ![i] = r], s)
         /\ r.status = "leased" => InWork([s EXCEPT ![i] = r])
         /\ s[i].status # "leased" /\ InWork(s) => InWork([s EXCEPT ![i] = r])
  <1> DEFINE t == [s EXCEPT ![i] = r]
  <1>1. t \in Seq(Row) /\ Len(t) = Len(s) /\ DOMAIN t = DOMAIN s
    OBVIOUS
  <1>2. \A k \in DOMAIN s : t[k] = IF k = i THEN r ELSE s[k]
    OBVIOUS
  <1> HIDE DEF t
  <1>3. \A k \in DOMAIN s : t[k].by = s[k].by
    BY <1>2
  <1>4. Len(t) <= Len(s)
    BY <1>1
  <1>5. r.status = "leased" => InWork(t)
    BY <1>1, <1>2 DEF InWork
  <1>6. s[i].status # "leased" /\ InWork(s) => InWork(t)
    BY <1>1, <1>2 DEF InWork
  <1>7. (Single(s) => Single(t)) /\ (Manual(s) => Manual(t))
    BY <1>1, <1>3 DEF Single, Manual
  <1> QED
    BY <1>1, <1>4, <1>5, <1>6, <1>7 DEF Follows, t

LEMMA BackFollows ==
  ASSUME NEW s \in Seq(Row), NEW i \in DOMAIN s
  PROVE  /\ Follows(Back(s, i), s)
         /\ s[i].status # "leased" /\ InWork(s) => InWork(Back(s, i))
  <1>1. s[i] \in Row
    OBVIOUS
  <1> DEFINE r == [s[i] EXCEPT !.status = "queued"]
  <1>2. r \in Row /\ r.by = s[i].by
    BY <1>1 DEF Row
  <1>3. [s EXCEPT ![i].status = "queued"] = [s EXCEPT ![i] = r]
    OBVIOUS
  <1>4. CASE s[i].attempts >= MaxAttempts
    BY <1>4, Removed DEF Back
  <1>5. CASE ~(s[i].attempts >= MaxAttempts)
    <2>1. Back(s, i) = [s EXCEPT ![i] = r]
      BY <1>3, <1>5 DEF Back
    <2> HIDE DEF r
    <2>2. Follows([s EXCEPT ![i] = r], s) /\ (s[i].status # "leased" /\ InWork(s) => InWork([s EXCEPT ![i] = r]))
      BY <1>2, Changes
    <2> QED
      BY <2>1, <2>2
  <1> QED
    BY <1>4, <1>5

\* One more, by hand or by the scheduler.
LEMMA Appended ==
  ASSUME NEW s \in Seq(Row), NEW r \in Row
  PROVE  LET t == Append(s, r) IN
         /\ t \in Seq(Row) /\ Len(t) = Len(s) + 1 /\ t[Len(t)] = r
         /\ r.by = "manual" => (Single(s) => Single(t)) /\ (Manual(s) => Manual(t))
         /\ Manual(s) => Single(t)
         /\ InWork(s) => InWork(t)
  <1> DEFINE t == Append(s, r)
  <1>1. Len(s) \in Nat /\ DOMAIN s = 1 .. Len(s)
    OBVIOUS
  <1>2. t \in Seq(Row) /\ Len(t) = Len(s) + 1 /\ DOMAIN t = 1 .. Len(s) + 1 /\ t[Len(s) + 1] = r
    BY <1>1
  <1>3. \A k \in 1 .. Len(s) : t[k] = s[k]
    BY <1>1
  <1> HIDE DEF t
  <1>4. \A k \in 1 .. Len(s) + 1 : k \in 1 .. Len(s) \/ k = Len(s) + 1
    BY <1>1
  <1>5. r.by = "manual" => (Single(s) => Single(t)) /\ (Manual(s) => Manual(t))
    BY <1>1, <1>2, <1>3, <1>4 DEF Single, Manual
  <1>6. Manual(s) => Single(t)
    BY <1>1, <1>2, <1>3, <1>4 DEF Single, Manual
  <1>7. InWork(s) => InWork(t)
    BY <1>1, <1>2, <1>3 DEF InWork
  <1> QED
    BY <1>1, <1>2, <1>5, <1>6, <1>7 DEF t

TasksInv ==
    /\ tasks \in [JobsOf(env) -> [rows : Seq(Row), last : 0 .. Old]]
    /\ busy \in [Arch -> {None} \cup JobsOf(env)]
    /\ \A j \in JobsOf(env) : Single(tasks[j].rows)
    /\ tick.due # None => Manual(tasks[tick.due].rows)
    /\ \A w \in Arch : busy[w] # None => busy[w].arch = w /\ InWork(tasks[busy[w]].rows)

LEMMA DueIsJob ==
  ASSUME TickInv, tick.due # None
  PROVE  tick.due \in Scheduled(env) /\ tick.due \in JobsOf(env)
  BY DEF TickInv, TickOK, SlotJobs, Scheduled, JobsOf

LEMMA TasksStay ==
  ASSUME TasksInv, UNCHANGED <<env, tasks, busy>>, tick'.due \in {None, tick.due}
  PROVE  TasksInv'
  BY DEF TasksInv

\* A step that moves the tasks of one job, and perhaps who works on them.
LEMMA OneJobMoves ==
  ASSUME TickInv, TasksInv, UNCHANGED env, tick'.due \in {None, tick.due},
         NEW j \in JobsOf(env), NEW t, NEW l \in 0 .. Old,
         Follows(t, tasks[j].rows) \/ (t \in Seq(Row) /\ Single(t) /\ (tick'.due # None /\ tick'.due = j => Manual(t))),
         tasks' = [tasks EXCEPT ![j] = [rows |-> t, last |-> l]],
         busy' \in [Arch -> {None} \cup JobsOf(env)],
         \A w \in Arch : busy'[w] # None => \/ busy'[w] = j /\ j.arch = w /\ InWork(t)
                                            \/ busy'[w] = busy[w] /\ busy[w] # j
  PROVE  TasksInv'
  <1>1. t \in Seq(Row) /\ Single(t) /\ (tick'.due # None /\ tick'.due = j => Manual(t))
    BY DEF TasksInv, Follows
  <1>2. tasks' \in [JobsOf(env) -> [rows : Seq(Row), last : 0 .. Old]]
    BY <1>1 DEF TasksInv
  <1>3. \A k \in JobsOf(env) : tasks'[k].rows = IF k = j THEN t ELSE tasks[k].rows
    BY DEF TasksInv
  <1>4. tick'.due # None => tick'.due \in JobsOf(env)
    BY DueIsJob
  <1>5. \A k \in JobsOf(env) : Single(tasks'[k].rows)
    BY <1>1, <1>3 DEF TasksInv
  <1>6. tick'.due # None => Manual(tasks'[tick'.due].rows)
    BY <1>1, <1>3, <1>4 DEF TasksInv
  <1>7. ASSUME NEW w \in Arch, busy'[w] # None
        PROVE  busy'[w].arch = w /\ InWork(tasks'[busy'[w]].rows)
    <2>1. busy'[w] \in JobsOf(env)
      BY <1>7
    <2>2. CASE busy'[w] = j /\ j.arch = w /\ InWork(t)
      BY <1>3, <2>2
    <2>3. CASE busy'[w] = busy[w] /\ busy[w] # j
      BY <1>3, <1>7, <2>1, <2>3 DEF TasksInv
    <2> QED
      BY <1>7, <2>2, <2>3
  <1> QED
    BY <1>2, <1>5, <1>6, <1>7 DEF TasksInv

LEMMA TasksInvInit ==
  ASSUME PipelineInit
  PROVE  TasksInv
  <1>1. Init
    BY DEF PipelineInit
  <1>2. /\ tasks = [j \in JobsOf(env) |-> [rows |-> <<>>, last |-> Old]] /\ busy = [w \in Arch |-> None]
        /\ tick.due = None
    BY <1>1 DEF Init, JobsOf, Idle
  <1>3. <<>> \in Seq(Row) /\ Single(<<>>) /\ Old \in 0 .. Old
    BY DEF Single, Old
  <1> QED
    BY <1>2, <1>3 DEF TasksInv

\* The task in hand is one there is.
LEMMA TheTaskInHand ==
  ASSUME TasksInv, NEW w \in Arch, busy[w] # None
  PROVE  /\ busy[w] \in JobsOf(env) /\ busy[w].arch = w
         /\ InHand(w) \in DOMAIN tasks[busy[w]].rows /\ tasks[busy[w]].rows[InHand(w)].status = "leased"
  BY DEF TasksInv, InHand, InWork

LEMMA RowsOnly ==
  ASSUME TasksInv, NEW j \in JobsOf(env), NEW t, tasks' = [tasks EXCEPT ![j].rows = t]
  PROVE  /\ tasks' = [tasks EXCEPT ![j] = [rows |-> t, last |-> tasks[j].last]]
         /\ tasks[j].last \in 0 .. Old
  <1>1. tasks[j] \in [rows : Seq(Row), last : 0 .. Old]
    BY DEF TasksInv
  <1>2. [tasks[j] EXCEPT !.rows = t] = [rows |-> t, last |-> tasks[j].last]
    BY <1>1
  <1> QED
    BY <1>1, <1>2

\* No task is added by it.
LEMMA Shorter ==
  ASSUME TasksInv, NEW j \in JobsOf(env), NEW t, Follows(t, tasks[j].rows),
         tasks' = [tasks EXCEPT ![j] = [rows |-> t, last |-> tasks[j].last]]
  PROVE  \A k \in JobsOf(env) : tasks'[k].last = tasks[k].last /\ Len(tasks'[k].rows) <= Len(tasks[k].rows)
  <1>1. \A k \in JobsOf(env) : tasks[k].rows \in Seq(Row) /\ Len(tasks[k].rows) <= Len(tasks[k].rows)
    BY DEF TasksInv
  <1>2. Len(t) <= Len(tasks[j].rows)
    BY DEF Follows
  <1> SUFFICES ASSUME NEW k \in JobsOf(env)
               PROVE  tasks'[k].last = tasks[k].last /\ Len(tasks'[k].rows) <= Len(tasks[k].rows)
    OBVIOUS
  <1>3. CASE k = j
    <2>1. tasks'[k] = [rows |-> t, last |-> tasks[j].last]
      BY <1>3 DEF TasksInv
    <2> QED
      BY <1>2, <1>3, <2>1
  <1>4. CASE k # j
    <2>1. tasks'[k] = tasks[k]
      BY <1>4 DEF TasksInv
    <2> QED
      BY <1>1, <2>1
  <1> QED
    BY <1>3, <1>4

LEMMA TasksRequeue ==
  ASSUME TickInv, TasksInv, Requeue
  PROVE  /\ TasksInv' /\ UNCHANGED <<env, minute, events, runs>> /\ tick'.due = tick.due
         /\ \A k \in JobsOf(env) : tasks'[k].last = tasks[k].last /\ Len(tasks'[k].rows) <= Len(tasks[k].rows)
  <1>1. UNCHANGED <<env, busy, minute, events, runs>> /\ tick'.due = tick.due
    BY DEF Requeue, worldVars, Go, TickInv, TickOK
  <1>2. CASE UNCHANGED tasks
    <2>1. \A k \in JobsOf(env) : tasks[k].rows \in Seq(Row) /\ Len(tasks[k].rows) <= Len(tasks[k].rows)
      BY DEF TasksInv
    <2> QED
      BY <1>1, <1>2, <2>1, TasksStay
  <1>3. CASE \E l \in Lost : tasks' = Returned(l[1], l[2])
    <2>1. PICK l \in Lost : tasks' = Returned(l[1], l[2])
      BY <1>3
    <2> DEFINE j == l[1]
               i == l[2]
               s == tasks[j].rows
    <2>2. j \in JobsOf(env) /\ i \in DOMAIN s /\ s[i].status = "lost"
      BY <2>1 DEF Lost, Jobs, TasksInv
    <2>3. s \in Seq(Row)
      BY <2>2 DEF TasksInv
    <2>4. tasks' = [tasks EXCEPT ![j].rows = Back(s, i)]
      BY <2>1 DEF Returned
    <2> HIDE DEF i, j
    <2>5. tasks' = [tasks EXCEPT ![j] = [rows |-> Back(s, i), last |-> tasks[j].last]] /\ tasks[j].last \in 0 .. Old
      BY <2>2, <2>4, RowsOnly
    <2>6. Follows(Back(s, i), s) /\ (InWork(s) => InWork(Back(s, i)))
      BY <2>2, <2>3, BackFollows
    <2>7. busy' \in [Arch -> {None} \cup JobsOf(env)]
      BY <1>1 DEF TasksInv
    <2>8. \A w \in Arch : busy'[w] # None => \/ busy'[w] = j /\ j.arch = w /\ InWork(Back(s, i))
                                             \/ busy'[w] = busy[w] /\ busy[w] # j
      BY <1>1, <2>6 DEF TasksInv
    <2>9. TasksInv'
      BY <1>1, <2>2, <2>5, <2>6, <2>7, <2>8, OneJobMoves
    <2>10. Follows(Back(s, i), tasks[j].rows)
      BY <2>6
    <2> HIDE DEF s
    <2> QED
      BY <1>1, <2>2, <2>5, <2>9, <2>10, Shorter
  <1> QED
    BY <1>2, <1>3 DEF Requeue

LEMMA TasksConsider ==
  ASSUME TickInv, TasksInv, Consider
  PROVE  TasksInv'
  <1>1. UNCHANGED <<env, tasks, busy>>
    BY DEF Consider, worldVars, jobVars
  <1>2. CASE Go("jobs")
    <2>1. tick'.due = tick.due
      BY <1>2 DEF Go, TickInv, TickOK
    <2> QED
      BY <1>1, <2>1, TasksStay
  <1>3. CASE \E s \in tick.jobs : tick' = [tick EXCEPT !.jobs = @ \ {s}, !.due = IF DueJob(JobAt(s)) THEN JobAt(s) ELSE None]
    <2>1. PICK s \in tick.jobs : tick' = [tick EXCEPT !.jobs = @ \ {s}, !.due = IF DueJob(JobAt(s)) THEN JobAt(s) ELSE None]
      BY <1>3
    <2>2. tick'.due = IF DueJob(JobAt(s)) THEN JobAt(s) ELSE None
      BY <2>1 DEF TickInv, TickOK
    <2>3. CASE DueJob(JobAt(s))
      <3>1. JobAt(s) \in JobsOf(env)
        BY <2>1 DEF TickInv, TickOK, JobsOf, Scheduled
      <3>2. JobAt(s) \in Alike(JobAt(s))
        BY <3>1 DEF Alike, Jobs, TasksInv
      <3>3. tasks[JobAt(s)].rows = <<>>
        BY <2>3, <3>2 DEF DueJob, isDue
      <3>4. Manual(tasks[JobAt(s)].rows)
        BY <3>3 DEF Manual
      <3> QED
        BY <1>1, <2>2, <2>3, <3>4 DEF TasksInv
    <2>4. CASE ~DueJob(JobAt(s))
      BY <1>1, <2>2, <2>4, TasksStay
    <2> QED
      BY <2>3, <2>4
  <1> QED
    BY <1>2, <1>3 DEF Consider

LEMMA TasksCreate ==
  ASSUME TickInv, TasksInv, Create
  PROVE  TasksInv'
  <1> DEFINE j == tick.due
             s == tasks[j].rows
             r == [by |-> "scheduled", status |-> "queued", attempts |-> 0]
             t == Append(s, r)
  <1>1. UNCHANGED <<env, busy>> /\ j # None
    BY DEF Create, worldVars
  <1>2. j \in JobsOf(env)
    BY <1>1, DueIsJob
  <1>3. s \in Seq(Row) /\ r \in Row /\ Manual(s)
    BY <1>1, <1>2 DEF TasksInv, Row
  <1>4. t \in Seq(Row) /\ Single(t) /\ (InWork(s) => InWork(t))
    BY <1>3, Appended
  <1>5. tick'.due = None
    <2>1. CASE tick' = Ended
      BY <2>1 DEF Ended, Idle
    <2>2. CASE tick' = [tick EXCEPT !.due = None]
      BY <2>2 DEF TickInv, TickOK
    <2> QED
      BY <2>1, <2>2 DEF Create
  <1>6. tasks' = [tasks EXCEPT ![j] = [rows |-> t, last |-> 0]]
    BY DEF Create, createJob
  <1>7. busy' \in [Arch -> {None} \cup JobsOf(env)]
    BY <1>1 DEF TasksInv
  <1>8. \A w \in Arch : busy'[w] # None => \/ busy'[w] = j /\ j.arch = w /\ InWork(t)
                                           \/ busy'[w] = busy[w] /\ busy[w] # j
    BY <1>1, <1>4 DEF TasksInv
  <1>9. 0 \in 0 .. Old /\ (tick'.due # None /\ tick'.due = j => Manual(t))
    BY <1>1, <1>5 DEF Old
  <1> HIDE DEF j, t
  <1> QED
    BY <1>1, <1>2, <1>4, <1>5, <1>6, <1>7, <1>8, <1>9, OneJobMoves

LEMMA TasksHands ==
  ASSUME TickInv, TasksInv, NEW b, handleQueueJob(b)
  PROVE  TasksInv' /\ Asked(b) \in JobsOf(env)
  <1> DEFINE j == Asked(b)
             s == tasks[j].rows
             r == [by |-> "manual", status |-> "queued", attempts |-> 0]
             t == Append(s, r)
  <1>1. UNCHANGED <<env, busy, tick>>
    BY DEF handleQueueJob, worldVars
  <1>2. j \in JobsOf(env)
    BY DEF handleQueueJob, JobsOf
  <1>3. s \in Seq(Row) /\ r \in Row /\ Single(s)
    BY <1>1, <1>2 DEF TasksInv, Row
  <1>4. t \in Seq(Row) /\ Single(t) /\ (Manual(s) => Manual(t)) /\ (InWork(s) => InWork(t))
    BY <1>3, Appended
  <1>6. tasks' = [tasks EXCEPT ![j] = [rows |-> t, last |-> 0]]
    BY DEF handleQueueJob, createJob
  <1>7. busy' \in [Arch -> {None} \cup JobsOf(env)]
    BY <1>1 DEF TasksInv
  <1>8. \A w \in Arch : busy'[w] # None => \/ busy'[w] = j /\ j.arch = w /\ InWork(t)
                                           \/ busy'[w] = busy[w] /\ busy[w] # j
    BY <1>1, <1>4 DEF TasksInv
  <1>9. 0 \in 0 .. Old
    BY DEF Old
  <1>10. tick'.due # None /\ tick'.due = j => Manual(t)
    BY <1>1, <1>4 DEF TasksInv
  <1>11. tick'.due \in {None, tick.due}
    BY <1>1
  <1> HIDE DEF j, t
  <1>12. TasksInv'
    BY <1>1, <1>2, <1>4, <1>6, <1>7, <1>8, <1>9, <1>10, <1>11, OneJobMoves
  <1> QED
    BY <1>2, <1>12 DEF j

LEMMA Leased ==
  ASSUME NEW q \in Row
  PROVE  LET r == [q EXCEPT !.status = "leased", !.attempts = q.attempts + 1]
         IN r \in Row /\ r.by = q.by /\ r.status = "leased"
  <1>1. q.attempts + 1 \in Nat
    BY DEF Row
  <1> QED
    BY <1>1 DEF Row

\* A step of a worker: it takes a task, or its task goes, or goes back.
LEMMA TasksClaim ==
  ASSUME TickInv, TasksInv, NEW w \in Arch, Claim(w)
  PROVE  /\ TasksInv' /\ UNCHANGED <<env, tick>> /\ busy'[w] \in JobsOf(env) /\ busy'[w].arch = w
         /\ \A v \in Arch : v # w => busy'[v] = busy[v]
         /\ \A k \in JobsOf(env) : tasks'[k].last = tasks[k].last /\ Len(tasks'[k].rows) <= Len(tasks[k].rows)
  <1>1. PICK j \in Jobs : \E i \in DOMAIN tasks[j].rows :
             /\ j.arch = w /\ tasks[j].rows[i].status = "queued"
             /\ tasks' = [tasks EXCEPT ![j].rows[i] = [tasks[j].rows[i] EXCEPT !.status = "leased",
                                                                               !.attempts = tasks[j].rows[i].attempts + 1]]
             /\ busy' = [busy EXCEPT ![w] = j]
    BY DEF Claim
  <1> DEFINE s == tasks[j].rows
  <1>2. PICK i \in DOMAIN s :
             /\ j.arch = w /\ s[i].status = "queued"
             /\ tasks' = [tasks EXCEPT ![j].rows[i] = [tasks[j].rows[i] EXCEPT !.status = "leased",
                                                                               !.attempts = tasks[j].rows[i].attempts + 1]]
             /\ busy' = [busy EXCEPT ![w] = j]
    BY <1>1
  <1>3. UNCHANGED <<env, tick>> /\ busy[w] = None
    BY DEF Claim, worldVars
  <1>4. j \in JobsOf(env) /\ s \in Seq(Row) /\ s[i] \in Row
    BY <1>2 DEF Jobs, TasksInv
  <1> DEFINE r == [s[i] EXCEPT !.status = "leased", !.attempts = s[i].attempts + 1]
             t == [s EXCEPT ![i] = r]
  <1>5. r \in Row /\ r.by = s[i].by /\ r.status = "leased"
    BY <1>4, Leased
  <1>6. tasks' = [tasks EXCEPT ![j].rows = t]
    BY <1>2
  <1>7. tasks' = [tasks EXCEPT ![j] = [rows |-> t, last |-> tasks[j].last]] /\ tasks[j].last \in 0 .. Old
    <2> HIDE DEF t
    <2> QED
      BY <1>4, <1>6, RowsOnly
  <1>8. Follows(t, s) /\ InWork(t) /\ (InWork(s) => InWork(t))
    <2> HIDE DEF r
    <2> QED
      BY <1>2, <1>4, <1>5, Changes
  <1>9. busy' \in [Arch -> {None} \cup JobsOf(env)]
    BY <1>2, <1>3, <1>4 DEF TasksInv
  <1>10. \A v \in Arch : busy'[v] = IF v = w THEN j ELSE busy[v]
    BY <1>2 DEF TasksInv
  <1>11. \A v \in Arch : busy'[v] # None => \/ busy'[v] = j /\ j.arch = v /\ InWork(t)
                                            \/ busy'[v] = busy[v] /\ busy[v] # j
    BY <1>2, <1>3, <1>8, <1>10 DEF TasksInv
  <1> HIDE DEF t, r
  <1>13. tick'.due \in {None, tick.due}
    BY <1>3
  <1>14. TasksInv'
    BY <1>3, <1>4, <1>7, <1>8, <1>9, <1>11, <1>13, OneJobMoves
  <1>15. \A k \in JobsOf(env) : tasks'[k].last = tasks[k].last /\ Len(tasks'[k].rows) <= Len(tasks[k].rows)
    BY <1>4, <1>7, <1>8, Shorter
  <1> QED
    BY <1>2, <1>3, <1>4, <1>10, <1>14, <1>15

LEMMA TasksReport ==
  ASSUME TickInv, TasksInv, NEW w \in Arch, CompleteJob(w) \/ FailJob(w) \/ Die(w)
  PROVE  /\ TasksInv' /\ UNCHANGED <<env, tick>> /\ busy'[w] = None
         /\ \A v \in Arch : v # w => busy'[v] = busy[v]
         /\ \A k \in JobsOf(env) : tasks'[k].last = tasks[k].last /\ Len(tasks'[k].rows) <= Len(tasks[k].rows)
  <1> DEFINE j == busy[w]
             s == tasks[j].rows
             i == InHand(w)
             r == [s[i] EXCEPT !.status = "lost"]
  <1>1. busy[w] # None /\ busy' = [busy EXCEPT ![w] = None] /\ UNCHANGED <<env, tick>>
    BY DEF CompleteJob, FailJob, Die, Report, worldVars
  <1>2. j \in JobsOf(env) /\ j.arch = w /\ i \in DOMAIN s /\ s \in Seq(Row) /\ s[i] \in Row
    BY <1>1, TheTaskInHand DEF TasksInv
  <1>3. PICK t : tasks' = [tasks EXCEPT ![j].rows = t] /\ Follows(t, s)
    <2>1. CASE CompleteJob(w)
      BY <1>2, <2>1, Removed DEF CompleteJob
    <2>2. CASE FailJob(w)
      BY <1>2, <2>2, BackFollows DEF FailJob, Returned
    <2>3. CASE Die(w)
      <3>1. r \in Row /\ r.by = s[i].by
        BY <1>2 DEF Row
      <3>2. tasks' = [tasks EXCEPT ![j].rows = [s EXCEPT ![i] = r]]
        BY <2>3 DEF Die
      <3> HIDE DEF r, i, j
      <3>3. Follows([s EXCEPT ![i] = r], s)
        BY <1>2, <3>1, Changes
      <3> QED
        BY <3>2, <3>3
    <2> QED
      BY <2>1, <2>2, <2>3
  <1>4. tasks' = [tasks EXCEPT ![j] = [rows |-> t, last |-> tasks[j].last]] /\ tasks[j].last \in 0 .. Old
    BY <1>2, <1>3, RowsOnly
  <1>5. busy' \in [Arch -> {None} \cup JobsOf(env)] /\ \A v \in Arch : busy'[v] = IF v = w THEN None ELSE busy[v]
    BY <1>1 DEF TasksInv
  <1>6. \A v \in Arch : busy'[v] # None => \/ busy'[v] = j /\ j.arch = v /\ InWork(t)
                                           \/ busy'[v] = busy[v] /\ busy[v] # j
    BY <1>2, <1>5 DEF TasksInv
  <1>7. tick'.due \in {None, tick.due}
    BY <1>1
  <1> HIDE DEF j, i, r
  <1>8. TasksInv'
    <2>1. UNCHANGED env /\ j \in JobsOf(env) /\ Follows(t, tasks[j].rows)
      BY <1>1, <1>2, <1>3
    <2>2. busy' \in [Arch -> {None} \cup JobsOf(env)]
      BY <1>5
    <2> QED
      BY <1>4, <1>6, <1>7, <2>1, <2>2, OneJobMoves
  <1>9. \A k \in JobsOf(env) : tasks'[k].last = tasks[k].last /\ Len(tasks'[k].rows) <= Len(tasks[k].rows)
    BY <1>2, <1>3, <1>4, Shorter
  <1> QED
    BY <1>1, <1>5, <1>8, <1>9

LEMMA AgeOfLater ==
  ASSUME NEW age \in 0 .. Old, NEW d \in Nat
  PROVE  Later(age, d) \in 0 .. Old /\ Later(age, d) <= age + d /\ Later(age, d) >= age
  BY DEF Later, Old

-----------------------------------------------------------------------------
(* The clock.                                                              *)

\* Every nonempty set of natural numbers has a least element.
LEMMA LeastExists ==
  ASSUME NEW S \in SUBSET Nat, S # {}
  PROVE  \E m \in S : \A k \in S : m <= k
  <1> DEFINE R == OpToRel(<, Nat)
  <1>1. IsWellFoundedOn(R, Nat)
    BY NatLessThanWellFounded
  <1>2. \A k, m \in Nat : k < m => <<k, m>> \in R
    BY DEF OpToRel
  <1> HIDE DEF R
  <1>3. PICK m \in S : \A k \in S : ~(<<k, m>> \in R)
    BY <1>1, WFMin
  <1>4. \A k \in S : m <= k
    <2> TAKE k \in S
    <2>1. k \in Nat /\ m \in Nat /\ ~(k < m)
      BY <1>2, <1>3
    <2> QED
      BY <2>1
  <1> QED
    BY <1>3, <1>4

Minutes == 0 .. 1439

LEMMA AfterGoesOn ==
  ASSUME NEW S, \A y \in S : y \in Minutes, 0 \in S, NEW x \in Minutes
  PROVE  After(S, x) \in S /\ (After(S, x) > x \/ After(S, x) = 0)
  <1> DEFINE later == {y \in S : y > x}
             T == IF later = {} THEN S ELSE later
  <1>1. After(S, x) = CHOOSE y \in T : \A z \in T : y <= z
    BY DEF After
  <1>2. T # {} /\ \A y \in T : y \in S
    OBVIOUS
  <1>3. later # {} => \A y \in T : y > x
    OBVIOUS
  <1>4. later = {} => 0 \in T
    OBVIOUS
  <1> HIDE DEF later, T
  <1>5. \E y \in T : \A z \in T : y <= z
    <2>1. T \in SUBSET Nat
      BY <1>2, SMTT(30) DEF Minutes
    <2> QED
      BY <1>2, <2>1, LeastExists
  <1>6. PICK a : a = After(S, x)
    OBVIOUS
  <1>7. a \in T /\ \A z \in T : a <= z
    BY <1>1, <1>5, <1>6
  <1>8. a \in S /\ a \in Minutes
    BY <1>2, <1>7
  <1>9. a > x \/ a = 0
    <2>1. CASE later = {}
      BY <1>4, <1>7, <1>8, <2>1 DEF Minutes
    <2>2. CASE later # {}
      BY <1>3, <1>7, <2>2
    <2> QED
      BY <2>1, <2>2
  <1> QED
    BY <1>6, <1>8, <1>9

\* How far the clock goes.
Lapse == IF minute' > minute THEN minute' - minute ELSE minute' - minute + 1440

LEMMA Lapses ==
  ASSUME NEW m \in 0 .. 1439, NEW n \in 0 .. 1439
  PROVE  (IF n > m THEN n - m ELSE n - m + 1440) \in Nat
  <1>1. m \in Int /\ m <= 1439
    OBVIOUS
  <1>2. n \in Int /\ n >= 0
    OBVIOUS
  <1>3. CASE n > m
    BY <1>1, <1>2, <1>3
  <1>4. CASE ~ (n > m)
    BY <1>1, <1>2, <1>4
  <1> QED
    BY <1>3, <1>4

LEMMA ClockGoes ==
  ASSUME Clock, env \in Deployments, minute \in env.minutes
  PROVE  /\ minute' \in env.minutes /\ minute' \in 0 .. 1439 /\ minute \in 0 .. 1439
         /\ minute' > minute \/ minute' = 0
         /\ Lapse \in Nat /\ (minute' > minute => Lapse = minute' - minute)
  <1>1. PICK S : S = env.minutes
    OBVIOUS
  <1>2. (\A y \in S : y \in Minutes) /\ 0 \in S
    BY <1>1, SchedulerAssumption DEF Minutes
  <1>3. minute \in Minutes
    BY <1>1, <1>2
  <1>4. minute' = After(S, minute)
    BY <1>1 DEF Clock
  <1>5. PICK n : n = After(S, minute)
    OBVIOUS
  <1>6. n \in S /\ (n > minute \/ n = 0)
    <2>1. ASSUME NEW m \in Minutes
          PROVE  After(S, m) \in S /\ (After(S, m) > m \/ After(S, m) = 0)
      BY <1>2, AfterGoesOn
    <2> QED
      BY <1>3, <1>5, <2>1
  <1>7. n \in 0 .. 1439 /\ minute \in 0 .. 1439
    BY <1>2, <1>3, <1>6 DEF Minutes
  <1>8. minute' = n
    BY <1>4, <1>5
  <1>9. Lapse \in Nat /\ (n > minute => Lapse = n - minute)
    <2>1. PICK m : m = minute
      OBVIOUS
    <2>2. Lapse = IF n > m THEN n - m ELSE n - m + 1440
      BY <1>8, <2>1 DEF Lapse
    <2>3. m \in 0 .. 1439 /\ n \in 0 .. 1439 /\ (n > m \/ n = 0)
      BY <1>6, <1>7, <2>1
    <2>4. (IF n > m THEN n - m ELSE n - m + 1440) \in Nat
      BY <2>3, Lapses
    <2> QED
      BY <2>1, <2>2, <2>4
  <1>10. n \in env.minutes
    BY <1>1, <1>6
  <1> QED
    BY <1>6, <1>7, <1>8, <1>9, <1>10

LEMMA TasksClock ==
  ASSUME TasksInv, Clock, env \in Deployments, minute \in env.minutes
  PROVE  /\ TasksInv' /\ UNCHANGED <<env, busy>>
         /\ \A j \in JobsOf(env) : tasks'[j].rows = tasks[j].rows /\ tasks'[j].last = Later(tasks[j].last, Lapse)
  <1>1. UNCHANGED <<env, busy>> /\ tick' = Idle
    BY DEF Clock
  <1>2. tasks' = [j \in Jobs |-> [tasks[j] EXCEPT !.last = Later(@, Lapse)]]
    BY DEF Clock, Lapse
  <1>3. Lapse \in Nat
    BY ClockGoes
  <1>4. Jobs = JobsOf(env)
    BY DEF Jobs, TasksInv
  <1>5. ASSUME NEW j \in JobsOf(env)
        PROVE  /\ tasks'[j] \in [rows : Seq(Row), last : 0 .. Old]
               /\ tasks'[j].rows = tasks[j].rows /\ tasks'[j].last = Later(tasks[j].last, Lapse)
    <2>1. tasks[j] \in [rows : Seq(Row), last : 0 .. Old]
      BY DEF TasksInv
    <2>2. Later(tasks[j].last, Lapse) \in 0 .. Old
      BY <1>3, <2>1, AgeOfLater
    <2>3. tasks'[j] = [tasks[j] EXCEPT !.last = Later(tasks[j].last, Lapse)]
      BY <1>2, <1>4
    <2> QED
      BY <2>1, <2>2, <2>3
  <1>6. tasks' \in [JobsOf(env) -> [rows : Seq(Row), last : 0 .. Old]]
    BY <1>2, <1>4, <1>5
  <1>7. tick'.due = None
    BY <1>1 DEF Idle
  <1> QED
    BY <1>1, <1>5, <1>6, <1>7 DEF TasksInv

\* Steps that leave the tasks alone, and find nothing due.
TasksAside ==
    \/ Tick \/ TickEnds \/ Provenance \/ ProvenanceMark \/ snapshotMetrics \/ dailyCost \/ dailyAudience \/ costGuard
    \/ DispatchWorkflow \/ World

LEMMA AsideLeaves ==
  ASSUME TickInv, TasksAside
  PROVE  UNCHANGED <<env, tasks, busy, minute>> /\ tick'.due \in {None, tick.due}
  <1> USE DEF bookVars, worldVars, jobVars
  <1>1. tick \in [on : BOOLEAN, steps : SUBSET AllSteps, jobs : SUBSET JobSlots, due : {None} \cup SlotJobs, done : BOOLEAN]
    BY DEF TickInv, TickOK
  <1>2. Idle.due = None /\ Ended.due = None
    BY DEF Idle, Ended
  <1>3. \A s : Go(s) => tick'.due = tick.due
    BY <1>1 DEF Go
  <1>4. CASE Tick
    BY <1>4 DEF Tick, Idle
  <1>5. CASE TickEnds \/ TickCut
    BY <1>2, <1>5 DEF TickEnds, TickCut
  <1>6. CASE Provenance
    <2>1. tick'.due = tick.due \/ tick' = Ended
      BY <1>1, <1>3, <1>6 DEF Provenance
    <2> QED
      BY <1>2, <1>6, <2>1 DEF Provenance
  <1>7. CASE ProvenanceMark \/ snapshotMetrics \/ dailyCost \/ dailyAudience \/ DispatchWorkflow
    BY <1>3, <1>7 DEF ProvenanceMark, snapshotMetrics, dailyCost, dailyAudience, DispatchWorkflow
  <1>8. CASE costGuard
    BY <1>1, <1>8 DEF costGuard
  <1>9. CASE Spend \/ LiftGuard \/ Push \/ WorkflowRuns
    BY <1>9 DEF Spend, LiftGuard, Push, WorkflowRuns
  <1> QED
    BY <1>4, <1>5, <1>6, <1>7, <1>8, <1>9 DEF TasksAside, World

LEMMA SchedSplit ==
  ASSUME SchedNext
  PROVE  \/ TasksAside \/ Requeue \/ Consider \/ Create \/ (\E b : handleQueueJob(b)) \/ Clock
         \/ \E w \in Arch : Claim(w) \/ CompleteJob(w) \/ FailJob(w) \/ Die(w)
  BY DEF SchedNext, TickStep, World, Hands, TasksAside

LEMMA TasksInvNext ==
  ASSUME TickInv, TasksInv, SchedNext, env \in Deployments, minute \in env.minutes
  PROVE  TasksInv'
  <1>1. CASE TasksAside
    BY <1>1, AsideLeaves, TasksStay
  <1>2. CASE Requeue
    BY <1>2, TasksRequeue
  <1>3. CASE Consider
    BY <1>3, TasksConsider
  <1>4. CASE Create
    BY <1>4, TasksCreate
  <1>5. CASE \E b : handleQueueJob(b)
    BY <1>5, TasksHands
  <1>6. CASE Clock
    BY <1>6, TasksClock
  <1>7. CASE \E w \in Arch : Claim(w) \/ CompleteJob(w) \/ FailJob(w) \/ Die(w)
    BY <1>7, TasksClaim, TasksReport
  <1> QED
    BY <1>1, <1>2, <1>3, <1>4, <1>5, <1>6, <1>7, SchedSplit

EnvInv == env \in Deployments /\ minute \in env.minutes

LEMMA EnvStays ==
  ASSUME SchedNext
  PROVE  UNCHANGED env
  BY DEF SchedNext, TickStep, World, Hands, Tick, TickEnds, Requeue, Provenance, ProvenanceMark, snapshotMetrics, dailyCost,
         dailyAudience, costGuard, Consider, Create, DispatchWorkflow, TickCut, Spend, LiftGuard, Push, WorkflowRuns,
         handleQueueJob, Clock, Claim, CompleteJob, FailJob, Die, Report, worldVars

LEMMA EnvInvNext ==
  ASSUME TickInv, TasksInv, EnvInv, SchedNext
  PROVE  EnvInv'
  <1> USE DEF EnvInv, worldVars
  <1>1. CASE TasksAside
    BY <1>1, AsideLeaves
  <1>2. CASE Requeue \/ Consider \/ Create \/ (\E b : handleQueueJob(b))
    BY <1>2 DEF Requeue, Consider, Create, handleQueueJob
  <1>3. CASE Clock
    BY <1>3, ClockGoes, TasksClock
  <1>4. CASE \E w \in Arch : Claim(w) \/ CompleteJob(w) \/ FailJob(w) \/ Die(w)
    BY <1>4 DEF Claim, CompleteJob, FailJob, Die, Report
  <1> QED
    BY <1>1, <1>2, <1>3, <1>4, SchedSplit

\* What the scheduler keeps of its jobs.
SchedInv == TickInv /\ TasksInv /\ EnvInv

LEMMA SchedInvInit ==
  ASSUME PipelineInit
  PROVE  SchedInv
  <1>1. Init
    BY DEF PipelineInit
  <1>2. EnvInv
    BY <1>1, SchedulerAssumption DEF EnvInv, Init
  <1> QED
    BY <1>1, <1>2, TickInvInit, TasksInvInit DEF SchedInv

LEMMA SchedInvStays ==
  ASSUME SchedInv, UNCHANGED schedVars
  PROVE  SchedInv'
  BY DEF SchedInv, TickInv, TickOK, GuardOK, TasksInv, EnvInv, schedVars

LEMMA SchedInvNext ==
  ASSUME SchedInv, [Next]_vars
  PROVE  SchedInv'
  <1>1. CASE SchedNext
    <2>1. TickInv' /\ TasksInv' /\ EnvInv'
      BY <1>1, TickInvNext, TasksInvNext, EnvInvNext DEF SchedInv, EnvInv
    <2> QED
      BY <2>1 DEF SchedInv
  <1>2. CASE UNCHANGED schedVars
    BY <1>2, SchedInvStays
  <1> QED
    BY <1>1, <1>2, NextIsSched DEF vars

LEMMA SchedInvariant == Spec => []SchedInv
  BY SchedInvInit, SchedInvNext, PTL DEF Spec

-----------------------------------------------------------------------------
(* What the jobs can do, and what the guard holds back.                    *)

\* JobAccess!JobsMayFinish: whatever a deployment's rules and its maintainers
\* queue, and every task of a package, has in the token its claim issues each
\* scope its calls ask for.
THEOREM JobsCanFinish == Spec => []JobsMayFinish
  <1>1. SchedInv => JobsMayFinish
    <2> SUFFICES ASSUME SchedInv PROVE JobsMayFinish
      OBVIOUS
    <2>1. Jobs = JobsOf(env)
      BY DEF SchedInv, TasksInv, Jobs
    <2>2. \A j \in Jobs : MayFinish(j, Calls(j))
      BY <2>1, ReadyJobs
    <2> QED
      BY <2>2, ReadyPackages DEF JobsMayFinish, PackagesMayFinish
  <1> QED
    BY <1>1, SchedInvariant, PTL

\* Only the scheduler and the maintainers add a task.
LEMMA WhoAdds ==
  ASSUME SchedInv, SchedNext, NEW j \in JobsOf(env), Len(tasks'[j].rows) > Len(tasks[j].rows)
  PROVE  \/ Create /\ j = tick.due
         \/ Last(tasks'[j].rows).by = "manual"
  <1>0. tasks[j].rows \in Seq(Row) /\ ~(Len(tasks[j].rows) > Len(tasks[j].rows))
    BY DEF SchedInv, TasksInv
  <1>1. CASE TasksAside
    BY <1>0, <1>1, AsideLeaves DEF SchedInv
  <1>2. CASE Consider
    BY <1>0, <1>2 DEF Consider, jobVars
  <1>3. CASE Clock
    BY <1>0, <1>3, TasksClock DEF SchedInv, EnvInv
  <1>4. CASE Create
    <2>1. CASE j = tick.due
      BY <1>4, <2>1
    <2>2. CASE j # tick.due
      <3>1. tasks'[j] = tasks[j]
        BY <1>4, <2>2 DEF Create, createJob, SchedInv, TasksInv
      <3> QED
        BY <1>0, <3>1
    <2> QED
      BY <2>1, <2>2
  <1>5. CASE \E b : handleQueueJob(b)
    <2>1. PICK b : handleQueueJob(b)
      BY <1>5
    <2>2. CASE j = Asked(b)
      <3> DEFINE r == [by |-> "manual", status |-> "queued", attempts |-> 0]
      <3>1. tasks'[j].rows = Append(tasks[j].rows, r)
        BY <2>1, <2>2 DEF handleQueueJob, createJob, SchedInv, TasksInv
      <3>2. r \in Row /\ r.by = "manual"
        BY DEF Row
      <3> HIDE DEF r
      <3>3. Last(tasks'[j].rows) = r
        BY <1>0, <3>1, <3>2, Appended DEF Last
      <3> QED
        BY <3>2, <3>3
    <2>3. CASE j # Asked(b)
      <3>1. tasks'[j] = tasks[j]
        BY <2>1, <2>3 DEF handleQueueJob, createJob, SchedInv, TasksInv
      <3> QED
        BY <1>0, <3>1
    <2> QED
      BY <2>2, <2>3
  <1>6. CASE Requeue \/ \E w \in Arch : Claim(w) \/ CompleteJob(w) \/ FailJob(w) \/ Die(w)
    <2>1. Len(tasks'[j].rows) <= Len(tasks[j].rows)
      BY <1>6, TasksRequeue, TasksClaim, TasksReport DEF SchedInv
    <2>2. Len(tasks'[j].rows) \in Nat
      <3>1. TasksInv' /\ UNCHANGED env
        BY <1>6, TasksRequeue, TasksClaim, TasksReport DEF SchedInv
      <3> QED
        BY <3>1 DEF TasksInv
    <2> QED
      BY <1>0, <2>1, <2>2
  <1> QED
    BY <1>1, <1>2, <1>3, <1>4, <1>5, <1>6, SchedSplit

\* Scheduler!PausedWhileUp: while the cost guard is up no step of the scheduler
\* adds a task of a kind that writes, not even in the tick that raised it.
THEOREM GuardPauses == Spec => PausedWhileUp
  <1>1. SchedInv /\ [Next]_vars =>
          [\A j \in Jobs : (settings.guard /\ j.kind \in Writers /\ Len(tasks'[j].rows) > Len(tasks[j].rows))
                              => Last(tasks'[j].rows).by = "manual"]_schedVars
    <2> SUFFICES ASSUME SchedInv, [Next]_vars, ~UNCHANGED schedVars, NEW j \in Jobs,
                        settings.guard, j.kind \in Writers, Len(tasks'[j].rows) > Len(tasks[j].rows)
                 PROVE  Last(tasks'[j].rows).by = "manual"
      OBVIOUS
    <2>1. SchedNext
      BY NextIsSched DEF vars
    <2>2. j \in JobsOf(env)
      BY DEF SchedInv, TasksInv, Jobs
    <2>3. ~(Create /\ j = tick.due)
      BY DEF Create, SchedInv, TickInv, GuardOK
    <2> QED
      BY <2>1, <2>2, <2>3, WhoAdds
  <1> QED
    BY <1>1, SchedInvariant, PTL DEF PausedWhileUp, Spec

-----------------------------------------------------------------------------
(* What has a slot starts once a day.                                      *)

SlotOf(j) == RuleOf(j).slot
LastOf(j) == IF j = Workflow THEN runs.last ELSE tasks[j].last

AnyRuns     == [running : BOOLEAN, last : 0 .. Old]
AnyEvents(d) == [dispatched : [OnceADay(d) -> {0, 1}], metrics : 0 .. Old]

\* What was dispatched today has a run since its slot, so that it is not due
\* again before midnight; what is due was not dispatched.
DayInv ==
    /\ runs \in AnyRuns
    /\ events \in AnyEvents(env)
    /\ \A j \in OnceADay(env) : events.dispatched[j] = 1 => SlotOf(j) <= minute /\ LastOf(j) <= minute - SlotOf(j)
    /\ tick.due # None /\ tick.due \in OnceADay(env) => events.dispatched[tick.due] = 0 /\ SlotOf(tick.due) <= minute

LEMMA SlotOfADay ==
  ASSUME NEW d, NEW j \in OnceADay(d)
  PROVE  SlotOf(j) \in 0 .. 1400 /\ (j # Workflow => j \in Scheduled(d) /\ j \in JobsOf(d))
  <1>1. CASE j = Workflow
    BY <1>1, RuleOfJob DEF SlotOf
  <1>2. CASE j # Workflow
    <2>1. j \in Scheduled(d) /\ SlotOf(j) # None
      BY <1>2 DEF OnceADay, SlotOf
    <2>2. PICK s \in JobSlots : j = JobAt(s)
      BY <2>1 DEF Scheduled
    <2> QED
      BY <2>1, <2>2, RuleOfJob DEF SlotOf, JobsOf
  <1> QED
    BY <1>1, <1>2

\* A job of the rules is not the workflow.
LEMMA DueIsNotWorkflow ==
  ASSUME SchedInv, tick.due # None
  PROVE  tick.due # Workflow /\ tick.due \in JobsOf(env)
  <1>1. PICK s \in JobSlots : tick.due = JobAt(s)
    BY DEF SchedInv, TickInv, TickOK, SlotJobs
  <1> QED
    BY <1>1, RuleOfJob, DueIsJob DEF SchedInv

LEMMA LastIsAge ==
  ASSUME SchedInv, DayInv, NEW j \in OnceADay(env)
  PROVE  LastOf(j) \in 0 .. Old
  BY SlotOfADay DEF LastOf, SchedInv, TasksInv, DayInv, AnyRuns

\* A step that starts nothing of the rules, or only makes the latest run newer.
LEMMA DaySteady ==
  ASSUME SchedInv, DayInv, UNCHANGED <<env, minute>>, tick'.due \in {None, tick.due},
         events' \in AnyEvents(env), events'.dispatched = events.dispatched,
         runs' \in AnyRuns, runs'.last \in {0, runs.last},
         \A j \in JobsOf(env) : tasks'[j].last \in {0, tasks[j].last}
  PROVE  DayInv'
  <1>1. minute \in 0 .. 1439
    <2>1. env.minutes \subseteq 0 .. 1439
      BY SchedulerAssumption DEF SchedInv, EnvInv
    <2> QED
      BY <2>1 DEF SchedInv, EnvInv
  <1>2. ASSUME NEW j \in OnceADay(env), events'.dispatched[j] = 1
        PROVE  SlotOf(j) <= minute /\ LastOf(j)' <= minute - SlotOf(j)
    <2>1. SlotOf(j) <= minute /\ LastOf(j) <= minute - SlotOf(j) /\ SlotOf(j) \in 0 .. 1400
      BY <1>2, SlotOfADay DEF DayInv
    <2>2. LastOf(j)' \in {0, LastOf(j)}
      BY SlotOfADay DEF LastOf
    <2> QED
      BY <1>1, <2>1, <2>2
  <1> QED
    BY <1>2 DEF DayInv, SlotOf, AnyEvents, AnyRuns

LEMMA DayAside ==
  ASSUME SchedInv, DayInv, TasksAside, ~(DispatchWorkflow /\ runs' # runs)
  PROVE  DayInv'
  <1> USE DEF bookVars, worldVars, jobVars
  <1>1. UNCHANGED <<env, tasks, minute>> /\ tick'.due \in {None, tick.due}
    BY AsideLeaves DEF SchedInv
  <1>2. events' \in AnyEvents(env) /\ events'.dispatched = events.dispatched
    <2>1. CASE snapshotMetrics
      BY <2>1 DEF snapshotMetrics, DayInv, AnyEvents, Old
    <2>2. CASE DispatchWorkflow
      <3>1. UNCHANGED events
        BY <2>2 DEF DispatchWorkflow, dispatch, recentRuns, isDue, DayInv, AnyRuns
      <3> QED
        BY <3>1 DEF DayInv
    <2>3. CASE ~(snapshotMetrics \/ DispatchWorkflow)
      <3>1. UNCHANGED events
        BY <2>3 DEF TasksAside, World, Tick, TickEnds, Provenance, ProvenanceMark, dailyCost, dailyAudience, costGuard,
                    TickCut, Spend, LiftGuard, Push, WorkflowRuns
      <3> QED
        BY <3>1 DEF DayInv
    <2> QED
      BY <2>1, <2>2, <2>3
  <1>3. runs' \in AnyRuns /\ runs'.last \in {0, runs.last}
    <2>1. CASE WorkflowRuns
      <3>1. runs' \in {[runs EXCEPT !.running = FALSE], [running |-> TRUE, last |-> 0]}
        BY <2>1 DEF WorkflowRuns
      <3>2. runs \in AnyRuns /\ 0 \in 0 .. Old
        BY DEF DayInv, Old
      <3>3. CASE runs' = [runs EXCEPT !.running = FALSE]
        BY <3>2, <3>3 DEF AnyRuns
      <3>4. CASE runs' = [running |-> TRUE, last |-> 0]
        BY <3>2, <3>4 DEF AnyRuns
      <3> QED
        BY <3>1, <3>3, <3>4
    <2>2. CASE ~WorkflowRuns
      <3>1. UNCHANGED runs
        BY <2>2 DEF TasksAside, World, Tick, TickEnds, Provenance, ProvenanceMark, snapshotMetrics, dailyCost, dailyAudience,
                    costGuard, TickCut, Spend, LiftGuard, Push
      <3> QED
        BY <3>1 DEF DayInv
    <2> QED
      BY <2>1, <2>2
  <1> QED
    BY <1>1, <1>2, <1>3, DaySteady

LEMMA DayWorkflow ==
  ASSUME SchedInv, SchedInv', DayInv, DispatchWorkflow, runs' # runs
  PROVE  DayInv'
  <1> USE DEF bookVars, worldVars, jobVars
  <1>1. UNCHANGED <<env, tasks, minute>> /\ tick'.due \in {None, tick.due}
    BY AsideLeaves DEF SchedInv, TasksAside
  <1>2. isDue(WorkflowRule, runs.running, runs.last) /\ runs' = [running |-> TRUE, last |-> 0] /\ events' = Journalled(Workflow)
    BY DEF DispatchWorkflow, dispatch, recentRuns
  <1>3. SlotOf(Workflow) = 345 /\ WorkflowRule.slot = 345 /\ Workflow \in OnceADay(env)
    BY RuleOfJob DEF SlotOf, WorkflowRule, Rule, OnceADay
  <1>4. minute >= 355 /\ runs.last > minute - 345
    BY <1>2, <1>3, SchedulerAssumption DEF isDue
  <1>5. minute \in 0 .. 1439 /\ runs.last \in 0 .. Old
    <2>1. env.minutes \subseteq 0 .. 1439
      BY SchedulerAssumption DEF SchedInv, EnvInv
    <2> QED
      BY <2>1 DEF SchedInv, EnvInv, DayInv, AnyRuns
  <1>6. events.dispatched[Workflow] = 0
    <2>1. events.dispatched[Workflow] \in {0, 1}
      BY <1>3 DEF DayInv, AnyEvents
    <2>2. events.dispatched[Workflow] = 1 => runs.last <= minute - 345
      BY <1>3 DEF DayInv, LastOf
    <2> QED
      BY <1>4, <1>5, <2>1, <2>2
  <1>7. /\ events' \in AnyEvents(env) /\ events'.dispatched[Workflow] = 1
        /\ \A j \in OnceADay(env) : j # Workflow => events'.dispatched[j] = events.dispatched[j]
    BY <1>2, <1>3, <1>6 DEF Journalled, DayInv, AnyEvents
  <1>8. runs' \in AnyRuns /\ runs'.last = 0
    BY <1>2 DEF AnyRuns, Old
  <1>9. ASSUME NEW j \in OnceADay(env), events'.dispatched[j] = 1
        PROVE  SlotOf(j) <= minute /\ LastOf(j)' <= minute - SlotOf(j)
    <2>1. CASE j = Workflow
      BY <1>3, <1>4, <1>5, <1>8, <2>1 DEF LastOf
    <2>2. CASE j # Workflow
      BY <1>1, <1>7, <1>9, <2>2 DEF DayInv, LastOf
    <2> QED
      BY <2>1, <2>2
  <1>10. tick'.due # None => tick'.due # Workflow
    BY <1>1, DueIsNotWorkflow
  <1> QED
    BY <1>1, <1>7, <1>8, <1>9, <1>10 DEF DayInv, SlotOf

LEMMA DayConsider ==
  ASSUME SchedInv, DayInv, Consider
  PROVE  DayInv'
  <1>1. UNCHANGED <<env, minute, tasks, events, runs>>
    BY DEF Consider, worldVars, jobVars
  <1>2. CASE tick'.due \in {None, tick.due}
    <2>1. /\ events' \in AnyEvents(env) /\ events'.dispatched = events.dispatched
          /\ runs' \in AnyRuns /\ runs'.last \in {0, runs.last}
      BY <1>1 DEF DayInv
    <2> QED
      BY <1>1, <1>2, <2>1, DaySteady
  <1>3. CASE tick'.due \notin {None, tick.due}
    <2>1. PICK s \in tick.jobs : tick' = [tick EXCEPT !.jobs = @ \ {s}, !.due = IF DueJob(JobAt(s)) THEN JobAt(s) ELSE None]
      BY <1>3 DEF Consider, Go, SchedInv, TickInv, TickOK
    <2>2. tick'.due = JobAt(s) /\ DueJob(JobAt(s))
      BY <1>3, <2>1 DEF SchedInv, TickInv, TickOK
    <2> DEFINE j == JobAt(s)
    <2>3. j \in JobsOf(env) /\ j # Workflow /\ j \in Scheduled(env)
      BY <2>1, RuleOfJob DEF SchedInv, TickInv, TickOK, JobsOf, Scheduled
    <2>4. j \in Alike(j)
      BY <2>3 DEF Alike, Jobs, SchedInv, TasksInv
    <2>5. isDue(RuleOf(j), tasks[j].rows # <<>>, tasks[j].last)
      BY <2>2, <2>4 DEF DueJob
    <2> HIDE DEF j
    <2>6. ASSUME j \in OnceADay(env)
          PROVE  events.dispatched[j] = 0 /\ SlotOf(j) <= minute
      <3>1. PICK n \in 0 .. 1400 : n = SlotOf(j)
        BY <2>6, SlotOfADay
      <3>2. PICK l, m : l = tasks[j].last /\ m = minute
        OBVIOUS
      <3>3. n # None /\ RuleOf(j).slot = n
        <4>1. n \in Nat /\ RuleOf(j).slot = n
          BY <3>1 DEF SlotOf
        <4> QED
          BY <4>1, SchedulerAssumption
      <3>4. m >= n + 10 /\ l > m - n
        BY <2>5, <3>2, <3>3 DEF isDue
      <3>5. m \in 0 .. 1439
        <4>1. env.minutes \subseteq 0 .. 1439
          BY SchedulerAssumption DEF SchedInv, EnvInv
        <4> QED
          BY <3>2, <4>1 DEF SchedInv, EnvInv
      <3>6. l \in 0 .. Old
        BY <2>3, <3>2 DEF SchedInv, TasksInv
      <3>7. events.dispatched[j] \in {0, 1}
        BY <2>6 DEF DayInv, AnyEvents
      <3>8. events.dispatched[j] = 1 => l <= m - n
        BY <2>3, <2>6, <3>1, <3>2 DEF DayInv, LastOf
      <3>9. n <= m /\ ~(l <= m - n)
        BY <3>4, <3>5, <3>6
      <3> QED
        BY <3>1, <3>2, <3>7, <3>8, <3>9
    <2>7. tick'.due = j
      BY <2>2 DEF j
    <2> QED
      BY <1>1, <2>6, <2>7 DEF DayInv, LastOf, SlotOf
  <1> QED
    BY <1>2, <1>3

LEMMA DayCreate ==
  ASSUME SchedInv, DayInv, Create
  PROVE  DayInv'
  <1> DEFINE j == tick.due
  <1>1. UNCHANGED <<env, minute, runs>> /\ j # None
    BY DEF Create, worldVars
  <1>2. j \in JobsOf(env) /\ j # Workflow
    BY <1>1, DueIsNotWorkflow
  <1>3. tick'.due = None
    <2>1. CASE tick' = Ended
      BY <2>1 DEF Ended, Idle
    <2>2. CASE tick' = [tick EXCEPT !.due = None]
      BY <2>2 DEF SchedInv, TickInv, TickOK
    <2> QED
      BY <2>1, <2>2 DEF Create
  <1>4. tasks'[j].last = 0 /\ \A k \in JobsOf(env) : k # j => tasks'[k] = tasks[k]
    BY <1>2 DEF Create, createJob, SchedInv, TasksInv
  <1>5. events' = events \/ events' = Journalled(j)
    BY DEF Create
  <1>6. j \in OnceADay(env) => events.dispatched[j] = 0 /\ SlotOf(j) <= minute
    BY <1>1 DEF DayInv
  <1> HIDE DEF j
  <1>7. /\ events' \in AnyEvents(env)
        /\ \A k \in OnceADay(env) : k # j => events'.dispatched[k] = events.dispatched[k]
    BY <1>5, <1>6 DEF Journalled, DayInv, AnyEvents
  <1>8. ASSUME NEW k \in OnceADay(env), events'.dispatched[k] = 1
        PROVE  SlotOf(k) <= minute /\ LastOf(k)' <= minute - SlotOf(k)
    <2>1. CASE k = j
      <3>1. LastOf(k)' = 0 /\ SlotOf(k) <= minute
        BY <1>2, <1>4, <1>6, <2>1 DEF LastOf
      <3>2. SlotOf(k) \in 0 .. 1400 /\ minute \in 0 .. 1439
        <4>1. env.minutes \subseteq 0 .. 1439
          BY SchedulerAssumption DEF SchedInv, EnvInv
        <4> QED
          BY <4>1, SlotOfADay DEF SchedInv, EnvInv
      <3> QED
        BY <3>1, <3>2
    <2>2. CASE k # j
      <3>1. events.dispatched[k] = 1
        BY <1>7, <1>8, <2>2
      <3>2. LastOf(k)' = LastOf(k)
        BY <1>1, <1>4, <2>2, SlotOfADay DEF LastOf
      <3> QED
        BY <3>1, <3>2 DEF DayInv
    <2> QED
      BY <2>1, <2>2
  <1>9. runs' \in AnyRuns
    BY <1>1 DEF DayInv
  <1> QED
    BY <1>1, <1>3, <1>7, <1>8, <1>9 DEF DayInv, SlotOf

LEMMA DayClock ==
  ASSUME SchedInv, DayInv, Clock
  PROVE  DayInv'
  <1>1. /\ minute' \in 0 .. 1439 /\ minute \in 0 .. 1439 /\ (minute' > minute \/ minute' = 0)
        /\ Lapse \in Nat /\ (minute' > minute => Lapse = minute' - minute)
    BY ClockGoes DEF SchedInv, EnvInv
  <1>2. UNCHANGED env /\ \A j \in JobsOf(env) : tasks'[j].last = Later(tasks[j].last, Lapse)
    BY TasksClock DEF SchedInv, EnvInv
  <1>3. tick'.due = None
    BY DEF Clock, Idle
  <1>4. runs' = [runs EXCEPT !.last = Later(@, Lapse)]
    BY DEF Clock, Lapse
  <1>5. /\ events'.dispatched = [j \in DOMAIN events.dispatched |-> IF minute' = 0 THEN 0 ELSE events.dispatched[j]]
        /\ events'.metrics = Later(events.metrics, Lapse)
        /\ events' = [dispatched |-> events'.dispatched, metrics |-> events'.metrics]
    BY DEF Clock, Lapse
  <1>6. runs' \in AnyRuns /\ runs'.last = Later(runs.last, Lapse)
    BY <1>1, <1>4, AgeOfLater DEF DayInv, AnyRuns
  <1>7. events' \in AnyEvents(env)
    <2>1. events'.metrics \in 0 .. Old
      BY <1>1, <1>5, AgeOfLater DEF DayInv, AnyEvents
    <2>2. events'.dispatched \in [OnceADay(env) -> {0, 1}]
      BY <1>5 DEF DayInv, AnyEvents
    <2> QED
      BY <1>5, <2>1, <2>2 DEF AnyEvents
  <1>8. ASSUME NEW j \in OnceADay(env), events'.dispatched[j] = 1
        PROVE  SlotOf(j) <= minute' /\ LastOf(j)' <= minute' - SlotOf(j)
    <2>1. minute' # 0 /\ events.dispatched[j] = 1
      BY <1>5, <1>8 DEF DayInv, AnyEvents
    <2>2. SlotOf(j) <= minute /\ LastOf(j) <= minute - SlotOf(j) /\ SlotOf(j) \in 0 .. 1400
      BY <2>1, SlotOfADay DEF DayInv
    <2>3. LastOf(j)' = Later(LastOf(j), Lapse)
      BY <1>2, <1>6, SlotOfADay DEF LastOf
    <2>4. PICK a, b, m, n, k : a = LastOf(j) /\ b = LastOf(j)' /\ m = minute /\ n = minute' /\ k = SlotOf(j)
      OBVIOUS
    <2>5. a \in 0 .. Old
      BY <2>4, LastIsAge
    <2>6. b <= a + Lapse /\ b \in 0 .. Old
      BY <1>1, <2>3, <2>4, <2>5, AgeOfLater
    <2>7. Lapse = n - m /\ m \in 0 .. 1439 /\ n \in 0 .. 1439 /\ n > m
      <3>1. minute' > minute
        BY <1>1, <2>1
      <3>2. Lapse = minute' - minute
        BY <1>1, <3>1
      <3>3. minute \in 0 .. 1439 /\ minute' \in 0 .. 1439
        BY <1>1
      <3> QED
        BY <2>4, <3>1, <3>2, <3>3
    <2>8. k <= m /\ a <= m - k /\ k \in 0 .. 1400
      BY <2>2, <2>4
    <2>9. k <= n /\ b <= n - k
      BY <2>5, <2>6, <2>7, <2>8
    <2> QED
      BY <2>4, <2>9
  <1> QED
    BY <1>2, <1>3, <1>6, <1>7, <1>8 DEF DayInv, SlotOf

LEMMA DayInvNext ==
  ASSUME SchedInv, SchedInv', DayInv, [Next]_vars
  PROVE  DayInv'
  <1>1. CASE SchedNext /\ TasksAside
    BY <1>1, DayAside, DayWorkflow
  <1>2. CASE SchedNext /\ Consider
    BY <1>2, DayConsider
  <1>3. CASE SchedNext /\ Create
    BY <1>3, DayCreate
  <1>4. CASE SchedNext /\ Clock
    BY <1>4, DayClock
  <1>5. CASE SchedNext /\ Requeue
    <2>1. /\ events' \in AnyEvents(env) /\ events'.dispatched = events.dispatched
          /\ runs' \in AnyRuns /\ runs'.last \in {0, runs.last}
      BY <1>5, TasksRequeue DEF SchedInv, DayInv
    <2> QED
      BY <1>5, <2>1, TasksRequeue, DaySteady DEF SchedInv
  <1>6. CASE SchedNext /\ \E b : handleQueueJob(b)
    <2>1. PICK b : handleQueueJob(b)
      BY <1>6
    <2>2. UNCHANGED <<env, minute, tick, events, runs>>
      BY <2>1 DEF handleQueueJob, worldVars
    <2>3. \A k \in JobsOf(env) : tasks'[k].last \in {0, tasks[k].last}
      BY <2>1 DEF handleQueueJob, createJob, SchedInv, TasksInv
    <2>4. /\ events' \in AnyEvents(env) /\ events'.dispatched = events.dispatched
          /\ runs' \in AnyRuns /\ runs'.last \in {0, runs.last}
      BY <2>2 DEF DayInv
    <2> QED
      BY <2>2, <2>3, <2>4, DaySteady
  <1>7. CASE SchedNext /\ \E w \in Arch : Claim(w) \/ CompleteJob(w) \/ FailJob(w) \/ Die(w)
    <2>1. UNCHANGED <<env, minute, tick, events, runs>>
      BY <1>7 DEF Claim, CompleteJob, FailJob, Die, Report, worldVars
    <2>2. \A k \in JobsOf(env) : tasks'[k].last \in {0, tasks[k].last}
      BY <1>7, TasksClaim, TasksReport DEF SchedInv
    <2>3. /\ events' \in AnyEvents(env) /\ events'.dispatched = events.dispatched
          /\ runs' \in AnyRuns /\ runs'.last \in {0, runs.last}
      BY <2>1 DEF DayInv
    <2> QED
      BY <2>1, <2>2, <2>3, DaySteady
  <1>8. CASE UNCHANGED schedVars
    BY <1>8 DEF DayInv, LastOf, schedVars
  <1> QED
    BY <1>1, <1>2, <1>3, <1>4, <1>5, <1>6, <1>7, <1>8, NextIsSched, SchedSplit DEF vars

LEMMA DayInvInit ==
  ASSUME PipelineInit
  PROVE  DayInv
  <1>1. Init
    BY DEF PipelineInit
  <1>2. /\ events = [dispatched |-> [j \in OnceADay(env) |-> 0], metrics |-> Old] /\ runs = [running |-> FALSE, last |-> Old]
        /\ tick.due = None
    BY <1>1 DEF Init, Idle
  <1>3. events.dispatched = [j \in OnceADay(env) |-> 0]
    BY <1>2
  <1>4. \A j \in OnceADay(env) : events.dispatched[j] = 0
    BY <1>3
  <1>5. Old \in 0 .. Old
    BY DEF Old
  <1>6. runs \in AnyRuns /\ events \in AnyEvents(env)
    BY <1>2, <1>5 DEF AnyRuns, AnyEvents
  <1> QED
    BY <1>2, <1>4, <1>6 DEF DayInv

\* Scheduler!ScheduledOnce: whatever dies, is requeued or is queued by hand, no
\* job of the rules has two tasks of the scheduler, and what has a slot is
\* dispatched at most once between two midnights.
THEOREM StartsOnce == Spec => []ScheduledOnce
  <1>1. SchedInv /\ DayInv => ScheduledOnce
    <2> SUFFICES ASSUME SchedInv, DayInv PROVE ScheduledOnce
      OBVIOUS
    <2>1. ASSUME NEW j \in Jobs
          PROVE  Cardinality({i \in DOMAIN tasks[j].rows : tasks[j].rows[i].by = "scheduled"}) <= 1
      <3> DEFINE S == {i \in DOMAIN tasks[j].rows : tasks[j].rows[i].by = "scheduled"}
      <3>1. Single(tasks[j].rows)
        BY <2>1 DEF SchedInv, TasksInv, Jobs
      <3>2. \A k, l \in S : k = l
        BY <3>1 DEF Single
      <3> SUFFICES Cardinality(S) <= 1
        OBVIOUS
      <3> HIDE DEF S
      <3>3. CASE S = {}
        <4>1. Cardinality(S) = 0
          BY <3>3, FS_EmptySet
        <4> QED
          BY <4>1
      <3>4. CASE S # {}
        <4>1. PICK k \in S : S = {k}
          BY <3>2, <3>4
        <4>2. Cardinality(S) = 1
          BY <4>1, FS_Singleton
        <4> QED
          BY <4>2
      <3> QED
        BY <3>3, <3>4
    <2>2. \A j \in DOMAIN events.dispatched : events.dispatched[j] <= 1
      BY DEF DayInv, AnyEvents
    <2> QED
      BY <2>1, <2>2 DEF ScheduledOnce
  <1>2. Spec => []DayInv
    BY DayInvInit, DayInvNext, SchedInvariant, PTL DEF Spec
  <1> QED
    BY <1>1, <1>2, SchedInvariant, PTL

-----------------------------------------------------------------------------
(* The day's scan of the OPR.                                              *)

\* What the table must say of a package, given the tree.
Told(o, t) == \A n \in Opr : IF t[n] = None THEN o[n] = None ELSE o[n] # None /\ o[n].blob = t[n].blob

\* From a complete scan to its mark nothing else writes the table.
ScanInv ==
    /\ repo \in [Opr -> env.recipes \cup {None}]
    /\ "provenance" \in tick.steps => "mark" \in tick.steps
    /\ scan.complete => "mark" \in tick.steps /\ "provenance" \notin tick.steps /\ Told(opr, scan.tree)

\* More packages, more fetches.
LEMMA FetchesGrow ==
  ASSUME NEW S, NEW T, S \subseteq T, T \subseteq Opr
  PROVE  Fetches(S) \in Nat /\ Fetches(T) \in Nat /\ Fetches(S) <= Fetches(T)
  <1> DEFINE M(U) == {n \in U : repo[n].meta # None}
  <1>1. IsFiniteSet(Opr)
    BY SchedulerAssumption
  <1>2. IsFiniteSet(T) /\ IsFiniteSet(S)
    BY <1>1, FS_Subset
  <1>3. M(S) \subseteq M(T) /\ M(T) \subseteq T
    OBVIOUS
  <1> HIDE DEF M
  <1>4. IsFiniteSet(M(T)) /\ IsFiniteSet(M(S))
    BY <1>2, <1>3, FS_Subset
  <1>5. Cardinality(S) <= Cardinality(T) /\ Cardinality(M(S)) <= Cardinality(M(T))
    BY <1>2, <1>3, <1>4, FS_Subset
  <1>6. /\ Cardinality(S) \in Nat /\ Cardinality(T) \in Nat
        /\ Cardinality(M(S)) \in Nat /\ Cardinality(M(T)) \in Nat
    BY <1>2, <1>4, FS_CardinalityType
  <1>7. Fetches(S) = Cardinality(S) + Cardinality(M(S)) /\ Fetches(T) = Cardinality(T) + Cardinality(M(T))
    BY DEF Fetches, M
  <1> QED
    BY <1>5, <1>6, <1>7

\* A scan that did not use up its fetches left no package out.
LEMMA CompleteTakesAll ==
  ASSUME Complete
  PROVE  Taken = Changed
  <1>1. Changed \subseteq Opr /\ Taken \subseteq Changed
    BY DEF Changed, Taken
  <1> SUFFICES ASSUME Changed \ Taken # {} PROVE FALSE
    BY <1>1
  <1>2. Changed \ Taken \in SUBSET Nat
    BY <1>1, SchedulerAssumption
  <1>3. PICK m \in Changed \ Taken : \A k \in Changed \ Taken : m <= k
    BY <1>2, LeastExists
  <1> DEFINE B == {k \in Changed : k < m}
  <1>4. B \subseteq Taken
    <2> SUFFICES ASSUME NEW k \in Changed, k < m, k \notin Taken PROVE FALSE
      OBVIOUS
    <2>1. m <= k /\ m \in Nat /\ k \in Nat
      BY <1>1, <1>2, <1>3
    <2> QED
      BY <2>1
  <1> HIDE DEF B
  <1>5. Fetches(B) \in Nat /\ Fetches(Taken) \in Nat /\ Fetches(B) <= Fetches(Taken)
    BY <1>1, <1>4, FetchesGrow
  <1>6. Fetches(Taken) < FetchBudget /\ FetchBudget \in Nat
    BY SchedulerAssumption DEF Complete
  <1>7. Fetches(B) < FetchBudget
    BY <1>5, <1>6
  <1>8. m \in Taken
    BY <1>3, <1>7 DEF Taken, B
  <1> QED
    BY <1>3, <1>8

LEMMA ScannedIsTold ==
  ASSUME SchedInv, ScanInv, NEW n \in Opr, repo[n] # None, NEW got \in BOOLEAN
  PROVE  Scanned(n, got) # None /\ Scanned(n, got).blob = repo[n].blob
  <1>1. repo[n] \in env.recipes /\ env \in Deployments
    BY DEF ScanInv, SchedInv, EnvInv
  <1>2. Scanned(n, got).blob = repo[n].blob
    BY DEF Scanned
  <1>3. Scanned(n, got) \in {[blob |-> repo[n].blob, source |-> repo[n].meta], [blob |-> repo[n].blob, source |-> "unknown"]}
    BY DEF Scanned
  <1>4. None \notin {[blob |-> repo[n].blob, source |-> repo[n].meta], [blob |-> repo[n].blob, source |-> "unknown"]}
    BY <1>1, SchedulerAssumption
  <1> QED
    BY <1>2, <1>3, <1>4

LEMMA ScanProvenance ==
  ASSUME SchedInv, ScanInv, Provenance
  PROVE  ScanInv'
  <1>1. UNCHANGED <<env, repo>>
    BY DEF Provenance, worldVars
  <1>2. "provenance" \in tick.steps /\ ~scan.complete /\ "mark" \in tick.steps
    BY DEF Provenance, At, ScanInv
  <1>3. CASE tick' = [tick EXCEPT !.steps = @ \ {"provenance", "mark"}] /\ UNCHANGED <<opr, scan>>
    <2>1. tick'.steps = tick.steps \ {"provenance", "mark"}
      BY <1>3 DEF SchedInv, TickInv, TickOK
    <2> QED
      BY <1>1, <1>2, <1>3, <2>1 DEF ScanInv
  <1>4. CASE tick' = Ended /\ scan' = scan
    <2>1. tick'.steps = {}
      BY <1>4 DEF Ended, Idle
    <2> QED
      BY <1>1, <1>2, <1>4, <2>1 DEF ScanInv
  <1>5. CASE \E lost \in SUBSET Taken :
               /\ opr' = [n \in Opr |-> IF n \in Taken THEN Scanned(n, n \notin lost) ELSE IF repo[n] = None THEN None ELSE opr[n]]
               /\ scan' = [tree |-> repo, complete |-> Complete]
               /\ Go("provenance")
    <2>1. PICK lost \in SUBSET Taken :
               /\ opr' = [n \in Opr |-> IF n \in Taken THEN Scanned(n, n \notin lost) ELSE IF repo[n] = None THEN None ELSE opr[n]]
               /\ scan' = [tree |-> repo, complete |-> Complete]
               /\ Go("provenance")
      BY <1>5
    <2>2. tick'.steps = tick.steps \ {"provenance"}
      BY <2>1 DEF Go, SchedInv, TickInv, TickOK
    <2>3. scan'.tree = repo /\ scan'.complete = Complete
      BY <2>1
    <2>4. ASSUME Complete, NEW n \in Opr
          PROVE  IF repo[n] = None THEN opr'[n] = None ELSE opr'[n] # None /\ opr'[n].blob = repo[n].blob
      <3>1. Taken = Changed
        BY <2>4, CompleteTakesAll
      <3>2. opr'[n] = IF n \in Changed THEN Scanned(n, n \notin lost) ELSE IF repo[n] = None THEN None ELSE opr[n]
        BY <2>1, <3>1
      <3>3. CASE n \in Changed
        <4>1. repo[n] # None
          BY <3>3 DEF Changed
        <4>2. Scanned(n, n \notin lost) # None /\ Scanned(n, n \notin lost).blob = repo[n].blob
          BY <4>1, ScannedIsTold
        <4> QED
          BY <3>2, <3>3, <4>1, <4>2
      <3>4. CASE n \notin Changed
        BY <3>2, <3>4 DEF Changed
      <3> QED
        BY <3>3, <3>4
    <2>5. scan'.complete => Told(opr', scan'.tree)
      BY <2>3, <2>4 DEF Told
    <2> QED
      BY <1>1, <1>2, <2>2, <2>5 DEF ScanInv
  <1> QED
    BY <1>3, <1>4, <1>5 DEF Provenance

\* A step that leaves the scan to itself, and one with which the tick is over.
LEMMA ScanRests ==
  ASSUME ScanInv, UNCHANGED <<env, opr, scan>>, repo' \in [Opr -> env.recipes \cup {None}],
         "provenance" \in tick'.steps <=> "provenance" \in tick.steps,
         "mark" \in tick'.steps <=> "mark" \in tick.steps
  PROVE  ScanInv'
  BY DEF ScanInv

LEMMA ScanIsOver ==
  ASSUME ScanInv, UNCHANGED <<env, opr, repo>>, ~scan'.complete, tick'.steps = {}
  PROVE  ScanInv'
  BY DEF ScanInv

\* The marks come before the jobs.
LEMMA MarkFirst == At("jobs") => "mark" \notin tick.steps
  <1> SUFFICES ASSUME At("jobs"), "mark" \in tick.steps PROVE FALSE
    OBVIOUS
  <1>1. Order[3] = "mark" /\ 3 \in DOMAIN Order
    BY DEF Order
  <1>2. \A i \in 1 .. 3 : Order[i] # "jobs"
    BY DEF Order
  <1> QED
    BY <1>1, <1>2 DEF At

LEMMA ScanInvInit ==
  ASSUME PipelineInit
  PROVE  ScanInv
  <1>1. tick = Idle /\ scan = NoScan /\ repo = [n \in Opr |-> None]
    BY DEF PipelineInit, Init
  <1> QED
    BY <1>1 DEF Idle, NoScan, ScanInv

LEMMA ScanInvNext ==
  ASSUME SchedInv, ScanInv, [Next]_vars
  PROVE  ScanInv'
  <1> USE DEF bookVars, worldVars, jobVars
  <1>0. repo \in [Opr -> env.recipes \cup {None}]
    BY DEF ScanInv
  <1>00. \A x : Go(x) => tick'.steps = tick.steps \ {x}
    BY DEF Go, SchedInv, TickInv, TickOK
  <1>1. CASE Tick
    <2>1. tick.steps = {} /\ UNCHANGED <<env, opr, scan, repo>>
      BY <1>1 DEF Tick, SchedInv, TickInv, TickOK
    <2>2. tick'.steps = Steps
      BY <1>1 DEF Tick, Idle
    <2> QED
      BY <2>1, <2>2, StepsOfTick DEF ScanInv
  <1>2. CASE TickEnds
    <2>1. ~scan.complete /\ tick'.steps = {} /\ UNCHANGED <<env, opr, scan, repo>>
      BY <1>2 DEF TickEnds, ScanInv, Ended, Idle
    <2> QED
      BY <2>1, ScanIsOver
  <1>3. CASE TickCut
    <2>1. ~scan'.complete /\ tick'.steps = {} /\ UNCHANGED <<env, opr, repo>>
      BY <1>3 DEF TickCut, NoScan, Ended, Idle
    <2> QED
      BY <2>1, ScanIsOver
  <1>4. CASE Clock
    <2>1. ~scan.complete /\ tick'.steps = {} /\ UNCHANGED <<env, opr, scan, repo>>
      BY <1>4 DEF Clock, ScanInv, Idle, SchedInv, TickInv, TickOK
    <2> QED
      BY <2>1, ScanIsOver
  <1>5. CASE Provenance
    BY <1>5, ScanProvenance
  <1>6. CASE ProvenanceMark
    <2>1. ~scan'.complete /\ UNCHANGED <<env, opr, repo>>
      BY <1>6 DEF ProvenanceMark, NoScan
    <2>2. tick'.steps = tick.steps \ {"mark"} /\ "provenance" \notin tick.steps
      BY <1>00, <1>6, AtFirst DEF ProvenanceMark
    <2> QED
      BY <2>1, <2>2 DEF ScanInv
  <1>7. CASE Requeue \/ snapshotMetrics \/ dailyCost \/ dailyAudience \/ DispatchWorkflow
    <2>1. UNCHANGED <<env, opr, scan, repo>>
      BY <1>7 DEF Requeue, snapshotMetrics, dailyCost, dailyAudience, DispatchWorkflow
    <2>2. \/ tick' = tick
          \/ \E x \in {"requeue", "metrics", "cost", "audience", "dispatch"} : Go(x)
      BY <1>7 DEF Requeue, snapshotMetrics, dailyCost, dailyAudience, DispatchWorkflow
    <2> QED
      BY <1>0, <1>00, <2>1, <2>2, ScanRests
  <1>8. CASE costGuard
    <2>1. UNCHANGED <<env, opr, scan, repo>>
      BY <1>8 DEF costGuard
    <2>2. tick'.steps = tick.steps \ {"guard"}
      BY <1>8 DEF costGuard, SchedInv, TickInv, TickOK
    <2> QED
      BY <1>0, <2>1, <2>2, ScanRests
  <1>9. CASE Consider
    <2>1. UNCHANGED <<env, opr, scan, repo>>
      BY <1>9 DEF Consider
    <2>2. tick'.steps \in {tick.steps, tick.steps \ {"jobs"}}
      BY <1>00, <1>9 DEF Consider, SchedInv, TickInv, TickOK
    <2> QED
      BY <1>0, <2>1, <2>2, ScanRests
  <1>10. CASE Create
    <2>1. UNCHANGED <<env, opr, scan, repo>> /\ ~scan.complete
      BY <1>10, MarkFirst DEF Create, ScanInv
    <2>2. CASE tick' = Ended
      <3>1. tick'.steps = {}
        BY <2>2 DEF Ended, Idle
      <3> QED
        BY <2>1, <3>1, ScanIsOver
    <2>3. CASE tick' = [tick EXCEPT !.due = None]
      <3>1. tick'.steps = tick.steps
        BY <2>3 DEF SchedInv, TickInv, TickOK
      <3> QED
        BY <1>0, <2>1, <3>1, ScanRests
    <2> QED
      BY <1>10, <2>2, <2>3 DEF Create
  <1>11. CASE Spend \/ LiftGuard \/ WorkflowRuns \/ \E b : handleQueueJob(b)
    <2>1. UNCHANGED <<env, opr, scan, repo, tick>>
      BY <1>11 DEF Spend, LiftGuard, WorkflowRuns, handleQueueJob
    <2> QED
      BY <1>0, <2>1, ScanRests
  <1>12. CASE Push
    <2>1. UNCHANGED <<env, opr, scan, tick>>
      BY <1>12 DEF Push
    <2>2. repo' \in [Opr -> env.recipes \cup {None}]
      BY <1>0, <1>12 DEF Push
    <2> QED
      BY <2>1, <2>2, ScanRests
  <1>13. CASE \E w \in Arch : Claim(w) \/ CompleteJob(w) \/ FailJob(w) \/ Die(w)
    <2>1. UNCHANGED <<env, opr, scan, repo, tick>>
      BY <1>13 DEF Claim, CompleteJob, FailJob, Die, Report
    <2> QED
      BY <1>0, <2>1, ScanRests
  <1>14. CASE UNCHANGED schedVars
    BY <1>0, <1>14, ScanRests DEF schedVars
  <1> QED
    BY <1>1, <1>2, <1>3, <1>4, <1>5, <1>6, <1>7, <1>8, <1>9, <1>10, <1>11, <1>12, <1>13, <1>14, NextIsSched
       DEF vars, SchedNext, TickStep, World, Hands

\* Scheduler!ProvenanceExact: when a day's scan is marked done the table holds
\* the packages of the tree the scan read, each with its PKGBUILD, and no
\* other, whatever was cut short and whatever was pushed in between.
THEOREM ScanExact == Spec => ProvenanceExact
  <1>1. SchedInv /\ ScanInv /\ [Next]_vars =>
          [("provenance" \in settings'.done \ settings.done) =>
             \A n \in Opr : IF scan.tree[n] = None THEN opr[n] = None ELSE opr[n] # None /\ opr[n].blob = scan.tree[n].blob]_schedVars
    <2> SUFFICES ASSUME SchedInv, ScanInv, [Next]_vars, ~UNCHANGED schedVars, "provenance" \in settings'.done \ settings.done
                 PROVE  Told(opr, scan.tree)
      BY DEF Told
    <2> USE DEF bookVars, worldVars, jobVars
    <2>1. SchedNext
      BY NextIsSched DEF vars
    <2>2. CASE ProvenanceMark
      <3>1. settings' # settings
        OBVIOUS
      <3>2. scan.complete
        BY <2>2, <3>1 DEF ProvenanceMark
      <3> QED
        BY <3>2 DEF ScanInv
    <2>3. CASE dailyCost \/ dailyAudience \/ LiftGuard \/ Clock
      <3>1. settings \in AnySettings
        BY DEF SchedInv, TickInv, GuardOK
      <3>2. "provenance" \notin settings'.done \ settings.done
        BY <2>3, <3>1 DEF dailyCost, dailyAudience, LiftGuard, Clock, AnySettings
      <3> QED
        BY <3>2
    <2>4. CASE ~(ProvenanceMark \/ dailyCost \/ dailyAudience \/ LiftGuard \/ Clock)
      <3>1. UNCHANGED settings
        BY <2>1, <2>4 DEF SchedNext, TickStep, World, Hands, Tick, TickEnds, Requeue, Provenance, snapshotMetrics, costGuard,
                          Consider, Create, DispatchWorkflow, TickCut, Spend, Push, WorkflowRuns, handleQueueJob,
                          Claim, CompleteJob, FailJob, Die, Report
      <3> QED
        BY <3>1
    <2> QED
      BY <2>2, <2>3, <2>4
  <1>2. Spec => []ScanInv
    BY ScanInvInit, ScanInvNext, SchedInvariant, PTL DEF Spec
  <1> QED
    BY <1>1, <1>2, SchedInvariant, PTL DEF ProvenanceExact, Spec

-----------------------------------------------------------------------------
(* The jobs that move rings.                                               *)

LEMMA JobShape ==
  ASSUME OneFastTrack, env \in Deployments, NEW j \in JobsOf(env)
  PROVE  /\ j.kind = "promote" => /\ j.arch = "x86_64" /\ j.params.from \in Ring /\ j.params.to \in Ring
                                  /\ j.params.from # j.params.to /\ (Onward => j.params.to # "edge")
         /\ j.kind = "security" => j.arch = "x86_64"
         /\ j.kind = "sync" => /\ j.arch \in Arch /\ j.params.arch = j.arch
                               /\ j.params.ring \in {None} \cup SYNC_SOURCES[j.arch]
  <1>1. CASE j \in Scheduled(env)
    <2>1. PICK s \in JobSlots : j = JobAt(s)
      BY <1>1 DEF Scheduled
    <2>2. FromRules(j)
      BY <2>1, SlotJob
    <2> QED
      BY <2>2 DEF FromRules, Ring
  <1>2. CASE j \notin Scheduled(env)
    <2>1. PICK b \in env.requests : Accepted(b) /\ j = Asked(b)
      BY <1>2 DEF JobsOf
    <2>2. b.kind = "security" => b.arch # "aarch64"
      BY DEF OneFastTrack
    <2>3. Onward /\ b.kind = "promote" => b.params.to # "edge"
      BY DEF Onward
    <2> QED
      BY <2>1, <2>2, <2>3, AskedJob
  <1> QED
    BY <1>1, <1>2

LEMMA SyncRings ==
  ASSUME NEW j, j.kind = "sync", j.arch \in Arch, j.params.arch = j.arch, j.params.ring \in {None} \cup SYNC_SOURCES[j.arch]
  PROVE  /\ SourceRings(j) \subseteq Ring /\ SourceRings(j) # {}
         /\ j.arch = "aarch64" => SourceRings(j) = {"edge"}
  <1>1. SYNC_SOURCES["x86_64"] = Ring /\ SYNC_SOURCES["aarch64"] = {"edge"}
    BY DEF SYNC_SOURCES
  <1>2. CASE j.arch = "x86_64"
    BY <1>1, <1>2 DEF SourceRings, Ring
  <1>3. CASE j.arch = "aarch64"
    BY <1>1, <1>3 DEF SourceRings, Ring
  <1> QED
    BY <1>2, <1>3 DEF Arch

\* Whoever queues it, a promotion goes from a ring to another.
LEMMA PromoteRings ==
  ASSUME NEW d, NEW j \in JobsOf(d), j.kind = "promote"
  PROVE  j.params.from \in Ring /\ j.params.to \in Ring
  <1>1. CASE j \in Scheduled(d)
    <2>1. PICK s \in JobSlots : j = JobAt(s)
      BY <1>1 DEF Scheduled
    <2>2. FromRules(j)
      BY <2>1, SlotJob
    <2> QED
      BY <2>2 DEF FromRules, Ring
  <1>2. CASE j \notin Scheduled(d)
    <2>1. PICK b \in d.requests : Accepted(b) /\ j = Asked(b)
      BY <1>2 DEF JobsOf
    <2> QED
      BY <2>1, AskedJob
  <1> QED
    BY <1>1, <1>2

-----------------------------------------------------------------------------
(* What is kept of the rings and of the work.                              *)

Sels(d)    == d.pins \cup {1}
Heads(d)   == [Ring -> {None} \cup [sel : Sels(d), sourced : BOOLEAN]]
Promos     == [Ring -> {None} \cup [src : Ring \cup {None}, age : 0 .. Old]]

PromotePcs  == {"gate", "previous", "promote", "align", "render", "check", "failing", "rollback", "rerender", "done"}
SecurityPcs == {"previous", "fast_track", "render", "check", "failing", "rollback", "rerender", "done"}
SyncPcs     == {"pin", "render", "done"}
Pcs         == {"none"} \cup PromotePcs \cup SecurityPcs \cup SyncPcs
Work(d)     == [pc : Pcs, rings : SUBSET Ring, prev : {None} \cup Sels(d), was : {None} \cup Sels(d)]

\* How far a job can be, by its kind.
Fits(j, k) ==
    j # None =>
      /\ k.pc = "rollback" => k.prev # None
      /\ j.kind = "promote" => k.pc \in PromotePcs /\ (k.pc # "done" => k.rings = {j.params.to})
      /\ j.kind = "security" => k.pc \in SecurityPcs
      /\ j.kind = "sync" => k.pc \in SyncPcs /\ k.rings \subseteq SourceRings(j) /\ (k.pc # "done" => k.rings # {})
      /\ j.kind \notin {"promote", "security", "sync"} => k.pc = "done"

\* Past the gate, the ring a promotion comes from has soaked, and soaks on.
Soaked(j, k, p) ==
    (j # None /\ j.kind = "promote" /\ ~j.params.force /\ k.pc \in {"previous", "promote"}) =>
        p[j.params.from] = None \/ p[j.params.from].age >= Soak

\* What a promotion goes back to is what the ring served when it began.
SelIn(h, r) == IF h[r] = None THEN None ELSE h[r].sel
Restores(j, k, h) ==
    (Onward /\ j # None /\ j.kind = "promote") =>
        /\ k.pc \in {"gate", "previous", "rerender"} => SelIn(h, j.params.to) = k.was
        /\ k.pc \in {"promote", "align", "render", "check", "rollback"} => k.prev = k.was

RingsInv ==
    /\ heads \in Heads(env) /\ promo \in Promos /\ work \in [Arch -> Work(env)]
    /\ \A w \in Arch : Fits(busy[w], work[w]) /\ Soaked(busy[w], work[w], promo) /\ Restores(busy[w], work[w], heads)

\* What the other worker may do to the rings under a promotion.
Aside ==
    /\ \A t \in Ring : /\ promo[t] = None => promo'[t] = None
                       /\ promo[t] # None => promo'[t].age = promo[t].age
    /\ \A t \in Ring \ {"edge"} : heads'[t] = heads[t]

\* A step of one worker.
LEMMA OneWorks ==
  ASSUME OneFastTrack, SchedInv, RingsInv, UNCHANGED env, NEW w \in Arch, NEW k \in Work(env),
         work' = [work EXCEPT ![w] = k], \A v \in Arch : v # w => busy'[v] = busy[v],
         heads' \in Heads(env), promo' \in Promos,
         Fits(busy'[w], k), Soaked(busy'[w], k, promo'), Restores(busy'[w], k, heads'),
         w = "aarch64" => Aside
  PROVE  RingsInv'
  <1>1. work' \in [Arch -> Work(env)] /\ work'[w] = k /\ \A v \in Arch : v # w => work'[v] = work[v]
    BY DEF RingsInv
  <1>2. ASSUME NEW v \in Arch
        PROVE  Fits(busy'[v], work'[v]) /\ Soaked(busy'[v], work'[v], promo') /\ Restores(busy'[v], work'[v], heads')
    <2>1. CASE v = w
      BY <1>1, <2>1
    <2>2. CASE v # w
      <3>1. work'[v] = work[v] /\ busy'[v] = busy[v] /\ Fits(busy[v], work[v])
            /\ Soaked(busy[v], work[v], promo) /\ Restores(busy[v], work[v], heads)
        BY <1>1, <2>2 DEF RingsInv
      <3>2. CASE busy[v] # None /\ busy[v].kind = "promote"
        <4> DEFINE j == busy[v]
        <4>1. j \in JobsOf(env) /\ j.arch = v
          BY <3>2 DEF SchedInv, TasksInv
        <4>2. /\ j.arch = "x86_64" /\ j.params.from \in Ring /\ j.params.to \in Ring
              /\ (Onward => j.params.to # "edge")
          BY <3>2, <4>1, JobShape DEF SchedInv, EnvInv
        <4>3. Aside
          BY <2>2, <4>1, <4>2 DEF Arch
        <4> HIDE DEF j
        <4>4. Soaked(j, work[v], promo')
          BY <3>1, <4>2, <4>3 DEF Soaked, Aside, j
        <4>5. Restores(j, work[v], heads')
          BY <3>1, <4>2, <4>3 DEF Restores, SelIn, Aside, j
        <4> QED
          BY <3>1, <4>4, <4>5 DEF j
      <3>3. CASE ~(busy[v] # None /\ busy[v].kind = "promote")
        BY <3>1, <3>3 DEF Soaked, Restores
      <3> QED
        BY <3>2, <3>3
    <2> QED
      BY <2>1, <2>2
  <1> QED
    BY <1>1, <1>2 DEF RingsInv

LEMMA SelTyped ==
  ASSUME RingsInv, NEW r \in Ring
  PROVE  /\ Sel(r) \in {None} \cup Sels(env) /\ Sel(r) = SelIn(heads, r)
         /\ heads[r] # None => Sel(r) \in Sels(env)
  <1>1. heads[r] \in {None} \cup [sel : Sels(env), sourced : BOOLEAN]
    BY DEF RingsInv, Heads
  <1> QED
    BY <1>1 DEF Sel, SelIn

\* A release of one ring.
LEMMA Released ==
  ASSUME SchedInv, RingsInv, NEW r \in Ring, NEW s \in Sels(env), NEW is \in BOOLEAN, NEW src \in Ring \cup {None},
         Release(r, s, is, src)
  PROVE  /\ heads' \in Heads(env) /\ promo' \in Promos /\ SelIn(heads', r) = s
         /\ ~is /\ r = "edge" => Aside
  <1> DEFINE h == [sel |-> s, sourced |-> is]
  <1>1. h \in [sel : Sels(env), sourced : BOOLEAN] /\ h # None /\ h.sel = s
    <2>1. None # [sel |-> s, sourced |-> is]
      BY PipelineAssumption DEF SchedInv, EnvInv, Sels
    <2> QED
      BY <2>1
  <1>2. heads' = [heads EXCEPT ![r] = h]
    BY DEF Release
  <1> HIDE DEF h
  <1>3. heads' \in Heads(env) /\ heads'[r] = h /\ \A t \in Ring : t # r => heads'[t] = heads[t]
    BY <1>1, <1>2 DEF RingsInv, Heads
  <1>4. SelIn(heads', r) = s
    BY <1>1, <1>3 DEF SelIn
  <1>5. \A t \in Ring :
           promo'[t] = IF t = r THEN IF is THEN [src |-> src, age |-> 0] ELSE promo[r]
                       ELSE IF promo[t] # None /\ promo[t].src = r THEN [promo[t] EXCEPT !.src = None] ELSE promo[t]
    BY DEF Release
  <1>6. ASSUME NEW t \in Ring
        PROVE  /\ promo'[t] \in {None} \cup [src : Ring \cup {None}, age : 0 .. Old]
               /\ ~is => /\ promo[t] = None => promo'[t] = None
                         /\ promo[t] # None => promo'[t].age = promo[t].age
    <2>1. promo[t] \in {None} \cup [src : Ring \cup {None}, age : 0 .. Old]
      BY DEF RingsInv, Promos
    <2>2. CASE t = r /\ is
      <3>1. promo'[t] = [src |-> src, age |-> 0]
        BY <1>5, <2>2
      <3>2. 0 \in 0 .. Old
        BY DEF Old
      <3> QED
        BY <2>2, <3>1, <3>2
    <2>3. CASE t # r /\ promo[t] # None /\ promo[t].src = r
      <3>1. promo'[t] = [promo[t] EXCEPT !.src = None]
        BY <1>5, <2>3
      <3> QED
        BY <2>1, <2>3, <3>1
    <2>4. CASE ~(t = r /\ is) /\ ~(t # r /\ promo[t] # None /\ promo[t].src = r)
      <3>1. promo'[t] = promo[t]
        BY <1>5, <2>4
      <3> QED
        BY <2>1, <3>1
    <2> QED
      BY <2>2, <2>3, <2>4
  <1>7. promo' \in Promos
    <2>1. promo' = [t \in Ring |-> promo'[t]]
      BY DEF Release
    <2> QED
      BY <1>6, <2>1 DEF Promos
  <1> QED
    BY <1>3, <1>4, <1>6, <1>7 DEF Aside

LEMMA StayAside ==
  ASSUME UNCHANGED <<heads, promo>>
  PROVE  Aside
  BY DEF Aside

\* The moves of a worker.
LEMMA GotoIs ==
  ASSUME RingsInv, NEW w \in Arch, NEW pc \in Pcs, Goto(w, pc)
  PROVE  \E k \in Work(env) :
             /\ work' = [work EXCEPT ![w] = k]
             /\ k.pc = pc /\ k.rings = work[w].rings /\ k.prev = work[w].prev /\ k.was = work[w].was
  <1> DEFINE k == [work[w] EXCEPT !.pc = pc]
  <1>1. work[w] \in Work(env)
    BY DEF RingsInv
  <1>2. /\ work' = [work EXCEPT ![w] = k] /\ k \in Work(env)
        /\ k.pc = pc /\ k.rings = work[w].rings /\ k.prev = work[w].prev /\ k.was = work[w].was
    BY <1>1 DEF Goto, Work
  <1> HIDE DEF k
  <1> QED
    BY <1>2

LEMMA NextRingIs ==
  ASSUME RingsInv, NEW w \in Arch, NEW pc \in Pcs, NextRing(w, pc)
  PROVE  \E k \in Work(env) :
             /\ work' = [work EXCEPT ![w] = k]
             /\ k.rings = work[w].rings \ {Target(w)}
             /\ k.pc = IF k.rings = {} THEN "done" ELSE pc
  <1> DEFINE left == work[w].rings \ {Target(w)}
             k == [work[w] EXCEPT !.rings = left, !.pc = IF left = {} THEN "done" ELSE pc, !.prev = None]
  <1>1. work[w] \in Work(env)
    BY DEF RingsInv
  <1>2. work' = [work EXCEPT ![w].rings = left, ![w].pc = IF left = {} THEN "done" ELSE pc, ![w].prev = None]
    BY DEF NextRing
  <1>3. "done" \in Pcs
    BY DEF Pcs, SyncPcs
  <1>4. left \in SUBSET Ring
    BY <1>1 DEF Work
  <1> HIDE DEF left
  <1>5. k \in Work(env) /\ k.rings = left /\ k.pc = IF left = {} THEN "done" ELSE pc
    BY <1>1, <1>3, <1>4 DEF Work
  <1>6. work' = [work EXCEPT ![w] = k]
    BY <1>1, <1>2 DEF RingsInv
  <1> HIDE DEF k
  <1> QED
    BY <1>5, <1>6 DEF left

\* A worker's step, once it is known which of its job's steps it is.
LEMMA WorkerIs ==
  ASSUME OneFastTrack, SchedInv, RingsInv, NEW w \in Arch, busy[w] # None
  PROVE  /\ busy[w] \in JobsOf(env) /\ busy[w].arch = w
         /\ busy[w].kind = "promote" => /\ w = "x86_64" /\ busy[w].params.from \in Ring /\ busy[w].params.to \in Ring
                                        /\ work[w].pc # "done" => Target(w) = busy[w].params.to
                                                                   /\ work[w].rings \ {Target(w)} = {}
         /\ busy[w].kind = "security" => w = "x86_64"
         /\ busy[w].kind = "sync" /\ w = "aarch64" /\ work[w].pc # "done" => Target(w) = "edge"
         /\ Target(w) \in Ring
  <1> DEFINE j == busy[w]
  <1>1. j \in JobsOf(env) /\ j.arch = w /\ env \in Deployments
    BY DEF SchedInv, TasksInv, EnvInv
  <1>2. /\ j.kind = "promote" => /\ j.arch = "x86_64" /\ j.params.from \in Ring /\ j.params.to \in Ring
        /\ j.kind = "security" => j.arch = "x86_64"
        /\ j.kind = "sync" => /\ j.arch \in Arch /\ j.params.arch = j.arch
                              /\ j.params.ring \in {None} \cup SYNC_SOURCES[j.arch]
    BY <1>1, JobShape
  <1>3. Fits(j, work[w])
    BY DEF RingsInv
  <1> HIDE DEF j
  <1>4. Target(w) \in Ring
    BY DEF Target, Ring
  <1>5. ASSUME j.kind = "promote", work[w].pc # "done"
        PROVE  Target(w) = j.params.to /\ work[w].rings \ {Target(w)} = {}
    <2>1. work[w].rings = {j.params.to} /\ j.params.to \in {"edge", "rc", "stable"}
      BY <1>2, <1>3, <1>5 DEF Fits, j, Ring
    <2>2. Target(w) = j.params.to
      BY <2>1 DEF Target
    <2> QED
      BY <2>1, <2>2
  <1>6. ASSUME j.kind = "sync", w = "aarch64", work[w].pc # "done"
        PROVE  Target(w) = "edge"
    <2>1. SourceRings(j) = {"edge"}
      BY <1>1, <1>2, <1>6, SyncRings
    <2>2. work[w].rings = {"edge"}
      BY <1>3, <1>6, <2>1 DEF Fits, j
    <2> QED
      BY <2>2 DEF Target
  <1> QED
    BY <1>1, <1>2, <1>4, <1>5, <1>6 DEF j

\* The steps of the schedule that workers do not see.
Unseen == UNCHANGED <<env, busy, heads, promo, work>>

LEMMA RingsUnseen ==
  ASSUME RingsInv, Unseen
  PROVE  RingsInv'
  BY DEF RingsInv, Unseen, Soaked, Restores, Fits

LEMMA RingsClock ==
  ASSUME SchedInv, RingsInv, TimePasses
  PROVE  RingsInv'
  <1>1. UNCHANGED <<env, busy, heads, work>>
    BY DEF TimePasses, Clock
  <1>2. Clock /\ Lapse \in Nat
    BY ClockGoes DEF TimePasses, SchedInv, EnvInv
  <1>3. \A r \in Ring : promo'[r] = IF promo[r] = None THEN None ELSE [promo[r] EXCEPT !.age = Later(@, Lapse)]
    BY DEF TimePasses, Lapse
  <1>4. ASSUME NEW r \in Ring
        PROVE  /\ promo'[r] \in {None} \cup [src : Ring \cup {None}, age : 0 .. Old]
               /\ promo[r] = None => promo'[r] = None
               /\ promo[r] # None /\ promo[r].age >= Soak => promo'[r].age >= Soak
    <2>1. CASE promo[r] = None
      BY <1>3, <2>1
    <2>2. CASE promo[r] # None
      <3>1. promo[r] \in [src : Ring \cup {None}, age : 0 .. Old]
        BY <2>2 DEF RingsInv, Promos
      <3>2. PICK a \in 0 .. Old : a = promo[r].age
        BY <3>1
      <3>3. Later(a, Lapse) \in 0 .. Old /\ Later(a, Lapse) >= a
        BY <1>2, <3>2, AgeOfLater
      <3>4. promo'[r] = [promo[r] EXCEPT !.age = Later(a, Lapse)]
        BY <1>3, <2>2, <3>2
      <3>5. promo'[r] \in [src : Ring \cup {None}, age : 0 .. Old] /\ promo'[r].age = Later(a, Lapse)
        BY <3>1, <3>3, <3>4
      <3>6. PICK b \in 0 .. Old : b = Later(a, Lapse)
        BY <3>3
      <3>7. Soak \in 1 .. Old /\ Old \in Nat
        BY PipelineAssumption DEF Old
      <3>8. a >= Soak => b >= Soak
        BY <3>3, <3>6, <3>7
      <3> QED
        BY <2>2, <3>2, <3>5, <3>6, <3>8
    <2> QED
      BY <2>1, <2>2
  <1>5. promo' \in Promos
    <2>1. promo' = [r \in Ring |-> promo'[r]]
      BY DEF TimePasses
    <2> QED
      BY <1>4, <2>1 DEF Promos
  <1>6. ASSUME NEW w \in Arch
        PROVE  Soaked(busy[w], work[w], promo')
    <2> SUFFICES ASSUME busy[w] # None, busy[w].kind = "promote", ~busy[w].params.force, work[w].pc \in {"previous", "promote"}
                 PROVE  promo'[busy[w].params.from] = None \/ promo'[busy[w].params.from].age >= Soak
      BY DEF Soaked
    <2>1. Soaked(busy[w], work[w], promo)
      BY DEF RingsInv
    <2>2. promo[busy[w].params.from] = None \/ promo[busy[w].params.from].age >= Soak
      BY <2>1 DEF Soaked
    <2>3. busy[w] \in JobsOf(env) /\ env \in Deployments
      BY DEF SchedInv, TasksInv, EnvInv
    <2>4. busy[w].params.from \in Ring
      BY <2>3, PromoteRings
    <2> QED
      BY <1>4, <2>2, <2>4
  <1> QED
    BY <1>1, <1>5, <1>6 DEF RingsInv

\* A step of a job that moves no ring, and one that does.
LEMMA OwnStep ==
  ASSUME OneFastTrack, SchedInv, RingsInv, UNCHANGED <<schedVars, heads, promo>>, NEW w \in Arch, NEW k \in Work(env),
         work' = [work EXCEPT ![w] = k],
         Fits(busy[w], k), Soaked(busy[w], k, promo), Restores(busy[w], k, heads)
  PROVE  RingsInv'
  <1>1. UNCHANGED <<env, busy>>
    BY DEF schedVars
  <1>2. heads' \in Heads(env) /\ promo' \in Promos
    BY DEF RingsInv
  <1>3. Fits(busy'[w], k) /\ Soaked(busy'[w], k, promo') /\ Restores(busy'[w], k, heads')
    BY <1>1
  <1> QED
    BY <1>1, <1>2, <1>3, StayAside, OneWorks

LEMMA RingStep ==
  ASSUME OneFastTrack, SchedInv, RingsInv, UNCHANGED schedVars, NEW w \in Arch, NEW k \in Work(env),
         work' = [work EXCEPT ![w] = k], heads' \in Heads(env), promo' \in Promos, w = "aarch64" => Aside,
         Fits(busy[w], k), Soaked(busy[w], k, promo'), Restores(busy[w], k, heads')
  PROVE  RingsInv'
  <1>1. UNCHANGED <<env, busy>>
    BY DEF schedVars
  <1>2. Fits(busy'[w], k) /\ Soaked(busy'[w], k, promo') /\ Restores(busy'[w], k, heads')
    BY <1>1
  <1> QED
    BY <1>1, <1>2, OneWorks

LEMMA StepGate ==
  ASSUME OneFastTrack, SchedInv, RingsInv, NEW w \in Arch, EvidenceBlocks(w) \/ Gate(w)
  PROVE  RingsInv'
  <1> DEFINE j == busy[w]
  <1>1. busy[w] # None /\ work[w].pc = "gate" /\ UNCHANGED <<schedVars, heads, promo>>
    BY DEF EvidenceBlocks, Gate, At_
  <1>2. Fits(j, work[w]) /\ Restores(j, work[w], heads)
    BY DEF RingsInv
  <1>3. j.kind = "promote"
    BY <1>1, <1>2 DEF Fits, SecurityPcs, SyncPcs
  <1>4. \E pc \in {"done", "previous"} :
           /\ Goto(w, pc)
           /\ pc = "previous" => ~soak_age_reason(j.params.from)
    BY DEF EvidenceBlocks, Gate
  <1>5. PICK pc \in {"done", "previous"} : /\ Goto(w, pc)
                                           /\ pc = "previous" => ~soak_age_reason(j.params.from)
    BY <1>4
  <1>6. pc \in Pcs
    BY DEF Pcs, PromotePcs
  <1>7. PICK k \in Work(env) : /\ work' = [work EXCEPT ![w] = k]
                               /\ k.pc = pc /\ k.rings = work[w].rings /\ k.prev = work[w].prev /\ k.was = work[w].was
    BY <1>5, <1>6, GotoIs
  <1>8. j.params.from \in Ring
    BY <1>1, <1>3, WorkerIs
  <1> HIDE DEF j
  <1>9. Fits(j, k)
    BY <1>1, <1>2, <1>3, <1>7 DEF Fits, PromotePcs, j
  <1>10. Restores(j, k, heads)
    BY <1>1, <1>2, <1>7 DEF Restores
  <1>11. Soaked(j, k, promo)
    <2> SUFFICES ASSUME k.pc \in {"previous", "promote"}
                 PROVE  promo[j.params.from] = None \/ promo[j.params.from].age >= Soak
      BY DEF Soaked
    <2>1. ~soak_age_reason(j.params.from)
      BY <1>5, <1>7
    <2>2. CASE promo[j.params.from] = None
      BY <2>2
    <2>3. CASE promo[j.params.from] # None
      <3>1. Soak \in 1 .. Old /\ Old \in Nat
        BY PipelineAssumption DEF Old
      <3>2. PICK a \in 0 .. Old : a = promo[j.params.from].age
        BY <1>8, <2>3 DEF RingsInv, Promos
      <3>3. ~(a < Soak)
        BY <2>1, <2>3, <3>2 DEF soak_age_reason, last_promotion
      <3>4. a >= Soak
        BY <3>1, <3>2, <3>3
      <3> QED
        BY <3>2, <3>4
    <2> QED
      BY <2>2, <2>3
  <1> QED
    BY <1>1, <1>7, <1>9, <1>10, <1>11, OwnStep DEF j

LEMMA StepPrevious ==
  ASSUME OneFastTrack, SchedInv, RingsInv, NEW w \in Arch, Previous(w)
  PROVE  RingsInv'
  <1> DEFINE j == busy[w]
             pc == IF j.kind = "promote" THEN "promote" ELSE "fast_track"
             k == [work[w] EXCEPT !.prev = Sel(Target(w)), !.pc = pc]
  <1>1. busy[w] # None /\ work[w].pc = "previous" /\ UNCHANGED <<schedVars, heads, promo>>
    BY DEF Previous, At_
  <1>2. Fits(j, work[w]) /\ Restores(j, work[w], heads) /\ Soaked(j, work[w], promo) /\ work[w] \in Work(env)
    BY DEF RingsInv
  <1>3. j.kind \in {"promote", "security"}
    BY <1>1, <1>2 DEF Fits, SyncPcs
  <1>4. Sel(Target(w)) \in {None} \cup Sels(env) /\ Sel(Target(w)) = SelIn(heads, Target(w))
    BY <1>1, WorkerIs, SelTyped
  <1>5. pc \in Pcs
    BY DEF Pcs, PromotePcs, SecurityPcs
  <1>6. work' = [work EXCEPT ![w].prev = Sel(Target(w)), ![w].pc = pc]
    BY DEF Previous
  <1>7. work' = [work EXCEPT ![w] = k]
    BY <1>2, <1>6 DEF RingsInv
  <1>8. j.kind = "promote" => Target(w) = j.params.to
    BY <1>1, WorkerIs
  <1> HIDE DEF j, pc
  <1>9. k \in Work(env) /\ k.pc = pc /\ k.rings = work[w].rings /\ k.was = work[w].was /\ k.prev = Sel(Target(w))
    BY <1>2, <1>4, <1>5 DEF Work
  <1> HIDE DEF k
  <1>10. Fits(j, k)
    BY <1>1, <1>2, <1>3, <1>9 DEF Fits, PromotePcs, SecurityPcs, pc
  <1>11. Restores(j, k, heads)
    <2> SUFFICES ASSUME Onward, j.kind = "promote", j # None
                 PROVE  k.pc = "promote" /\ k.prev = k.was
      BY DEF Restores
    <2>1. SelIn(heads, j.params.to) = work[w].was
      BY <1>1, <1>2 DEF Restores
    <2> QED
      BY <1>4, <1>8, <1>9, <2>1 DEF pc
  <1>12. Soaked(j, k, promo)
    BY <1>1, <1>2 DEF Soaked
  <1> QED
    BY <1>1, <1>7, <1>9, <1>10, <1>11, <1>12, OwnStep DEF j

LEMMA StepPromote ==
  ASSUME OneFastTrack, SchedInv, RingsInv, NEW w \in Arch, Promote(w)
  PROVE  RingsInv'
  <1> DEFINE j == busy[w]
  <1>1. busy[w] # None /\ work[w].pc = "promote" /\ UNCHANGED schedVars /\ heads[j.params.from] # None
    BY DEF Promote, At_
  <1>2. Fits(j, work[w]) /\ Restores(j, work[w], heads)
    BY DEF RingsInv
  <1>3. j.kind = "promote"
    BY <1>1, <1>2 DEF Fits, SecurityPcs, SyncPcs
  <1>4. w = "x86_64" /\ j.params.from \in Ring /\ Target(w) \in Ring
    BY <1>1, <1>3, WorkerIs
  <1>5. Sel(j.params.from) \in Sels(env)
    BY <1>1, <1>4, SelTyped
  <1>6. Release(Target(w), Sel(j.params.from), TRUE, j.params.from) /\ Goto(w, "align")
    BY DEF Promote
  <1>7. heads' \in Heads(env) /\ promo' \in Promos
    BY <1>4, <1>5, <1>6, Released
  <1>8. "align" \in Pcs
    BY DEF Pcs, PromotePcs
  <1>9. PICK k \in Work(env) : /\ work' = [work EXCEPT ![w] = k]
                               /\ k.pc = "align" /\ k.rings = work[w].rings /\ k.prev = work[w].prev /\ k.was = work[w].was
    BY <1>6, <1>8, GotoIs
  <1> HIDE DEF j
  <1>10. Fits(j, k)
    BY <1>1, <1>2, <1>3, <1>9 DEF Fits, PromotePcs
  <1>11. Restores(j, k, heads') /\ Soaked(j, k, promo')
    BY <1>1, <1>2, <1>9 DEF Restores, Soaked
  <1>12. w # "aarch64"
    BY <1>4
  <1> QED
    BY <1>1, <1>7, <1>9, <1>10, <1>11, <1>12, RingStep DEF j

LEMMA StepAlign ==
  ASSUME OneFastTrack, SchedInv, RingsInv, NEW w \in Arch, Align(w)
  PROVE  RingsInv'
  <1> DEFINE j == busy[w]
  <1>1. busy[w] # None /\ work[w].pc = "align" /\ UNCHANGED schedVars /\ Goto(w, "render")
    BY DEF Align, At_
  <1>2. Fits(j, work[w]) /\ Restores(j, work[w], heads)
    BY DEF RingsInv
  <1>3. j.kind = "promote"
    BY <1>1, <1>2 DEF Fits, SecurityPcs, SyncPcs
  <1>4. w = "x86_64" /\ Target(w) \in Ring
    BY <1>1, <1>3, WorkerIs
  <1>5. heads' \in Heads(env) /\ promo' \in Promos
    <2>1. CASE UNCHANGED <<heads, promo>>
      BY <2>1 DEF RingsInv
    <2>2. CASE \E s \in env.pins : Release(Target(w), s, FALSE, None)
      <3>1. PICK s \in env.pins : Release(Target(w), s, FALSE, None)
        BY <2>2
      <3>2. s \in Sels(env)
        BY DEF Sels
      <3> QED
        BY <1>4, <3>1, <3>2, Released
    <2> QED
      BY <2>1, <2>2 DEF Align
  <1>6. "render" \in Pcs
    BY DEF Pcs, PromotePcs
  <1>7. PICK k \in Work(env) : /\ work' = [work EXCEPT ![w] = k]
                               /\ k.pc = "render" /\ k.rings = work[w].rings /\ k.prev = work[w].prev /\ k.was = work[w].was
    BY <1>1, <1>6, GotoIs
  <1> HIDE DEF j
  <1>8. Fits(j, k)
    BY <1>1, <1>2, <1>3, <1>7 DEF Fits, PromotePcs
  <1>9. Restores(j, k, heads') /\ Soaked(j, k, promo')
    BY <1>1, <1>2, <1>7 DEF Restores, Soaked
  <1>10. w # "aarch64"
    BY <1>4
  <1> QED
    BY <1>1, <1>5, <1>7, <1>8, <1>9, <1>10, RingStep DEF j

\* On to the next ring, or done with the last.
LEMMA StepNextRing ==
  ASSUME OneFastTrack, SchedInv, RingsInv, UNCHANGED <<schedVars, heads, promo>>, NEW w \in Arch,
         busy[w] # None, work[w].pc # "done", NEW pc \in {"previous", "pin"}, NextRing(w, pc),
         busy[w].kind \in {"promote", "security", "sync"},
         busy[w].kind = "security" => pc = "previous", busy[w].kind = "sync" => pc = "pin"
  PROVE  RingsInv'
  <1> DEFINE j == busy[w]
  <1>1. Fits(j, work[w])
    BY DEF RingsInv
  <1>2. pc \in Pcs
    BY DEF Pcs, PromotePcs, SyncPcs
  <1>3. PICK k \in Work(env) : /\ work' = [work EXCEPT ![w] = k]
                               /\ k.rings = work[w].rings \ {Target(w)}
                               /\ k.pc = IF k.rings = {} THEN "done" ELSE pc
    BY <1>2, NextRingIs
  <1>4. j.kind = "promote" => k.pc = "done"
    BY <1>3, WorkerIs
  <1> HIDE DEF j
  <1>5. Fits(j, k)
    BY <1>1, <1>3, <1>4 DEF Fits, PromotePcs, SecurityPcs, SyncPcs, j
  <1>6. Restores(j, k, heads) /\ Soaked(j, k, promo)
    BY <1>4 DEF Restores, Soaked
  <1> QED
    BY <1>3, <1>5, <1>6, OwnStep DEF j

LEMMA StepFastTrack ==
  ASSUME OneFastTrack, SchedInv, RingsInv, NEW w \in Arch, FastTrack(w)
  PROVE  RingsInv'
  <1> DEFINE j == busy[w]
  <1>1. busy[w] # None /\ work[w].pc = "fast_track" /\ UNCHANGED schedVars
    BY DEF FastTrack, At_
  <1>2. Fits(j, work[w])
    BY DEF RingsInv
  <1>3. j.kind = "security"
    BY <1>1, <1>2 DEF Fits, PromotePcs, SyncPcs
  <1>4. w = "x86_64" /\ Target(w) \in Ring
    BY <1>1, <1>3, WorkerIs
  <1>5. CASE NextRing(w, "previous") /\ UNCHANGED <<heads, promo>>
    BY <1>1, <1>3, <1>5, StepNextRing
  <1>6. CASE (\E s \in env.pins : Release(Target(w), s, FALSE, None)) /\ Goto(w, "render")
    <2>1. PICK s \in env.pins : Release(Target(w), s, FALSE, None)
      BY <1>6
    <2>2. s \in Sels(env)
      BY DEF Sels
    <2>3. heads' \in Heads(env) /\ promo' \in Promos
      BY <1>4, <2>1, <2>2, Released
    <2>4. "render" \in Pcs
      BY DEF Pcs, PromotePcs
    <2>5. PICK k \in Work(env) : /\ work' = [work EXCEPT ![w] = k]
                                 /\ k.pc = "render" /\ k.rings = work[w].rings /\ k.prev = work[w].prev /\ k.was = work[w].was
      BY <1>6, <2>4, GotoIs
    <2> HIDE DEF j
    <2>6. Fits(j, k)
      BY <1>3, <2>5 DEF Fits, SecurityPcs
    <2>7. Restores(j, k, heads') /\ Soaked(j, k, promo')
      BY <1>3 DEF Restores, Soaked
    <2>8. w # "aarch64"
      BY <1>4
    <2> QED
      BY <1>1, <2>3, <2>5, <2>6, <2>7, <2>8, RingStep DEF j
  <1> QED
    BY <1>5, <1>6 DEF FastTrack

LEMMA StepPinRing ==
  ASSUME OneFastTrack, SchedInv, RingsInv, NEW w \in Arch, PinRing(w)
  PROVE  RingsInv'
  <1> DEFINE j == busy[w]
  <1>1. busy[w] # None /\ work[w].pc = "pin" /\ UNCHANGED schedVars
    BY DEF PinRing, At_
  <1>2. Fits(j, work[w])
    BY DEF RingsInv
  <1>3. j.kind = "sync"
    BY <1>1, <1>2 DEF Fits, PromotePcs, SecurityPcs
  <1>4. Target(w) \in Ring /\ (w = "aarch64" => Target(w) = "edge")
    BY <1>1, <1>3, WorkerIs
  <1>5. CASE NextRing(w, "pin") /\ UNCHANGED <<heads, promo>>
    BY <1>1, <1>3, <1>5, StepNextRing
  <1>6. CASE (\E s \in env.pins : Release(Target(w), s, FALSE, None)) /\ Goto(w, "render")
    <2>1. PICK s \in env.pins : Release(Target(w), s, FALSE, None)
      BY <1>6
    <2>2. s \in Sels(env)
      BY DEF Sels
    <2>3. heads' \in Heads(env) /\ promo' \in Promos /\ (w = "aarch64" => Aside)
      BY <1>4, <2>1, <2>2, Released
    <2>4. "render" \in Pcs
      BY DEF Pcs, PromotePcs
    <2>5. PICK k \in Work(env) : /\ work' = [work EXCEPT ![w] = k]
                                 /\ k.pc = "render" /\ k.rings = work[w].rings /\ k.prev = work[w].prev /\ k.was = work[w].was
      BY <1>6, <2>4, GotoIs
    <2> HIDE DEF j
    <2>6. Fits(j, k)
      BY <1>1, <1>2, <1>3, <2>5 DEF Fits, SyncPcs
    <2>7. Restores(j, k, heads') /\ Soaked(j, k, promo')
      BY <1>3 DEF Restores, Soaked
    <2> QED
      BY <1>1, <2>3, <2>5, <2>6, <2>7, RingStep DEF j
  <1> QED
    BY <1>5, <1>6 DEF PinRing

LEMMA StepRender ==
  ASSUME OneFastTrack, SchedInv, RingsInv, NEW w \in Arch, RenderRing(w)
  PROVE  RingsInv'
  <1> DEFINE j == busy[w]
  <1>1. busy[w] # None /\ work[w].pc = "render" /\ UNCHANGED <<schedVars, heads, promo>>
    BY DEF RenderRing, At_
  <1>2. Fits(j, work[w]) /\ Restores(j, work[w], heads)
    BY DEF RingsInv
  <1>3. j.kind \in {"promote", "security", "sync"}
    BY <1>1, <1>2 DEF Fits
  <1>4. CASE j.kind = "sync"
    <2>1. NextRing(w, "pin")
      BY <1>4 DEF RenderRing
    <2> QED
      BY <1>1, <1>4, <2>1, StepNextRing
  <1>5. CASE j.kind # "sync"
    <2>1. Goto(w, "check") /\ "check" \in Pcs
      BY <1>5 DEF RenderRing, Pcs, PromotePcs
    <2>2. PICK k \in Work(env) : /\ work' = [work EXCEPT ![w] = k]
                                 /\ k.pc = "check" /\ k.rings = work[w].rings /\ k.prev = work[w].prev /\ k.was = work[w].was
      BY <2>1, GotoIs
    <2> HIDE DEF j
    <2>3. Fits(j, k)
      BY <1>1, <1>2, <1>3, <1>5, <2>2 DEF Fits, PromotePcs, SecurityPcs
    <2>4. Restores(j, k, heads) /\ Soaked(j, k, promo)
      BY <1>1, <1>2, <2>2 DEF Restores, Soaked
    <2> QED
      BY <1>1, <2>2, <2>3, <2>4, OwnStep DEF j
  <1> QED
    BY <1>4, <1>5

LEMMA StepHealth ==
  ASSUME OneFastTrack, SchedInv, RingsInv, NEW w \in Arch, Healthy(w) \/ Unhealthy(w) \/ RenderAgain(w)
  PROVE  RingsInv'
  <1> DEFINE j == busy[w]
  <1>1. busy[w] # None /\ work[w].pc \in {"check", "rerender"} /\ UNCHANGED <<schedVars, heads, promo>>
    BY DEF Healthy, Unhealthy, RenderAgain, At_
  <1>2. Fits(j, work[w]) /\ Restores(j, work[w], heads)
    BY DEF RingsInv
  <1>3. j.kind \in {"promote", "security"}
    BY <1>1, <1>2 DEF Fits, SyncPcs
  <1>4. CASE Healthy(w) \/ RenderAgain(w)
    <2>1. NextRing(w, "previous")
      BY <1>4 DEF Healthy, RenderAgain
    <2> QED
      BY <1>1, <1>3, <2>1, StepNextRing
  <1>5. CASE Unhealthy(w)
    <2>1. PICK pc : pc = IF work[w].prev = None THEN "failing" ELSE "rollback"
      OBVIOUS
    <2>2. Goto(w, pc) /\ pc \in Pcs /\ work[w].pc = "check"
      BY <1>5, <2>1 DEF Unhealthy, Pcs, PromotePcs, At_
    <2>3. PICK k \in Work(env) : /\ work' = [work EXCEPT ![w] = k]
                                 /\ k.pc = pc /\ k.rings = work[w].rings /\ k.prev = work[w].prev /\ k.was = work[w].was
      BY <2>2, GotoIs
    <2> HIDE DEF j
    <2>4. Fits(j, k)
      BY <1>1, <1>2, <1>3, <2>1, <2>3 DEF Fits, PromotePcs, SecurityPcs
    <2>5. Restores(j, k, heads) /\ Soaked(j, k, promo)
      BY <1>1, <1>2, <2>1, <2>2, <2>3 DEF Restores, Soaked
    <2> QED
      BY <1>1, <2>3, <2>4, <2>5, OwnStep DEF j
  <1> QED
    BY <1>4, <1>5

LEMMA StepRollback ==
  ASSUME OneFastTrack, SchedInv, RingsInv, NEW w \in Arch, Rollback(w)
  PROVE  RingsInv'
  <1> DEFINE j == busy[w]
  <1>1. busy[w] # None /\ work[w].pc = "rollback" /\ UNCHANGED schedVars /\ Goto(w, "rerender")
    BY DEF Rollback, At_
  <1>2. Fits(j, work[w]) /\ Restores(j, work[w], heads) /\ work[w] \in Work(env)
    BY DEF RingsInv
  <1>3. j.kind \in {"promote", "security"}
    BY <1>1, <1>2 DEF Fits, SyncPcs
  <1>4. w = "x86_64" /\ Target(w) \in Ring /\ (j.kind = "promote" => Target(w) = j.params.to)
    BY <1>1, <1>3, WorkerIs
  <1>5. work[w].prev \in Sels(env)
    BY <1>1, <1>2 DEF Work, Fits
  <1>6. heads' \in Heads(env) /\ promo' \in Promos /\ SelIn(heads', Target(w)) = work[w].prev
    BY <1>4, <1>5, Released DEF Rollback
  <1>7. "rerender" \in Pcs
    BY DEF Pcs, PromotePcs
  <1>8. PICK k \in Work(env) : /\ work' = [work EXCEPT ![w] = k]
                               /\ k.pc = "rerender" /\ k.rings = work[w].rings /\ k.prev = work[w].prev /\ k.was = work[w].was
    BY <1>1, <1>7, GotoIs
  <1> HIDE DEF j
  <1>9. Fits(j, k)
    BY <1>1, <1>2, <1>3, <1>8 DEF Fits, PromotePcs, SecurityPcs
  <1>10. Restores(j, k, heads') /\ Soaked(j, k, promo')
    BY <1>1, <1>2, <1>4, <1>6, <1>8 DEF Restores, Soaked
  <1>11. w # "aarch64"
    BY <1>4
  <1> QED
    BY <1>1, <1>6, <1>8, <1>9, <1>10, <1>11, RingStep DEF j

LEMMA StepBegin ==
  ASSUME OneFastTrack, SchedInv, RingsInv, NEW w \in Arch, Begin(w)
  PROVE  RingsInv'
  <1> DEFINE j == busy'[w]
             rings == CASE j.kind = "promote"  -> {j.params.to}
                        [] j.kind = "security" -> {"rc", "stable"}
                        [] j.kind = "sync"     -> SourceRings(j)
                        [] OTHER               -> {}
             pc == CASE j.kind = "promote"  -> IF j.params.force THEN "previous" ELSE "gate"
                     [] j.kind = "security" -> "previous"
                     [] j.kind = "sync"     -> "pin"
                     [] OTHER               -> "done"
             was == IF j.kind = "promote" THEN Sel(j.params.to) ELSE None
             k == [pc |-> pc, rings |-> rings, prev |-> None, was |-> was]
  <1>1. Claim(w) /\ UNCHANGED <<heads, promo>> /\ work' = [work EXCEPT ![w] = k]
    BY DEF Begin
  <1>2. /\ UNCHANGED env /\ j \in JobsOf(env) /\ j.arch = w
        /\ \A v \in Arch : v # w => busy'[v] = busy[v]
    BY <1>1, TasksClaim DEF SchedInv
  <1>3. /\ j.kind = "promote" => j.params.from \in Ring /\ j.params.to \in Ring
        /\ j.kind = "sync" => SourceRings(j) \subseteq Ring /\ SourceRings(j) # {}
    BY <1>2, JobShape, SyncRings DEF SchedInv, EnvInv
  <1> HIDE DEF j
  <1>4. rings \in SUBSET Ring
    BY <1>3 DEF Ring
  <1>5. pc \in Pcs
    BY DEF Pcs, PromotePcs, SecurityPcs, SyncPcs
  <1>6. was \in {None} \cup Sels(env) /\ (j.kind = "promote" => was = SelIn(heads, j.params.to))
    BY <1>3, SelTyped
  <1>7. /\ j.kind = "promote" => rings = {j.params.to} /\ pc \in {"gate", "previous"} /\ (~j.params.force => pc = "gate")
        /\ j.kind = "security" => pc = "previous"
        /\ j.kind = "sync" => pc = "pin" /\ rings = SourceRings(j)
        /\ j.kind \notin {"promote", "security", "sync"} => pc = "done"
    OBVIOUS
  <1>8. pc # "rollback"
    BY <1>7
  <1> HIDE DEF rings, pc, was
  <1>9. k \in Work(env) /\ k.pc = pc /\ k.rings = rings /\ k.prev = None /\ k.was = was
    BY <1>4, <1>5, <1>6 DEF Work
  <1> HIDE DEF k
  <1>10. Fits(j, k)
    BY <1>3, <1>7, <1>8, <1>9 DEF Fits, PromotePcs, SecurityPcs, SyncPcs
  <1>11. Soaked(j, k, promo)
    BY <1>7, <1>9 DEF Soaked
  <1>12. Restores(j, k, heads)
    BY <1>6, <1>7, <1>9 DEF Restores
  <1>13. heads' \in Heads(env) /\ promo' \in Promos
    BY <1>1 DEF RingsInv
  <1>14. Fits(busy'[w], k) /\ Soaked(busy'[w], k, promo') /\ Restores(busy'[w], k, heads')
    BY <1>1, <1>10, <1>11, <1>12 DEF j
  <1> QED
    BY <1>1, <1>2, <1>9, <1>13, <1>14, StayAside, OneWorks

LEMMA StepOver ==
  ASSUME OneFastTrack, SchedInv, RingsInv, NEW w \in Arch, Finish(w) \/ Fail(w) \/ Stop(w)
  PROVE  RingsInv'
  <1>1. /\ CompleteJob(w) \/ FailJob(w) \/ Die(w)
        /\ work' = [work EXCEPT ![w] = NoWork] /\ UNCHANGED <<heads, promo>>
    BY DEF Finish, Fail, Stop, Over
  <1>2. UNCHANGED env /\ busy'[w] = None /\ \A v \in Arch : v # w => busy'[v] = busy[v]
    BY <1>1, TasksReport DEF SchedInv
  <1>3. NoWork \in Work(env)
    BY DEF NoWork, Work, Pcs
  <1>4. Fits(None, NoWork) /\ Soaked(None, NoWork, promo') /\ Restores(None, NoWork, heads')
    BY DEF Fits, Soaked, Restores
  <1>5. heads' \in Heads(env) /\ promo' \in Promos
    BY <1>1 DEF RingsInv
  <1>6. Fits(busy'[w], NoWork) /\ Soaked(busy'[w], NoWork, promo') /\ Restores(busy'[w], NoWork, heads')
    BY <1>2, <1>4
  <1> QED
    BY <1>1, <1>2, <1>3, <1>5, <1>6, StayAside, OneWorks

LEMMA RingsInvInit ==
  ASSUME PipelineInit
  PROVE  RingsInv
  <1>1. Init
    BY DEF PipelineInit
  <1>2. busy = [w \in Arch |-> None] /\ env \in Deployments
    BY <1>1 DEF Init
  <1>3. work = [w \in Arch |-> NoWork] /\ promo = [r \in Ring |-> None]
    BY DEF PipelineInit
  <1>4. NoWork \in Work(env)
    BY DEF NoWork, Work, Pcs
  <1>5. heads \in Heads(env)
    <2>1. PICK stable \in BOOLEAN :
             heads = [r \in Ring |-> IF r = "stable" /\ ~stable THEN None ELSE [sel |-> 1, sourced |-> FALSE]]
      BY DEF PipelineInit
    <2>2. [sel |-> 1, sourced |-> FALSE] \in [sel : Sels(env), sourced : BOOLEAN]
      BY DEF Sels
    <2> QED
      BY <2>1, <2>2 DEF Heads
  <1>6. ASSUME NEW w \in Arch
        PROVE  Fits(busy[w], work[w]) /\ Soaked(busy[w], work[w], promo) /\ Restores(busy[w], work[w], heads)
    <2>1. busy[w] = None
      BY <1>2
    <2> QED
      BY <2>1 DEF Fits, Soaked, Restores
  <1> QED
    BY <1>3, <1>4, <1>5, <1>6 DEF RingsInv, Promos

LEMMA RingsInvNext ==
  ASSUME OneFastTrack, SchedInv, RingsInv, [Next]_vars
  PROVE  RingsInv'
  <1>1. CASE (TickStep \/ World \/ Hands) /\ UNCHANGED ringVars
    <2>1. UNCHANGED <<heads, promo, work>>
      BY <1>1 DEF ringVars
    <2>2. UNCHANGED <<env, busy>>
      BY <1>1 DEF TickStep, World, Hands, Tick, TickEnds, Requeue, Provenance, ProvenanceMark, snapshotMetrics, dailyCost,
                  dailyAudience, costGuard, Consider, Create, DispatchWorkflow, TickCut, Spend, LiftGuard, Push, WorkflowRuns,
                  handleQueueJob, jobVars, bookVars, worldVars
    <2> QED
      BY <2>1, <2>2, RingsUnseen DEF Unseen
  <1>2. CASE TimePasses
    BY <1>2, RingsClock
  <1>3. CASE \E w \in Arch : JobStep(w) \/ Trouble(w)
    <2>1. PICK w \in Arch : JobStep(w) \/ Trouble(w)
      BY <1>3
    <2> QED
      BY <2>1, StepBegin, StepGate, StepPrevious, StepPromote, StepAlign, StepFastTrack, StepPinRing, StepRender, StepHealth,
         StepRollback, StepOver DEF JobStep, Trouble
  <1>4. CASE UNCHANGED vars
    BY <1>4, RingsUnseen DEF vars, schedVars, Unseen
  <1> QED
    BY <1>1, <1>2, <1>3, <1>4 DEF Next

-----------------------------------------------------------------------------
(* The soak and the rollback.                                              *)

\* Only a job of promotion promotes.
LEMMA WhoPromotes ==
  ASSUME RingsInv, NEW w \in Arch, busy[w] # None, work[w].pc = "promote"
  PROVE  busy[w].kind = "promote"
  <1>1. Fits(busy[w], work[w])
    BY DEF RingsInv
  <1> QED
    BY <1>1 DEF Fits, SecurityPcs, SyncPcs

\* Pipeline!SoakHolds: where no fast track is given to the other worker, what
\* an unforced promotion takes was promoted into the ring it comes from at
\* least Soak minutes ago, whatever was synced, rolled back, fast-tracked,
\* stopped or claimed again between the gate and the promotion.
THEOREM SoakKept ==
  ASSUME OneFastTrack
  PROVE  Spec => SoakHolds
  <1>1. SchedInv /\ RingsInv /\ [Next]_vars =>
          [\A w \in Arch :
             (/\ At_(w, "promote") /\ work'[w].pc = "align" /\ ~busy[w].params.force
              /\ promo[busy[w].params.from] # None) => promo[busy[w].params.from].age >= Soak]_vars
    <2> SUFFICES ASSUME SchedInv, RingsInv, NEW w \in Arch,
                        At_(w, "promote"), ~busy[w].params.force, promo[busy[w].params.from] # None
                 PROVE  promo[busy[w].params.from].age >= Soak
      OBVIOUS
    <2>1. busy[w] # None /\ work[w].pc = "promote"
      BY DEF At_
    <2>2. busy[w].kind = "promote"
      BY <2>1, WhoPromotes
    <2>3. Soaked(busy[w], work[w], promo)
      BY DEF RingsInv
    <2> QED
      BY <2>1, <2>2, <2>3 DEF Soaked
  <1>2. SchedInv /\ RingsInv /\ [Next]_vars => RingsInv'
    BY RingsInvNext
  <1>3. PipelineInit => RingsInv
    BY RingsInvInit
  <1> QED
    BY <1>1, <1>2, <1>3, SchedInvariant, PTL DEF SoakHolds, Spec

\* A worker's work is its own.
LEMMA OthersWork ==
  ASSUME RingsInv, NEW v \in Arch, NEW w \in Arch, v # w, JobStep(v) \/ Trouble(v)
  PROVE  work'[w] = work[w]
  <1>1. work \in [Arch -> Work(env)]
    BY DEF RingsInv
  <1>2. CASE Begin(v) \/ Finish(v) \/ Fail(v) \/ Stop(v) \/ Previous(v)
    BY <1>1, <1>2 DEF Begin, Finish, Fail, Stop, Over, Previous
  <1>3. CASE \E pc : Goto(v, pc)
    BY <1>1, <1>3 DEF Goto
  <1>4. CASE \E pc : NextRing(v, pc)
    BY <1>1, <1>4 DEF NextRing
  <1>5. \/ Begin(v) \/ Finish(v) \/ Fail(v) \/ Stop(v) \/ Previous(v)
        \/ (\E pc : Goto(v, pc)) \/ (\E pc : NextRing(v, pc))
    BY DEF JobStep, Trouble, Gate, Promote, Align, FastTrack, PinRing, RenderRing, Healthy, Rollback, RenderAgain,
           EvidenceBlocks, Unhealthy
  <1> QED
    BY <1>2, <1>3, <1>4, <1>5

\* The databases are of the rings.
ServedInv == served \in [Ring -> {None} \cup Sels(env)]

LEMMA ServedInvNext ==
  ASSUME OneFastTrack, SchedInv, SchedInv', RingsInv, ServedInv, [Next]_vars
  PROVE  ServedInv'
  <1>1. UNCHANGED env
    <2>1. CASE SchedNext
      BY <2>1, EnvStays
    <2> QED
      BY <2>1, NextIsSched DEF vars, schedVars
  <1>2. CASE UNCHANGED served
    BY <1>1, <1>2 DEF ServedInv
  <1>3. CASE \E w \in Arch : RenderRing(w) \/ RenderAgain(w)
    <2>1. PICK w \in Arch : RenderRing(w) \/ RenderAgain(w)
      BY <1>3
    <2>2. served' = [served EXCEPT ![Target(w)] = Sel(Target(w))] /\ Target(w) \in Ring
      BY <2>1 DEF RenderRing, RenderAgain, Target, Ring
    <2>3. Sel(Target(w)) \in {None} \cup Sels(env)
      BY <2>2, SelTyped
    <2> QED
      BY <1>1, <2>2, <2>3 DEF ServedInv
  <1>4. (UNCHANGED served) \/ \E w \in Arch : RenderRing(w) \/ RenderAgain(w)
    BY DEF vars, Next, ringVars, TimePasses, JobStep, Trouble, Begin, Gate, Previous, Promote, Align, FastTrack, PinRing, Healthy,
           Rollback, Finish, EvidenceBlocks, Unhealthy, Fail, Stop, Over
  <1> QED
    BY <1>2, <1>3, <1>4

LEMMA ServedInvInit ==
  ASSUME PipelineInit, RingsInv
  PROVE  ServedInv
  <1>1. served = [r \in Ring |-> Sel(r)]
    BY DEF PipelineInit
  <1> QED
    BY <1>1, SelTyped DEF ServedInv

\* After a rollback, only the rendering ends the job.
LEMMA OnlyRenderAgain ==
  ASSUME RingsInv, [Next]_vars, NEW w \in Arch, busy[w] # None, work[w].pc = "rerender", work'[w].pc = "done"
  PROVE  RenderAgain(w)
  <1>1. work'[w] # work[w]
    OBVIOUS
  <1>2. PICK v \in Arch : JobStep(v) \/ Trouble(v)
    BY <1>1 DEF Next, vars, ringVars, TimePasses
  <1>3. v = w
    BY <1>1, <1>2, OthersWork
  <1>4. ~(Fail(w) \/ Stop(w))
    <2>1. NoWork.pc # "done"
      BY DEF NoWork
    <2>2. work' = [work EXCEPT ![w] = NoWork] => work'[w] = NoWork
      BY DEF RingsInv
    <2> QED
      BY <2>1, <2>2 DEF Fail, Stop, Over
  <1>5. ~Begin(w)
    BY DEF Begin, Claim
  <1> QED
    BY <1>2, <1>3, <1>4, <1>5 DEF JobStep, Trouble, At_, Gate, Previous, Promote, Align, FastTrack, PinRing, RenderRing, Healthy,
       Rollback, Finish, EvidenceBlocks, Unhealthy

\* Pipeline!RollbackRestores: where moreover nothing is promoted into edge, the
\* ring of a promotion whose health failed ends up pinning, and serving, the
\* selection it served when the job began, whatever the other worker releases
\* in between.
THEOREM RollbackGoesBack ==
  ASSUME OneFastTrack, Onward
  PROVE  Spec => RollbackRestores
  <1>1. SchedInv /\ RingsInv /\ ServedInv /\ [Next]_vars =>
          [\A w \in Arch :
             (At_(w, "rerender") /\ busy[w].kind = "promote" /\ work'[w].pc = "done") =>
                 served'[Target(w)] = work[w].was /\ Sel(Target(w)) = work[w].was]_vars
    <2> SUFFICES ASSUME SchedInv, RingsInv, ServedInv, [Next]_vars, NEW w \in Arch,
                        At_(w, "rerender"), busy[w].kind = "promote", work'[w].pc = "done"
                 PROVE  served'[Target(w)] = work[w].was /\ Sel(Target(w)) = work[w].was
      OBVIOUS
    <2>1. busy[w] # None /\ work[w].pc = "rerender"
      BY DEF At_
    <2>2. Restores(busy[w], work[w], heads) /\ work[w] \in Work(env)
      BY DEF RingsInv
    <2>3. Target(w) = busy[w].params.to /\ Target(w) \in Ring
      BY <2>1, WorkerIs
    <2>4. Sel(Target(w)) = work[w].was
      BY <2>1, <2>2, <2>3, SelTyped DEF Restores
    <2>5. RenderAgain(w)
      BY OnlyRenderAgain, <2>1
    <2>6. served'[Target(w)] = Sel(Target(w))
      BY <2>3, <2>5 DEF RenderAgain, ServedInv
    <2> QED
      BY <2>4, <2>6
  <1>2. SchedInv /\ RingsInv /\ [Next]_vars => RingsInv'
    BY RingsInvNext
  <1>3. SchedInv /\ SchedInv' /\ RingsInv /\ ServedInv /\ [Next]_vars => ServedInv'
    BY ServedInvNext
  <1>4. PipelineInit => RingsInv /\ ServedInv
    BY RingsInvInit, ServedInvInit
  <1> QED
    BY <1>1, <1>2, <1>3, <1>4, SchedInvariant, PTL DEF RollbackRestores, Spec
=============================================================================
