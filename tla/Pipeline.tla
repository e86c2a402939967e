------------------------------ MODULE Pipeline ------------------------------
(***************************************************************************)
(* The rings: how the jobs the scheduler queues move packages from edge    *)
(* through rc to stable (crates/pkg-repo/src/work.rs, gate.rs, ops.rs,     *)
(* security.rs). A job is the sequence of its calls; a worker may stop, or *)
(* a call fail, between any two.                                           *)
(*                                                                         *)
(* A ring's head is a release: the selection it pins, and whether it was   *)
(* taken from another release (a promotion, a rollback). Of the release it *)
(* was taken from, what matters is whose head it still is.                 *)
(***************************************************************************)
EXTENDS JobAccess

CONSTANT Soak   \* soak_days, in minutes (a day)

ASSUME PipelineAssumption ==
    /\ Soak \in 1 .. Old
    /\ \A d \in Deployments : \A s \in d.pins \cup {1}, is \in BOOLEAN : None # [sel |-> s, sourced |-> is]

VARIABLES
    heads,     \* per ring, its head: [sel, sourced]; None before the first release
    promo,     \* per ring, the latest release with a source that its head's line goes through: its age, and the
               \* ring whose head is the source, or None when it no longer is one
    served,    \* per ring, the selection its rendered databases list
    work       \* per worker, how far its job is

ringVars == <<heads, promo, served, work>>
vars     == <<schedVars, heads, promo, served, work>>

NoWork == [pc |-> "none", rings |-> {}, prev |-> None, was |-> None]

Sel(r) == IF heads[r] = None THEN None ELSE heads[r].sel

PipelineInit ==
    /\ Init
    /\ \E stable \in BOOLEAN :
          heads = [r \in Ring |-> IF r = "stable" /\ ~stable THEN None ELSE [sel |-> 1, sourced |-> FALSE]]
    /\ promo = [r \in Ring |-> None]
    /\ served = [r \in Ring |-> Sel(r)]
    /\ work = [w \in Arch |-> NoWork]

\* The first of the job's rings that are left.
Target(w) == IF "edge" \in work[w].rings THEN "edge" ELSE IF "rc" \in work[w].rings THEN "rc" ELSE "stable"
At_(w, pc) == busy[w] # None /\ work[w].pc = pc
Goto(w, pc) == work' = [work EXCEPT ![w].pc = pc]
\* On to the job's next ring, from its first step.
NextRing(w, pc) ==
    LET left == work[w].rings \ {Target(w)}
    IN  work' = [work EXCEPT ![w].rings = left, ![w].pc = IF left = {} THEN "done" ELSE pc, ![w].prev = None]

\* A release: the ring's next head. One made from another release is what the
\* next walk to the last promotion ends at; of the head it replaces, a ring it
\* was promoted to no longer serves the head.
Release(r, sel, sourced, src) ==
    /\ heads' = [heads EXCEPT ![r] = [sel |-> sel, sourced |-> sourced]]
    /\ promo' = [t \in Ring |-> IF t = r THEN IF sourced THEN [src |-> src, age |-> 0] ELSE promo[r]
                                ELSE IF promo[t] # None /\ promo[t].src = r THEN [promo[t] EXCEPT !.src = None] ELSE promo[t]]
OfTheHead(r) == IF heads[r] # None /\ heads[r].sourced THEN promo[r] ELSE None   \* mutant: the line is not walked
last_promotion(r) == promo[r]

-----------------------------------------------------------------------------
(* A worker claims a task, and the job begins.                             *)

Begin(w) ==
    /\ Claim(w)
    /\ LET j == busy'[w]
           rings == CASE j.kind = "promote"  -> {j.params.to}
                      [] j.kind = "security" -> {"rc", "stable"}
                      [] j.kind = "sync"     -> SourceRings(j)
                      [] OTHER               -> {}
           pc == CASE j.kind = "promote"  -> IF j.params.force THEN "previous" ELSE "gate"
                   [] j.kind = "security" -> "previous"
                   [] j.kind = "sync"     -> "pin"
                   [] OTHER               -> "done"
       IN work' = [work EXCEPT ![w] = [pc |-> pc, rings |-> rings, prev |-> None,
                                       was |-> IF j.kind = "promote" THEN Sel(j.params.to) ELSE None]]
    /\ UNCHANGED <<heads, promo, served>>

\* The gate. The health, ABI and security evidence the run has just recorded
\* may hold a promotion back; so does the soak, and that there is nothing new.
EvidenceBlocks(w) ==
    /\ At_(w, "gate")
    /\ Goto(w, "done")
    /\ UNCHANGED <<schedVars, heads, promo, served>>

soak_age_reason(from) == last_promotion(from) # None /\ last_promotion(from).age < Soak
Gate(w) ==
    /\ At_(w, "gate")
    /\ LET from == busy[w].params.from  last == last_promotion(Target(w)) IN
       Goto(w, IF soak_age_reason(from) \/ heads[from] = None \/ (last # None /\ last.src = from)
               THEN "done" ELSE "previous")
    /\ UNCHANGED <<schedVars, heads, promo, served>>

\* What a rollback would go back to is read before the ring moves.
Previous(w) ==
    /\ At_(w, "previous")
    /\ work' = [work EXCEPT ![w].prev = Sel(Target(w)), ![w].pc = IF busy[w].kind = "promote" THEN "promote" ELSE "fast_track"]
    /\ UNCHANGED <<schedVars, heads, promo, served>>

\* Mutant: what to go back to is read after the promotion.
PromoteFirst(w) ==
    /\ At_(w, "promote") /\ heads[busy[w].params.from] # None
    /\ Release(Target(w), Sel(busy[w].params.from), TRUE, busy[w].params.from)
    /\ work' = [work EXCEPT ![w].pc = "align", ![w].prev = Sel(busy[w].params.from)]
    /\ UNCHANGED <<schedVars, served>>

Promote(w) ==
    /\ At_(w, "promote") /\ heads[busy[w].params.from] # None
    /\ Release(Target(w), Sel(busy[w].params.from), TRUE, busy[w].params.from)
    /\ Goto(w, "align")
    /\ UNCHANGED <<schedVars, served>>

\* The OPR's channel of the ring is synced into it; that may fail, or find nothing new.
Align(w) ==
    /\ At_(w, "align")
    /\ \/ UNCHANGED <<heads, promo>>
       \/ \E s \in env.pins : Release(Target(w), s, FALSE, None)
    /\ Goto(w, "render")
    /\ UNCHANGED <<schedVars, served>>

\* Security: what edge has clean is pulled into the ring, when there is any.
FastTrack(w) ==
    /\ At_(w, "fast_track")
    /\ \/ NextRing(w, "previous") /\ UNCHANGED <<heads, promo>>
       \/ heads[Target(w)] # None /\ (\E s \in env.pins : Release(Target(w), s, FALSE, None)) /\ Goto(w, "render")
    /\ UNCHANGED <<schedVars, served>>

\* A sync pins what its sources brought to the ring, when there is any.
PinRing(w) ==
    /\ At_(w, "pin")
    /\ \/ NextRing(w, "pin") /\ UNCHANGED <<heads, promo>>
       \/ (\E s \in env.pins : Release(Target(w), s, FALSE, None)) /\ Goto(w, "render")
    /\ UNCHANGED <<schedVars, served>>

RenderRing(w) ==
    /\ At_(w, "render")
    /\ served' = [served EXCEPT ![Target(w)] = Sel(Target(w))]
    /\ IF busy[w].kind = "sync" THEN NextRing(w, "pin") ELSE Goto(w, "check")
    /\ UNCHANGED <<schedVars, heads, promo>>

\* Health of the ring, by a real pacman: it passes, or the ring goes back.
Healthy(w) ==
    /\ At_(w, "check")
    /\ NextRing(w, "previous")
    /\ UNCHANGED <<schedVars, heads, promo, served>>

Unhealthy(w) ==
    /\ At_(w, "check")
    /\ Goto(w, IF work[w].prev = None THEN "failing" ELSE "rollback")
    /\ UNCHANGED <<schedVars, heads, promo, served>>

Rollback(w) ==
    /\ At_(w, "rollback")
    /\ Release(Target(w), work[w].prev, TRUE, None)
    /\ Goto(w, "rerender")
    /\ UNCHANGED <<schedVars, served>>

RenderAgain(w) ==
    /\ At_(w, "rerender")
    /\ served' = [served EXCEPT ![Target(w)] = Sel(Target(w))]
    /\ NextRing(w, "previous")
    /\ UNCHANGED <<schedVars, heads, promo>>

Over(w) == work' = [work EXCEPT ![w] = NoWork] /\ UNCHANGED <<heads, promo, served>>
Finish(w) == At_(w, "done") /\ CompleteJob(w) /\ Over(w)
Fail(w)   == busy[w] # None /\ FailJob(w) /\ Over(w)
Stop(w)   == busy[w] # None /\ Die(w) /\ Over(w)

-----------------------------------------------------------------------------
\* Bound: where the deployment says so, what is queued is done before the clock's next stop.
TimePasses ==
    /\ env.prompt => \A j \in Jobs : \A i \in DOMAIN tasks[j].rows : tasks[j].rows[i].status = "lost"
    /\ Clock
    /\ LET d == IF minute' > minute THEN minute' - minute ELSE minute' - minute + 1440
       IN promo' = [r \in Ring |-> IF promo[r] = None THEN None ELSE [promo[r] EXCEPT !.age = Later(@, d)]]
    /\ UNCHANGED <<heads, served, work>>

JobStep(w) ==
    \/ Begin(w) \/ Gate(w) \/ Previous(w) \/ Promote(w) \/ Align(w) \/ FastTrack(w) \/ PinRing(w) \/ RenderRing(w)
    \/ Healthy(w) \/ Rollback(w) \/ RenderAgain(w) \/ Finish(w)
Trouble(w) == EvidenceBlocks(w) \/ Unhealthy(w) \/ Fail(w) \/ Stop(w)
Hands == \E b \in env.requests : handleQueueJob(b)

Next ==
    \/ (TickStep \/ World \/ Hands) /\ UNCHANGED ringVars
    \/ TimePasses
    \/ \E w \in Arch : JobStep(w) \/ Trouble(w)

Spec == PipelineInit /\ [][Next]_vars

-----------------------------------------------------------------------------
(* Properties.                                                             *)

\* What a promotion takes has been in the ring it comes from for the whole
\* soak since it was promoted there, unless a maintainer forced it (gate.rs,
\* head comment), whatever was synced, rolled back or fast-tracked since.
SoakHolds ==
    [][\A w \in Arch :
          (/\ At_(w, "promote") /\ work'[w].pc = "align" /\ ~busy[w].params.force
           /\ promo[busy[w].params.from] # None) => promo[busy[w].params.from].age >= Soak]_vars

\* After a promotion whose health failed, the ring pins, and its
\* databases list, what it served when the job began (work.rs, promote_job).
RollbackRestores ==
    [][\A w \in Arch :
          (At_(w, "rerender") /\ busy[w].kind = "promote" /\ work'[w].pc = "done") =>
              served'[Target(w)] = work[w].was /\ Sel(Target(w)) = work[w].was]_vars

\* What the two above take for granted. The rules queue a fast track for the
\* x86_64 worker alone and promote towards stable alone; a maintainer may ask
\* for a fast track by the other worker, or for a promotion back into edge, and
\* either then moves a ring under a promotion in progress.
OneFastTrack == \A d \in Deployments : \A b \in d.requests : b.kind = "security" => b.arch # "aarch64"
Onward       == \A d \in Deployments : \A b \in d.requests : b.kind = "promote" => b.params.to # "edge"

\* The rings move without a human: when rc is promoted into again and again,
\* so is stable (docs/ARCHITECTURE.md: "stable a day behind rc").
Promoted(to) == \E w \in Arch : At_(w, "promote") /\ work'[w].pc = "align" /\ Target(w) = to
StableMoves == []<><<Promoted("rc")>>_vars => []<><<Promoted("stable")>>_vars

\* Nothing goes wrong, and everything that can be done is done in the end.
Smooth ==
    /\ PipelineInit
    /\ [][(TickStep /\ UNCHANGED ringVars) \/ TimePasses \/ \E w \in Arch : JobStep(w)]_vars
    /\ WF_vars(TickStep /\ UNCHANGED ringVars) /\ WF_vars(TimePasses) /\ \A w \in Arch : WF_vars(JobStep(w))
=============================================================================
