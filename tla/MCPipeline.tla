----------------------------- MODULE MCPipeline -----------------------------
(***************************************************************************)
(* Small instances of the scheduler and the rings. Each deployment is a    *)
(* scene: the daily bookkeeping over a moving OPR repository, the bill and *)
(* its guard, the workflow GitHub runs, the rules with what a maintainer   *)
(* queues beside them, the daily promotions, forced and failing ones, one  *)
(* beside a sync of the other architecture, and each other job by hand.    *)
(***************************************************************************)
EXTENDS Pipeline

CONSTANTS b1, b2

Look == [kinds |-> {}, analytics |-> FALSE, github |-> FALSE, weekdays |-> {0}, minutes |-> {0},
         prompt |-> FALSE, requests |-> {}, recipes |-> {}, pins |-> {1}]
Ask(kind, params, arch) == [kind |-> kind, params |-> params, arch |-> arch]
In(ring) == [Params EXCEPT !.ring = ring]

Books  == [Look EXCEPT !.minutes = {0, 320},
                       !.recipes = {[blob |-> b1, meta |-> None], [blob |-> b1, meta |-> "local"], [blob |-> b2, meta |-> "aur"]}]
Guard  == [Look EXCEPT !.kinds = {"metrics", "enqueue"}, !.analytics = TRUE, !.minutes = {0, 30, 395, 500}]
Bumps  == [Look EXCEPT !.github = TRUE, !.minutes = {0, 350, 360}]
Rules  == [Look EXCEPT !.kinds = {"enqueue", "gc"}, !.weekdays = {0, 1}, !.minutes = {0, 250}, !.requests = {Ask("gc", Params, None)}]
Days   == [Look EXCEPT !.kinds = {"promote"}, !.prompt = TRUE, !.minutes = {0, 550}]
Checks == [Look EXCEPT !.pins = {1, 2}, !.requests = {Ask("promote", Daily("rc", "stable", "daily stable"), None),
                                  Ask("promote", [Daily("rc", "stable", "now") EXCEPT !.force = TRUE], None)}]
Beside == [Look EXCEPT !.prompt = TRUE, !.pins = {2},
                       !.requests = {Ask("promote", Daily("rc", "stable", "daily stable"), None),
                                     Ask("sync", [Params EXCEPT !.arch = "aarch64"], None)}]
ByHand == {[Look EXCEPT !.requests = {b}] :
              b \in {Ask("sync", [Params EXCEPT !.arch = a], None) : a \in Arch} \cup {Ask("sync", In("rc"), None)}
                    \cup {Ask(k, Params, None) : k \in {"security", "enqueue", "gc", "relayout", "verify"}}
                    \cup {Ask("verify", In("rc"), None), Ask("rollback", [In("stable") EXCEPT !.to = "stable"], None)}
                    \cup {Ask(k, [In("stable") EXCEPT !.arch = "aarch64"], None) : k \in {"render", "health"}}}

MCScenes == {Books, Guard, Bumps, Rules, Days, Checks, Beside} \cup ByHand

\* What the theorems about the rings assume of a deployment holds of these.
ASSUME Apart == OneFastTrack /\ Onward

MCMonth  == {[Look EXCEPT !.kinds = {"promote", "sync"}, !.prompt = TRUE, !.minutes = {0, 370, 550}]}
=============================================================================
