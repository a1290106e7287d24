---------------------------- MODULE GraphsAgree ----------------------------
(***************************************************************************)
(* The two runtimes side by side: an execution by AdkGraphRuntime          *)
(* (GraphRuntime) and the graph GraphBuilder makes of the same plan.  The  *)
(* builder wants a condition on the review that AdkGraphRuntime does       *)
(* without, so it gets the plan with that condition.                       *)
(***************************************************************************)
EXTENDS GraphRuntime

Built == INSTANCE GraphBuilder

Conditioned ==
    LET reviews == {b.review : b \in Branches(steps)}
    IN  [i \in DOMAIN steps |->
            [steps[i] EXCEPT !.cond = IF steps[i].id \in reviews
                                        THEN MissingData ELSE "none"]]

Said == IF asked THEN MissingData ELSE Unconditional

(* The starts are the requests, and none of a step was made although one   *)
(* it depends on is stuck.                                                 *)
SameRun(starts, built) ==
    \A t \in Ids(steps) :
       /\ starts[t] = requests[t]
       /\ \A d \in DependsOn(steps, t) :
             starts[t] > 0 /\ starts[d] > 0 => Built!Starts(built, Said, {d})[t] = 0

(* Whatever the plan and whatever its source reported, the built graph     *)
(* starts the steps this execution ran, each of them once, and none of     *)
(* them before those it depends on: as long as one of these does not       *)
(* finish, the step does not start (_runtime_join_groups,                  *)
(* _generic_conditional_runtime_join_groups).                              *)
BuiltGraphAgrees ==
    phase = "completed" /\ OnlySynthesisAfterReview =>
       SameRun(Built!Starts(Conditioned, Said, {}), Conditioned)
=============================================================================
