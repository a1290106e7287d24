---------------------------- MODULE GraphRuntime ----------------------------
(***************************************************************************)
(* One execution of an approved plan by AdkGraphRuntime.execute, behind    *)
(* the guarded handlers of _GuardedGraphRuntime (service.py).  The ADK     *)
(* workflow runs function nodes as tasks of one event loop: a node whose   *)
(* trigger has arrived starts at any later moment, several run at the same *)
(* time, and an edge is followed when its node finishes.                   *)
(***************************************************************************)
EXTENDS PlanGraph

CONSTANTS Workflows,    \* step lists of approved plans
          HandlerSets   \* sets of agents with a registered handler

(* Plans are validated when they are made and after every edit.            *)
ASSUME WorkflowsAssumption == /\ Workflows \subseteq Seq(Steps)
                              /\ \A w \in Workflows : WellFormed(w)

VARIABLES steps,     \* the approved plan's steps
          handlers,  \* agents with a handler in this process
          phase,     \* "new", "running", then "completed" or "failed"
          triggers,  \* step id -> activations of its node not yet started
          arrived,   \* step id -> predecessors its join node has seen
          requests,  \* step id -> how often its specialist was requested
          running,   \* steps whose handler is awaited
          outputs,   \* steps with an entry in step_outputs
          asked,     \* the source of the review reported missing data
          failed,    \* steps whose handler raised
          refused    \* those of them the guard turned down

gvars == <<steps, handlers, phase, triggers, arrived, requests, running,
           outputs, asked, failed, refused>>

GInit == /\ steps \in Workflows
         /\ handlers \in HandlerSets
         /\ phase = "new"
         /\ triggers = [t \in StepIds |-> 0]
         /\ arrived  = [t \in StepIds |-> {}]
         /\ requests = [t \in StepIds |-> 0]
         /\ running = {}
         /\ outputs = {}
         /\ asked = FALSE
         /\ failed = {}
         /\ refused = {}

-----------------------------------------------------------------------------
Unhandled == AgentsOf(steps) \ handlers

(* A plan with a step nobody can run fails before any step starts.         *)
MissingHandlers == /\ phase = "new"
                   /\ Unhandled # {}
                   /\ phase' = "failed"
                   /\ failed' = {steps[i].id : i \in {j \in DOMAIN steps :
                                                  steps[j].agent \in Unhandled}}
                   /\ UNCHANGED <<steps, handlers, triggers, arrived, requests,
                                  running, outputs, asked, refused>>

(* The workflow starts every step that depends on nothing.                 *)
StartWorkflow ==
    /\ phase = "new"
    /\ Unhandled = {}
    /\ phase' = "running"
    /\ triggers' = [t \in StepIds |->
                       IF t \in Ids(steps) /\ DependsOn(steps, t) = {}
                         THEN 1 ELSE 0]
    /\ UNCHANGED <<steps, handlers, arrived, requests, running, outputs, asked,
                   failed, refused>>

(* The request is built from the outputs there are now, and the guard sees *)
(* it before the specialist does.                                          *)
StartStep(t) ==
    LET accepted == GuardAccepts(steps, t, DependencyOutputs(steps, t, outputs))
    IN  /\ phase = "running"
        /\ triggers[t] > 0
        /\ t \notin running
        /\ triggers' = [triggers EXCEPT ![t] = @ - 1]
        /\ requests' = [requests EXCEPT ![t] = @ + 1]
        /\ running' = IF accepted THEN running \cup {t} ELSE running
        /\ failed'  = IF accepted THEN failed ELSE failed \cup {t}
        /\ refused' = IF accepted THEN refused ELSE refused \cup {t}
        /\ UNCHANGED <<steps, handlers, phase, arrived, outputs, asked>>

(* The edges a finished step follows: the unconditional ones, and of its   *)
(* conditional ones that of the route it chose, the default one otherwise. *)
Followed(t, missing) ==
    {e \in Outgoing(steps, t) :
        e.route \in {Unconditional, IF missing THEN MissingData
                                               ELSE DefaultRoute}}

Seen(u, followed) ==
    arrived[u] \cup {Arrival(steps, e) : e \in {f \in followed : f.to = u}}

Passed(u, followed) == /\ Joined(steps, u)
                       /\ Seen(u, followed) = Awaited(steps, u)
                       /\ Seen(u, followed) # arrived[u]

NewTriggers(u, followed) ==
    IF Joined(steps, u)
      THEN IF Passed(u, followed) THEN 1 ELSE 0
      ELSE Cardinality({e \in followed : e.to = u})

(* The specialist answers; only the source of the review may set a route.  *)
FinishStep(t, missing) ==
    /\ phase = "running"
    /\ t \in running
    /\ missing => \E b \in Branches(steps) : t = b.source
    /\ running' = running \ {t}
    /\ outputs' = outputs \cup {t}
    /\ asked' = (asked \/ missing)
    /\ LET followed == Followed(t, missing)
       IN  /\ triggers' = [u \in StepIds |->
                              triggers[u] + NewTriggers(u, followed)]
           /\ arrived' = [u \in StepIds |->
                             IF Joined(steps, u) /\ ~ Passed(u, followed)
                               THEN Seen(u, followed) ELSE {}]
    /\ UNCHANGED <<steps, handlers, phase, requests, failed, refused>>

(* The handler raises: the step fails, and nothing after it is triggered.  *)
FailStep(t) ==
    /\ phase = "running"
    /\ t \in running
    /\ running' = running \ {t}
    /\ failed' = failed \cup {t}
    /\ UNCHANGED <<steps, handlers, phase, triggers, arrived, requests, outputs,
                   asked, refused>>

(* The workflow ends with the error of a failed step.  Until it does,      *)
(* other nodes may still start and finish; tasks left over are cancelled.  *)
Abort == /\ phase = "running"
         /\ failed # {}
         /\ phase' = "failed"
         /\ running' = {}
         /\ UNCHANGED <<steps, handlers, triggers, arrived, requests, outputs,
                        asked, failed, refused>>

(* Mutant: the workflow waits until every step of the plan has run.        *)
CompleteAllRun ==
    /\ phase = "running"
    /\ failed = {}
    /\ Ids(steps) \subseteq outputs
    /\ phase' = "completed"
    /\ UNCHANGED <<steps, handlers, triggers, arrived, requests, running,
                   outputs, asked, failed, refused>>

(* The workflow ends when no node runs and none has been triggered.        *)
Complete == /\ phase = "running"
            /\ failed = {}
            /\ running = {}
            /\ \A t \in StepIds : triggers[t] = 0
            /\ phase' = "completed"
            /\ UNCHANGED <<steps, handlers, triggers, arrived, requests,
                           running, outputs, asked, failed, refused>>

GNext == \/ MissingHandlers
         \/ StartWorkflow
         \/ Abort
         \/ Complete
         \/ \E t \in StepIds : \/ StartStep(t)
                               \/ FailStep(t)
                               \/ \E missing \in BOOLEAN : FinishStep(t, missing)

(* The event loop goes on while it has work, and specialists answer or     *)
(* raise: the code sets no timeout of its own.                             *)
GSpec == GInit /\ [][GNext]_gvars /\ WF_gvars(GNext)

-----------------------------------------------------------------------------
(* Type correctness of an execution of AdkGraphRuntime.                    *)
RuntimeTypeOK ==
    /\ steps \in Workflows
    /\ handlers \in HandlerSets
    /\ phase \in {"new", "running", "completed", "failed"}
    /\ triggers \in [StepIds -> Nat]
    /\ \A t \in StepIds : arrived[t] \subseteq Awaited(steps, t)
    /\ requests \in [StepIds -> Nat]
    /\ running \subseteq Ids(steps)
    /\ outputs \subseteq Ids(steps)
    /\ asked \in BOOLEAN
    /\ refused \subseteq failed
    /\ failed \subseteq Ids(steps)

(* The guard of request_context.py, which derives what a request may carry *)
(* from the approved plan on its own, never refuses a request the runtime  *)
(* makes for a step of that plan.                                          *)
GuardNeverRefuses == refused = {}

(* No step but a synthesis depends on the conditional review.              *)
OnlySynthesisAfterReview ==
    \A b \in Branches(steps), i \in DOMAIN steps :
        b.review \in steps[i].deps => steps[i].id = b.synthesis

(* An execution that reports completion has run every step of the plan     *)
(* once, the review exactly when its source reported missing data.         *)
CompletedRanAll ==
    phase = "completed" =>
        \A t \in Ids(steps) :
            requests[t] = IF /\ \E b \in Branches(steps) : t = b.review
                             /\ ~ asked
                            THEN 0 ELSE 1

(* Completion means a full run when only the synthesis needs the review.   *)
CompletionIsFull == OnlySynthesisAfterReview => CompletedRanAll

(* A plan is executed step by step as PlanRun promises: each step at most  *)
(* once, after its dependencies, the review only when asked for.           *)
Run == INSTANCE PlanRun WITH
           begun   <- {t \in StepIds : requests[t] > 0},
           done    <- outputs,
           outcome <- IF phase \in {"new", "running"} THEN "open" ELSE phase

ImplementsPlanRun == Run!RSpec

(* Each step is requested at most once, whatever the interleaving: no edge *)
(* of the graph triggers a step a second time.                             *)
RequestedOnce == \A t \in StepIds : requests[t] <= 1

(* Whatever fails or is skipped, the execution ends: no join, merge or     *)
(* route leaves the caller waiting.                                        *)
ExecutionEnds == <>(phase \in {"completed", "failed"})
=============================================================================
