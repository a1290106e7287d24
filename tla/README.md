# A TLA+ model of the ADK A2UI orchestrator

The repository (`src/`) is a Python demo of an *orchestrator agent*: a user
request is routed to one specialist agent or turned into an execution plan; the
plan is shown to the user as an A2UI *approval canvas*, edited and approved or
rejected through structured user actions, and an approved plan is executed as a
graph of specialist calls. The orchestrator runs inside Google ADK, whose
session state carries the orchestrator's state from one tool call to the next.

This directory holds TLA+ modules that model the program, TLC configurations
that check small instances, and TLAPS proofs about every instance.

## 1. Inventory

Paths are relative to `src/orchestrator_demo/`.

| component | state it keeps | operations | hard behaviour |
|---|---|---|---|
| Draft plan (`contracts.py`, `orchestrator/approval_state.py:635-844`) | a value: version, steps, dependencies, selected agents | edit, remove, reorder, replace agent, add instruction | sequences of edits that rewire dependencies; the conditional review and the final synthesis must survive |
| Approval store (`orchestrator/approval_state.py`) | a record per plan: status, draft, frozen plan, bound version, failure reason; an `RLock` | `add_draft`, `apply_user_action` (edits, approve, reject), `reset_failed_approval`, `export_records`, `restore_records` | stale and repeated clicks, failure during an approval, registry reloads |
| Request context (`orchestrator/request_context.py`) | draft snapshot, approved steps and payloads, surface owners of one request | `record_draft_plan`, `mark_plan_approved`, `reset_plan_approval`, `require_specialist_call_allowed` | the guard has its own copy of the draft, which must follow the store's |
| Service (`orchestrator/service.py`) | the store, contexts by plan id, the surface registry | `handle_user_request`, `handle_user_action`, snapshots | steps that fail halfway |
| Surface registry (`orchestrator/surface_routes.py`, `a2ui_support/renderer_contract.py`) | owner of each A2UI surface, its components | register, clear, route an action to its owner | an await between looking up an owner and registering the surfaces of its answer; all-or-nothing registration |
| ADK adapter (`orchestrator/agent.py`, `session_snapshot.py`) | an `asyncio.Lock`, a cache of decided plans and a cache of newest drafts | the ADK tools: restore, operate, export | overlapping invocations with stale state copies, lost writes, restarts |
| Graph runtime and builder (`orchestrator/graph_runtime.py`, `graph_builder.py`) | none between executions; outputs and failures during one | build a workflow, run its steps | parallel steps, joins, conditional routes, failures |
| Planner and router (`orchestrator/planner.py`, `router.py`) | none | decide a route; make a plan | the registry may change between the two; names made of other names may collide |
| Agent registry (`registry/agent_registry.py`) | descriptors by id, the imported config module | `reload`, queries | a reload that fails halfway |
| Intent classification (`intent/`) | none | two assessments and their merge | ordered rules with overlapping conditions; a language model that may answer anything |
| Specialists and A2A wrappers (`agents/`, `a2a_support/`) | call logs | answer a request or an action | none of their own |
| A2UI validation, canvases, event parsing (`a2ui_support/`) | none (the components of each surface are the surface registry's) | validate, build, parse | updates judged one at a time against what earlier ones left |
| ADK UI delivery (`a2ui_support/adk_ui_delivery.py`, `adk_a2a_plugin.py`) | parts cached per tool call | turn tool responses into events | parts matched to responses |
| Settings, logging, artifacts, response payloads | none read back | input and output | none |

How they interact: an ADK tool of the adapter takes the session lock, restores
the service from `tool_context.state`, calls `handle_user_request` or
`handle_user_action`, and exports the service back into the state. The service
asks the surface registry who owns the surface of an action; an
orchestrator-owned one goes to the approval store, which executes an approved
plan synchronously through a runtime that asks the plan's request context
before every specialist call. ADK stores the state with the event of the tool
call and shows the canvases the event carries.

What makes each component correct:

* *Plans*: every edit yields a valid plan and keeps the order of what it did
  not touch, the conditional review with its sources, and a synthesis of all.
* *Store*: what runs is what the user saw; one successful execution; decisions
  are final; a failed execution returns to the same draft.
* *Contexts*: the guard is open only for the approved steps of an approved
  plan, and knows the draft the store has.
* *Service*: no plan is stuck in a state no action leaves; a shown plan has its
  surface while it waits for a decision, unless the surfaces were cleared or an
  earlier set of them restored, and no decided plan has one.
* *Adapter*: no stale copy of the session state reopens a decided plan or
  overwrites an edit.
* *Surfaces*: one owner per surface, no answer registered halfway, canvases a
  renderer can draw, and room for every approval canvas.
* *Routing*: a sensitive request never reaches a specialist without its
  guardrails and an approval; every draft is one the store takes in and keeps
  its name.
* *Graph runtime*: a step runs after its dependencies, at most once per
  execution; a conditional review runs only when data is missing; every
  execution ends.

`PROJECT.json` lists all components and, under `hazards`, what is hard to test.

## 2. Modules

    PlanDraft            a plan and its edits, as operators
      ApprovalStore      the approval store                implements PlanLifecycle
        OrchestratorService  store + contexts + approval surfaces
          AdkAdapter     the service in an ADK session: copies, caches, crashes
                         (both implement PlanLifecycle as well)
      PlanGraph          the workflow graph of a plan, as operators
        GraphRuntime     one execution of an approved plan  implements PlanRun
          GraphsAgree    the execution beside the graph of GraphBuilder
      GraphBuilder       the second construction of the graph
      RequestRouting     requests, routes, draft plans, reloads
    IntentClassification the assessments of a request, as operators
    ComponentGraph       the components of an A2UI surface, as operators
      SurfaceRoutes      the surface registry and the operations that use it
    PlanLifecycle        abstract: the life of a plan without plans
    PlanRun              abstract: one execution without a graph

    PlanDraft_proofs, ApprovalStore_proofs, OrchestratorService_proofs,
    AdkAdapter_proofs, GraphRuntime_proofs, RequestRouting_proofs,
    SurfaceRoutes_proofs, RecursionLemmas                   TLAPS

    MCApprovalStore, MCOrchestratorService, MCAdkAdapter, MCGraphRuntime,
    MCSurfaceRoutes, MCRequestRouting                       instances for TLC

(`RequestRouting` extends `IntentClassification` as well.)

### PlanDraft

A step is its id, agent, the instructions the *user* added, its dependencies and
its condition; the texts derived from the agent, the expected output, data
categories and parallel group follow from the agent or never change. `WellFormed`
is the pydantic validation of `ExecutionPlan` (unique ids, declared and acyclic
dependencies). Each edit is an operator for its result and one for its guard:
`RemoveStep`/`CanRemove` (`_remove_step`, `_rewired_dependencies`),
`ReplaceAgent`/`CanReplace`, `ReorderSteps`/`Orders`, `AddInstruction`. Acyclicity
and precedence are stated over sets of steps, so that there is no recursion.

### ApprovalStore

`records` is `_records_by_plan_id`; `registry` the ids of the descriptors the
store is given; `shown` and `execs` are history variables: the canvases built
for the user, and the executions with the canvas they were approved on. Every
public method holds the store's lock throughout, so each is one action. A user
action is a click on some canvas ever shown: it carries its plan, version and
step ids. A click the store refuses changes nothing and is a stuttering step.
`GuardedMode` tells the store inside the service (it has a runtime and a plan
validator) from the store by itself (it builds a default runtime and records a
preflight failure).

### PlanLifecycle

What a client may rely on, without plans: drafted once, the version grows by one
per edit and only as a draft, an approval binds the version it was given for, a
decision is final except that a failed execution returns to its draft.

### OrchestratorService

Adds `contexts` (`_contexts_by_plan_id`) and `surfaces` (which plans have their
approval surface registered). `ClearSurfaces` and `RestoreSurfaces` are the
public `clear_renderer_surfaces` and `restore_renderer_surfaces`: `kept` is the
snapshot the caller of the clear holds, which a restore uses up, as its docstring
has it ("after a failed UI refresh"); the history variable `retired` has the plans
that lost their surface this way, so that `SurfaceWhilePending` can say that
nothing else takes a surface from a pending plan. A user action reaches the store only through a
registered surface. `UserApproves` is the whole chain: the checks, the freeze,
the guard's `mark_plan_approved`, the execution, and on a graph failure the
reset of guard and record and the new context draft. A failure of the guard
itself is not a `GraphRuntimeError` and is not undone; `NoPlanStuckFailed` shows
that it cannot happen.

### AdkAdapter

One ADK session. `calls[i].view` is the copy of the session state invocation `i`
loaded, `store` what the session service holds, `finals` and `newest` the two
caches (`_finalized_plan_snapshots_by_key`, `_latest_draft_plan_snapshots_by_key`),
`lock` the `asyncio.Lock`. A tool call is `Restore` and `Handle`; between them it
holds the lock, but a crash may come. `Restore` corrects the copy from the
caches, loads it and learns from it; `Handle` performs one operation (or a
refused one), exports and learns again. `Commit` is ADK's `append_event`: the
state becomes the stored one and the canvases reach the user. The session
service is external: it is modelled as *the last state written wins, and an
invocation keeps the copy it loaded*, which is what the adapter's caches and
their tests presuppose (`src/tests/test_adk_tool_flows.py`).

`SessionImplementsLifecycle` maps the session to `PlanLifecycle` through the
caches: the record of a plan is the decided one of the first cache, or else the
draft of the second. The memory of the service would not do, since a restore from
an old copy may drop a plan from it; the caches make the overlapping invocations
one life of each plan.

### PlanGraph and GraphRuntime

`PlanGraph` is the graph construction of `graph_runtime.py` as operators on the
steps: `Branches` (`_conditional_data_quality_branch`: empty or one record),
`Edges` (`build_graph_spec`), `Merged` (`_conditional_merge_groups`), `Joined`
(`_join_targets`). A merge node has no effect but to pass its trigger on, and a
node may start at any time after its trigger, so a merge node needs no state: the
join of a step sees the source of the merged edges instead (`Awaited`,
`Arrival`). `DependencyOutputs` is what a request carries, `GuardAccepts` what
`request_context.py` accepts; the two are written independently in the code.

`GraphRuntime` is one `execute`: `MissingHandlers` or `StartWorkflow`; for each
step `StartStep` (request built, guard asked, specialist called), then
`FinishStep` (answer recorded, route chosen, edges followed) or `FailStep`; and
`Complete` or `Abort`. Steps interleave freely between start and finish, which is
the `await` of the handler.

The ADK workflow scheduler (`google-adk` 2.1.0) is external. Assumed of it: a
function node runs once per trigger; an edge without a route is always followed,
one with a route when the node set that route, a default one when no other
matches; a join node passes once every predecessor has come; a workflow ends
when no node runs and none is triggered, also with a join half full; an error of
a node ends the workflow with an error, at some later time. The tests of
`src/tests/test_graph_execution.py` rest on the same.

### GraphBuilder and GraphsAgree

`graph_builder.py` builds another graph of the same plan, for
`AdkWorkflowRuntimeFactory`: a join for every set of edges that can arrive
together (`Groups`: per combination of routes when a step has optional edges),
and a gate node where a routed edge enters a join (`Gate`). In `src/` only its
tests call it; it is modelled as what it is, a second and independent answer to
the question which steps run. `FollowedEdges` lets every node fire that all its
edges have woken, round by round; `Starts` is how often each step starts.
`GraphsAgree` puts it beside an execution of `GraphRuntime`: `BuiltGraphAgrees`
compares the starts of the two, also with any one dependency stuck. The builder
asks for a condition on the review where `AdkGraphRuntime` looks at its agent
only, so it is given the plan with the condition (`Conditioned`).

### ComponentGraph and SurfaceRoutes

`ComponentGraph` is `schema_manager.py` and `validation.py` for what depends on
earlier messages: unique ids, references by id and circles, in a message together
with the components it leaves on the canvas (`UpdateAccepted`), and replacement
(`Updated`). Whether one message by itself has the shape of the A2UI schema is a
bit of the message (`shaped`). `Sound` states for the whole canvas what the
checks ensure one update at a time.

`SurfaceRoutes` has the two maps of `SurfaceRouteRegistry` (`owners`,
`canvases`), the user actions under way (`calls`), which plans are shown
(`plans`), and one saved snapshot. `UserActs` looks up the owner and sends the
action, `HandlerAnswers` uses that owner when the answer has come: everything
else may happen in between, which is the `await` of `route_user_action`.
`Staged`, `Claimed`, `Committed` are the staging of components, of owners and the
commit; `Prepared` is the preparation of an answer for the renderer, which does
the same again and falls back to a message of its own. `ProposePlan`, `EditPlan`
and `DecidePlan` are the canvas of a plan, with the answers of an execution in
`DecidePlan`. A session is restored under the session lock, so not while a user
action is under way.

### IntentClassification and RequestRouting

A request is the set of the phrases in it that a rule looks for; one phrase
stands for all that no rule tells apart. `Rules` are the rules in their order,
`Assessed` the first that fits, `MergedConfidence` the 40:60 merge in integers.
A language model in place of the rules is any member of `Opinions`.

`RequestRouting` has the registry, the requests and the drafts. `Ask` takes the list of agents and awaits
the classifier; `Clarify`, `CallDirectly` or `ProposePlan` decide with *that* list
(`Path`), and the planner reads the registry *again* (`CanPlan`, `DraftPlan`):
reloads run in between. A reload is one step, which replaces the descriptors or
changes nothing. Step ids are given out one by one (`StepIdsOf`), each the stem of
its agent or the first of `stem_2`, `stem_3`, ... that is not in use (`FirstFree`);
`Numbered` says which names these are, and `review_2` may be the stem of one agent
and the second id of another. Plan ids are the topic, the scope and the first
number that is free (`FreeId`).

### PlanRun

An execution without graph, triggers or joins: a step begins at most once, when
what it depends on is done; the review only when its source asked for it, the
synthesis without review only when it did not; completion leaves no step begun
and unanswered.

Definitions whose comment begins with *Mutant* are plausible bugs; a property is
listed with the mutant that violates it in `PROJECT.json`. No action uses them.

## 3. Runs

| run | instance | shows |
|---|---|---|
| `store` | one plan: star, chain, conditional or one that may not be approved; all five edits, versions up to 3, two registries, two executions, default runtime | edits in every order keep precedence, the conditional review and the synthesis; execution as shown, one success, final decisions, refinement of `PlanLifecycle` |
| `service` | two plans, all edits, two registries, a missing handler, surfaces cleared and restored at any time | contexts, guard, records and surfaces agree; the store in the service still implements `PlanLifecycle` |
| `adapter_overlap` | one plan, three overlapping invocations, versions up to 2, two executions | the caches defeat stale copies while the process lives, and see one life of the plan |
| `adapter_crash` | one plan, two invocations, a fresh session, crashes anywhere | what is restored together agrees |
| `adapter_redaction` (violation) | one invocation | an exported instruction is rewritten under the same version |
| `adapter_fresh` (violation) | three invocations, one begun before the session had state | an empty copy clears the caches and a decided plan opens again |
| `runtime` | every dependency graph of three steps (workers or reviews) and a synthesis; a missing handler or none | refinement of `PlanRun`, one request per step, no refusal by the guard, full runs, an end; the built graph starts the same steps |
| `runtime_detour` (violation) | one plan with a step behind the review | the step is skipped and completion is reported |
| `surfaces` | one plan, two screens, three specialists (one without user actions), two user actions under way, ten answers, two executions | answers count whole or not at all, specialists stay out of others' surfaces, canvases can be drawn, no approval canvas is refused |
| `surfaces_fallback` (violation) | the same | an answer the registry took in is replaced by a fallback and stays in the registry |
| `routing` | two requests of one scope, six texts and four opinions of a model, reloads from four sources | guardrails, valid drafts, plan ids |
| `routing_reload` (violation) | one request | a reload during the classifier's await takes a guardrail agent out of a sensitive plan |

Bounds: `MaxVersion` bounds the edits of a plan and `MaxAttempts` the executions,
in the guards. Three versions allow an edit of an edited plan, hence canvases
two versions old; two executions allow failure, reset and success, and a second
success if the code let it. Two agents besides
synthesis and data quality let a replacement introduce or remove each role. The
plans are those `planner._build_steps` makes (a star with synthesis last, a
single step) and the chain and conditional plan of the tests. Three invocations
are the least number that shows a stale copy surviving a decision and a second
stale copy following it. Two user actions under way are what it takes for
surfaces to change owner while an action is awaited; the answers of `surfaces`
contain, for each rule of the registry, one that meets it only in some states:
additions that need what is there, circles closed over two updates,
replacements, moves, claims on others' surfaces, several messages of which the
last is refused. The snapshot that is restored is one with a surface of each
specialist. Two requests of one scope are the least that collide on a plan id,
and `Tries = 1..3` leaves a free one; two agents of `routing` have the same stem
of a step id, and a third has the stem that the second of them gets as its id.
The texts of the adapter's runs take two exports to be redacted in full. Deadlock is checked in every run but the two of `GraphRuntime`,
where a finished execution stops.

The refuted expectations:

* `adapter_redaction`: `_redacted_json_safe` (`session_snapshot.py:109-121`)
  rewrites texts with words such as *token* on their way into the session state;
  the next tool call works on the rewritten draft, of the same version, so the
  approval of the canvas that showed the original executes other text. Redaction
  is not idempotent either (`db.token: token` becomes `db.token: <redacted-key>`
  and then `db.<redacted-secret>`), so a text may change with every export. What
  remains true is `ExecutedAsShownButRedacted`: what runs is what was shown but for
  any number of redactions.
* `adapter_fresh`: with `FreshSession = TRUE` an invocation that loaded the
  session before it had orchestrator state clears the caches
  (`agent.py:462-467`). In `adapter_overlap` the session has state from the
  start (`FreshSession = FALSE`), and there a decided plan stays closed.
* `surfaces_fallback`: `route_user_action` takes an answer into the registry
  (`surface_routes.py:328`), and the service then applies the same messages once
  more to prepare them (`service.py:550-583`). An answer that fits only once (an
  addition that refers to what the answer then deletes) fails the second time:
  the renderer gets the fallback, the registry keeps the answer. The test
  `test_specialist_user_action_invalid_a2ui_fallback_does_not_keep_stale_owner`
  states otherwise. `AnswersWhole` is what remains: the registry has the whole
  answer or nothing of it.
* `runtime_detour`: `execute` promises to *execute every step*
  (`graph_runtime.py:192`). A step that depends on a skipped review is never
  triggered, and the execution reports completion. `CompletionIsFull` holds for
  the plans in which only the synthesis depends on the review; the planner's own
  plans are among them, others may be handed to the store.

* `routing_reload`: the router asks for a clarification when a sensitive agent is
  not registered (`router.py:118`), but with the list it took before the
  classifier was awaited; the planner reads the registry afterwards and drops what
  a reload has removed meanwhile (`planner.py:51-64`). The plan names the omitted
  agent in its risk notes, but `prds/orchestrator_request_flow.md:128` and
  `test_unavailable_sensitive_guardrail_returns_clarification_required` expect the
  clarification. It takes a classifier that suspends (`LiteLlmIntentClassifier`)
  and a caller of the public `AgentRegistry.reload`. `GuardrailsKept` is what
  remains: without such a reload both guardrails are planned.

`ExecutedAsShown` and `OneSuccessfulExecution` across a crash are not claimed: an
execution whose event was not stored is forgotten by a restart.

Fairness: weak fairness of `GNext` in `GraphRuntime`, for `ExecutionEnds`: the
event loop goes on while it has something to run, and a specialist answers or
raises. The latter is an assumption on the specialists: the code sets no timeout.
All other modules have none: their actions are requests of users and of the
environment, which nothing obliges to come.

## 4. Proofs

TLAPS checks the following for every value of the constants that satisfies the
assumptions of the modules: `AgentsAssumption`; `StoreAssumption` (drafts handed
in are valid plans with positive versions, registries and handlers are sets of
agents, the bounds are naturals); `WorkflowsAssumption` (executed plans are
valid); `AdapterAssumption` (an export makes texts of texts; nothing is assumed of how
often it changes one); `RoutingAssumption` (finitely many agents, different
numbers behind one stem make different step ids, sources of agents); `RootAssumption` (there is a root id, which A2UI
reserves); `HandlersAssumption`; `AnswersAssumption` and `ExecutionsAssumption`
(answers are finite lists of messages of the forms the parser lets through);
`CanvasesAssumption` (an approval canvas is one tree by itself). The last is what
the canvas builder does with a plan: every component id is made of a step id and a
suffix, so it holds unless one step id is another with `_label` or `_input`
behind it, and step ids are names of agents with numbers. All assumptions are
evaluated by TLC in the runs.

**Plans** (`PlanDraft_proofs`, and the end of `ApprovalStore_proofs`).
`RemovalKeepsPlanValid`: the rewired plan has unique ids, declared dependencies
and no cycle. A cycle through a rewired step would be a cycle through the removed
one: to a set of remaining steps that has no first member add the removed step
when it depends on the set, and the original plan contradicts it.
`PrecedenceKept`, `ReviewKept`, `CoverageKept`: the three action properties of the
edits, for plans of every size. Precedence is stated over sets closed under
dependencies; a removal maps the closed sets of one plan to those of the other by
adding or dropping the removed step. The invariant is `DraftsValid`: every record
holds a valid plan or none.

**Store** (`ApprovalStore_proofs`). Every edit returns a plan of the same version
(`RemoveStepType`, ...), so all of them are the one step `Mutated`, and
`NextCases` reduces `Next` to seven cases, which all proofs use.
* `TypeCorrect`; `FrozenCopyCorrect`: `FrozenPlanIsDraft` is inductive with it.
* `ExecutionCorrect`: `ExecutedAsShown` is not inductive; it needs
  `ShownTracksDrafts`: no canvas is ahead of its draft, and a canvas with the
  draft's version shows the draft.
* `ExecutedOnce`: needs `SuccessIsApproved`: a plan that was executed
  successfully is approved, and only drafts are approved.
* `DecisionsFinal`: an action property, from `TypeOK` and the case split.
* `StoreImplementsLifecycle`: the refinement; `RecordSteps` says which abstract
  step a change of one record is, from its old and new value.

**Service** (`OrchestratorService_proofs`). `ContextsTrackDrafts`,
`GuardsOpenOnlyForApproved`, `NoPlanStuck` and `SurfacesWhilePending` are inductive
only together, and with `FrozenPlanIsDraft`, the fact that every canvas was
shown for a plan that was drafted, and the fact that the surfaces somebody may
restore are still retired: an approval needs the context to have the
store's draft, or the guard would refuse and leave the plan failed.
`ServiceImplementsLifecycle`: a failed approval, with its reset in the same step,
is a stutter of the abstract lifecycle.

**Adapter** (`AdkAdapter_proofs`). Four invariants, each resting on those before.
* `AInv`, for all constants: every copy of the state, wherever it lies, holds
  entries (record, context, guard) that are coherent by themselves, and a restore
  takes each plan from one place as a whole. From it `AdapterTypesCorrect`,
  `RestoredContextsTrackDrafts`, `RestoredGuardsOpenOnlyForApproved`,
  `NoRestoredPlanStuck`, with crashes and redaction.
* `LInv`, without crashes and with a session that has state from the start:
  decided plans stay in the first cache, the second cache has the version of
  memory, no canvas is newer. From it `DecisionsStayClosed`,
  `ShownDraftsStayNewest` and `ExecutedOnceAcrossInvocations`, for any number of
  overlapping invocations.
* `RInv`: every draft of the version of a canvas, open in any place (`Known`:
  memory, stored state, copies, cache), is what the canvas shows with texts
  redacted further (`CanvasesRead`). A new version keeps that because it is ahead
  of every draft known, and that no draft is ahead of the caches is part of the
  invariant (`AllCovered`); an export keeps it because `Redactions` holds what any
  number of exports makes of a text. From it `ExecutedAsShownRedacted`: the draft
  in memory is such a draft of the canvas that was approved.
* `OneDecision`: a copy that holds a decision holds the cached one. From it, with
  the others, `SessionIsOneLife`, the refinement of `PlanLifecycle`: a restore
  teaches the caches nothing (a draft it leaves open has the cached version, a
  decision is the cached one), and an operation moves one plan by one step
  (`ChangedLifeMoves`), from the newest version.

**Graph runtime** (`GraphRuntime_proofs`). The graph first,
for every valid plan: the edges into a step are its dependencies and, for the
synthesis of a branch, the source of the review (`EdgesAreHops`, `Routes`); which
steps have a join and what it awaits (`OrdinaryJoin`, `SynthesisJoin`). The
invariant `GInv` then says that triggers and joins, which depend on the order of
events, are a function of what does not: a step is `Opened` when all it waits for
has come, given the outputs and the route; it has been triggered exactly once
if it is, else never; and a join that has not passed has seen exactly `Heard`.
`AnswerReaches` is the step from one answer to the next: it makes open only
steps it leads on to, and none of these was open before.
* `RequestedAtMostOnce` and `RuntimeTypesCorrect` follow at once;
  `GuardAlwaysAgrees` because an open step is given what the guard accepts
  (`OpenedIsAccepted`).
* `CompletionIsAlwaysFull`: behind a step that was not run stands another one, a
  dependency or the source its synthesis would go on with (`BlockedBehind`);
  dependencies have no cycle, so there is none.
* `ExecutionKeepsItsPromise`: the refinement of `PlanRun`; an open step is `Ready`.
* `BuiltGraphAlwaysAgrees`: the graph of `graph_builder.py` against the execution.
  First that graph, for every plan: the builder's decisions, combinations and
  groups (`OrdinaryGroups`, `SynthesisGroups`) come down to the `Ways` into a step,
  the sets of predecessors that start it together, one for an ordinary step and two
  for the synthesis of a branch; a way is an edge, or a join with its gates
  (`BuiltWays`, `IntoNodes`). Then what it does: as many rounds as there are edges
  end in a set of edges that reproduces itself (`FollowedSettles`: each round
  but the last adds an edge), so that a way is taken exactly when all on it have
  sent the step on (`WayTaken`). The two ways into a synthesis exclude each other
  (`OneWayTaken`), which bounds the starts by one; that every step runs follows
  from acyclicity, as completion does (`NoneBehind`, `AllRun`).

**Routing** (`RequestRouting_proofs`). `RoutingTypeCorrect`, `PlanIdsUnique`,
`GuardrailsStay`, `DraftsWellFormed`, for every set of agents, requests, stems,
numberings and sources, and every assessment a model may give. `StepIdsDiffer`:
the ids given out so far are fewer than the agents, so among the first numbers of
a stem one is free (`FirstFreeIsFree`, a pigeonhole), and by induction over the
list no id is given twice, whatever stems coincide with whatever numbered ids.

**Canvases** (`SurfaceRoutes_proofs`). The search for circles is a recursive
function and the induction theorems of the library cannot be instantiated, so
induction is done over *sets* of numbers (`RecursionLemmas`): `LeastNumber` from the well-foundedness
of the naturals, `UpTo` and `DownFrom` from it. `ReachedClosed`: the rounds of the
search end with a set that is closed under references, because each round that is
not the last adds one of finitely many ids. `UpdateSound`: the checks of one update
look for circles through the components of the message only; a circle through
none of them would have been on the canvas before (`OutsideIsAsBefore`), so a
drawable canvas of any size stays drawable.

**Surfaces** (`SurfaceRoutes_proofs`). The staging of the messages of an answer
(`Staged`, `Claimed`, `PlanClaimed`, `Delivered`) are folds; `FoldExists` and
`FoldIterates` turn a fold into the values after each message, with which an
invariant of the fold is shown message by message. The invariant of the state is
`RoutesInv`: types, and for the registry and the saved snapshot that components are
known of owned surfaces only (`OwnedCanvases`), that canvases are sound
(`SoundCanvases`) and that specialists have no surface reserved for plans
(`Reserved`); none of them survives a restore without being known of the
snapshot, and an approval canvas passes the checks only where all three hold.
* `RegistryTypes`, `CanvasesStaySound`, `CanvasesStayOwned` are parts of it;
  `CanvasesAlwaysShown` follows by `CanvasAccepted`: the canvas replaces what is on
  a surface nobody else may own.
* `AnswersStayWhole`: after an accepted answer the owner of each surface is what
  the last message on it says (`TakenAsLastSaid`), else nothing has changed.
* `SpecialistsStayOutThroughout`: an action property; `HandledElsewhere`.

Only model-checked: liveness (`ExecutionEnds`), which is out of the prover's reach.

## 5. Not modelled

* *Texts*: the wording, parsing and formatting of messages, canvases, results
  and prompts; artifacts; settings and logging. They keep no state the protocol
  reads. Of redaction only the effect on instructions is modelled, of an event
  the click it stands for.
* *The shape of one A2UI message*: the schema and the catalogs of
  `schema_manager.py` are data and judge a message by itself; inline components
  are one level deep. The order of lists is left out where no rule looks at it.
* *The import behind a reload*: `sys.modules`, the attribute of the package and
  their restoring in the except clauses of `agent_registry.py`. They are one
  sequential piece of code, and the descriptors are assigned after all of it. A
  `BaseException` of the config module (`SystemExit`, `KeyboardInterrupt`) passes
  the `except Exception` of lines 114 and 233 and leaves the unfinished module
  installed beside the old descriptors; no property here would notice.
* *Older payloads*: the `workflowCanvas` form, which names no surface.
* *Restoring surfaces otherwise than after a clear*: `restore_renderer_surfaces`
  takes any map of owners, and any snapshot twice; only the snapshot of the last
  clear, once, is modelled. The adapter calls neither operation.
* *Specialists and transport*: an answer is any of a set of answers, a failure is
  a choice; the A2A envelopes and wrappers keep a call log only.
* *The part cache of `adk_ui_delivery.py`*: canvases reach the user with the event
  of their tool call (`Commit`); that the parts of one call are not given to
  another is not modelled.
* *The rest of the guard*: `require_specialist_call_allowed` also compares
  the plan, step, agent, input and context of a request with the approved step
  (for a direct route, with the original request); the models have its state
  (`OrchestratorService`) and its rule for dependency outputs (`GraphRuntime`).
* *A plan lost by a stale write*: the last state written wins, so a plan that an
  overlapping invocation does not know is dropped from the session. The code
  neither prevents nor promises otherwise; it is listed as a hazard without a
  property, as are a crash between an execution and its event, a specialist that
  never answers, and the thread that blocks the event loop.
* *Execution inside an approval*: the approval holds the store's lock until the
  graph has run, so `ApprovalStore` and the modules above see an execution as one
  step that succeeds or fails; `GraphRuntime` is what happens inside it.
* *A reload between routing and planning* may take a guardrail agent away; the
  plan then only notes it in its risks, which is why `GuardrailsKept` speaks of
  the agents registered when the plan was made.
