--------------------------- MODULE RequestRouting ---------------------------
(***************************************************************************)
(* From a request to one specialist's answer, a draft plan or a            *)
(* clarification: RequestRouter (orchestrator/router.py),                  *)
(* DraftExecutionPlanner (orchestrator/planner.py), handle_user_request    *)
(* (orchestrator/service.py) and AgentRegistry (registry/agent_registry.py).*)
(*                                                                         *)
(* The router takes a list of the registered agents, awaits the            *)
(* classifier, and decides with that list.  The planner then reads the     *)
(* registry itself.  Other requests and reloads run while the classifier   *)
(* or a specialist is awaited.                                             *)
(***************************************************************************)
EXTENDS PlanDraft, IntentClassification, SequencesExt

CONSTANTS
    Requests,   \* requests to the service
    Inputs,     \* what a request may say
    Opinions,   \* assessments a language model may give, whatever was asked
    Scopes,     \* scope ids: a digest of the request, or drawn at random
    Tries,      \* bound: 1 for the scope itself, then what a retry appends
    Handlers,   \* agents with a handler in this process
    Slug,       \* agent -> the stem of its step id
    Numbered,   \* <<stem, n>> -> step id: the stem itself, then stem_2, ...
    Sources     \* what a reload may find

ASSUME RoutingAssumption ==
    /\ Synthesis = "synthesis"
    /\ IsFiniteSet(Agents)
    /\ Tries \subseteq Nat
    /\ \A a \in Agents, m \in 1..Cardinality(Agents) :
          /\ Numbered[<<Slug[a], m>>] \in StepIds
          /\ \A n \in 1..Cardinality(Agents) :
                Numbered[<<Slug[a], m>>] = Numbered[<<Slug[a], n>>] => m = n
    /\ \A s \in Sources : s.agents \subseteq Agents

Sensitive == {"credit_risk", "compliance_policy"}

VARIABLES registry,  \* agents with a descriptor
          requests,  \* what is known of each request
          drafts     \* the plans in the approval store

qvars == <<registry, requests, drafts>>

NoRequest == [phase |-> "new", text |-> {}, seen |-> {}, assessment |-> Unclear,
              called |-> {}, among |-> {}, plan |-> NoPlan, id |-> <<>>]

QInit == /\ \E s \in Sources : s.kind = "valid" /\ registry = s.agents
         /\ requests = [r \in Requests |-> NoRequest]
         /\ drafts = {}

-----------------------------------------------------------------------------
(* The routing decision.                                                   *)

Workstreams(agents, known) == (agents \cap known) \ {Synthesis}

(* An answer of several agents is put together by the synthesis agent.     *)
NeedsSynthesis(a, known) ==
    \/ a.complex
    \/ Cardinality(Workstreams(a.agents, known)) > 1
    \/ Synthesis \in a.agents

Required(a, known) == a.agents \cup {x \in {Synthesis} : NeedsSynthesis(a, known)}

CanFormPartialPlan(a, known) ==
    /\ Workstreams(a.agents, known) # {}
    /\ NeedsSynthesis(a, known) => Synthesis \in known

PlanImpossible(a, known) ==
    (Required(a, known) \ known) # {} /\ ~ CanFormPartialPlan(a, known)

(* Agents are missing, and one of them is a guardrail or no plan can be    *)
(* made without them.                                                      *)
UnsafeToRoute(a, known) ==
    LET missing == Required(a, known) \ known
    IN  missing \cap Sensitive # {} \/ PlanImpossible(a, known)

IsSensitive(a) == (a.intents \cup a.agents) \cap Sensitive # {}

IsDirect(text, a) ==
    /\ ~ a.complex /\ ~ a.repeats
    /\ Cardinality(a.intents) = 1 /\ "unknown" \notin a.intents
    /\ Cardinality(a.agents) = 1 /\ Synthesis \notin a.agents
    /\ MergedConfidence(text, a) >= 850
    /\ ~ IsSensitive(a)

Path(text, a, known) ==
    CASE UnsafeToRoute(a, known) \/ a.agents = {Synthesis} -> "clarification"
      [] ~ UnsafeToRoute(a, known) /\ a.agents # {Synthesis} /\ IsDirect(text, a)
             -> "direct"
      [] OTHER -> "plan"

-----------------------------------------------------------------------------
(* The draft plan: the workstreams side by side, the synthesis at the end. *)

(* The stem, or the first number after it that makes an id not in use: an  *)
(* id made of a stem and a number may be the stem of another agent.        *)
FirstFree(stem, used) ==
    Numbered[<<stem, Min({n \in 1..(Cardinality(used) + 1) :
                             Numbered[<<stem, n>>] \notin used})>>]

(* Mutant: the ids of a stem are counted, whatever ids are in use.         *)
CountedIds(agents) ==
    [i \in DOMAIN agents |->
        Numbered[<<Slug[agents[i]],
                   Cardinality({j \in 1..i : Slug[agents[j]] = Slug[agents[i]]})>>]]

(* The ids are given out in the order of the agents.                       *)
StepIdsOf(agents) ==
    LET ids[i \in 0..Len(agents)] ==
          IF i = 0 THEN <<>>
          ELSE Append(ids[i - 1], FirstFree(Slug[agents[i]], Range(ids[i - 1])))
    IN  ids[Len(agents)]

Selected(a, known) ==
    SetToSeq(Workstreams(a.agents, known))
    \o (IF NeedsSynthesis(a, known) THEN <<Synthesis>> ELSE <<>>)

PlannedSteps(agents) ==
    LET ids == StepIdsOf(agents)
    IN  [i \in DOMAIN agents |->
            [id    |-> ids[i],
             agent |-> agents[i],
             added |-> <<>>,
             deps  |-> IF agents[i] = Synthesis
                         THEN {ids[j] : j \in 1..(i - 1)} ELSE {},
             cond  |-> "none"]]

DraftPlan(a, known) ==
    [version |-> 1, steps |-> PlannedSteps(Selected(a, known)),
     selected |-> {x \in Agents : \E i \in DOMAIN Selected(a, known) :
                                     Selected(a, known)[i] = x},
     immutable |-> TRUE]

(* The registry, asked once more, has the agents for a plan, and each of   *)
(* them has a handler.                                                     *)
CanPlan(a, known) ==
    /\ CanFormPartialPlan(a, known)
    /\ AgentsOf(PlannedSteps(Selected(a, known))) \subseteq Handlers

Taken(id) == \E d \in drafts : d.id = id

(* Mutant: the id of an earlier plan is used again.                        *)
FirstId(topic, scope, n) == n = 1

(* Plan ids are made of the topic and the scope; as long as an id is taken *)
(* a higher number is appended.                                            *)
FreeId(topic, scope, n) ==
    /\ ~ Taken(<<topic, scope, n>>)
    /\ \A m \in Tries : m < n => Taken(<<topic, scope, m>>)

(* records is a dictionary: an entry replaces one of the same id.          *)
Entered(draft) == {d \in drafts : d.id # draft.id} \cup {draft}

-----------------------------------------------------------------------------
(* Requests.                                                               *)

Update(r, changed) == requests' = [requests EXCEPT ![r] = changed]

(* The suggestion has come; the list of agents is taken and the classifier *)
(* is called.                                                              *)
Ask(r) ==
    /\ requests[r].phase = "new"
    /\ \E text \in Inputs :
          Update(r, [requests[r] EXCEPT !.phase = "asked", !.text = text,
                                        !.seen = registry])
    /\ UNCHANGED <<registry, drafts>>

(* An assessment that names agents out of the list is used as well: the    *)
(* router takes it from the error.                                         *)
Assessments(r) == {Assessed(requests[r].text)} \cup Opinions

Routed(r, a, path) ==
    /\ requests[r].phase = "asked"
    /\ a \in Assessments(r)
    /\ Path(requests[r].text, a, requests[r].seen) = path

ClassifierFails(r) ==
    /\ requests[r].phase = "asked" /\ Opinions # {}
    /\ Update(r, [requests[r] EXCEPT !.phase = "failed"])
    /\ UNCHANGED <<registry, drafts>>

(* No route is safe, or no handler or plan is there for the route.         *)
Clarify(r) ==
    /\ \E a \in Assessments(r) :
          /\ \/ Routed(r, a, "clarification")
             \/ Routed(r, a, "direct") /\ a.agents \cap Handlers = {}
             \/ Routed(r, a, "plan") /\ ~ CanPlan(a, registry)
          /\ Update(r, [requests[r] EXCEPT !.phase = "clarified", !.assessment = a])
    /\ UNCHANGED <<registry, drafts>>

CallDirectly(r) ==
    /\ \E a \in Assessments(r) :
          /\ Routed(r, a, "direct") /\ a.agents \subseteq Handlers
          /\ Update(r, [requests[r] EXCEPT !.phase = "calling", !.assessment = a,
                                           !.called = a.agents])
    /\ UNCHANGED <<registry, drafts>>

(* The context keeps the plan and its id; among is what the planner read.  *)
ProposePlan(r) ==
    /\ \E a \in Assessments(r), scope \in Scopes, n \in Tries :
          LET plan == DraftPlan(a, registry)
              id   == <<a.topic, scope, n>>
          IN  /\ Routed(r, a, "plan") /\ CanPlan(a, registry)
              /\ FreeId(a.topic, scope, n)
              /\ drafts' = Entered([id |-> id, request |-> r, plan |-> plan])
              /\ Update(r, [requests[r] EXCEPT !.phase = "planned",
                                               !.assessment = a, !.plan = plan,
                                               !.id = id, !.among = registry])
    /\ UNCHANGED registry

SpecialistAnswers(r) ==
    /\ requests[r].phase = "calling"
    /\ \E phase \in {"answered", "failed"} :
          Update(r, [requests[r] EXCEPT !.phase = phase])
    /\ UNCHANGED <<registry, drafts>>

-----------------------------------------------------------------------------
(* Reloads.  Descriptors that cannot be read or are refused change         *)
(* nothing.                                                                *)

Reload ==
    /\ \E source \in Sources :
          IF source.kind = "valid" THEN registry' = source.agents
                                   ELSE UNCHANGED registry
    /\ UNCHANGED <<requests, drafts>>

QNext == \/ \E r \in Requests : \/ Ask(r) \/ ClassifierFails(r) \/ Clarify(r)
                                \/ CallDirectly(r) \/ ProposePlan(r)
                                \/ SpecialistAnswers(r)
         \/ Reload

QSpec == QInit /\ [][QNext]_qvars

-----------------------------------------------------------------------------
(* Correctness.                                                            *)

Phases == {"new", "asked", "clarified", "calling", "planned", "answered", "failed"}

AllTexts       == Inputs \cup {NoRequest.text}
AllAssessments == {Unclear} \cup {Assessed(text) : text \in AllTexts} \cup Opinions

PlanNames == {a.topic : a \in AllAssessments} \X Scopes \X Tries

RequestStates ==
    [phase : Phases, text : AllTexts, seen : SUBSET Agents,
     assessment : AllAssessments, called : SUBSET Handlers,
     among : SUBSET Agents, plan : Plans, id : PlanNames \cup {<<>>}]

(* Every variable keeps its type; a draft is a plan the approval store can *)
(* take in.                                                                *)
RoutingTypeOK ==
    /\ registry \subseteq Agents
    /\ requests \in [Requests -> RequestStates]
    /\ drafts \subseteq [id : PlanNames, request : Requests, plan : Plans]

(* A request in sensitive words is answered by no specialist directly, and *)
(* its plan holds both guardrail agents unless a reload took one of them   *)
(* away while the classifier was awaited.  Whoever assessed a request, no  *)
(* guardrail agent is called without an approval                           *)
(* (test_unavailable_sensitive_guardrail_returns_clarification_required).  *)
GuardrailsKept ==
    \A r \in Requests :
       /\ requests[r].called \cap Sensitive = {}
       /\ /\ IsSensitiveText(requests[r].text)
          /\ requests[r].assessment = Assessed(requests[r].text)
          => /\ requests[r].called = {}
             /\ requests[r].phase = "planned" =>
                   \/ Sensitive \subseteq AgentsOf(requests[r].plan.steps)
                   \/ ~ Sensitive \subseteq requests[r].among
                      /\ requests[r].among # requests[r].seen

(* No plan of a request in sensitive words, as the rules assess it, is     *)
(* without a guardrail agent: when one is missing the user is asked        *)
(* instead (orchestrator_request_flow.md,                                  *)
(* test_unavailable_sensitive_guardrail_returns_clarification_required).   *)
SensitivePlansGuarded ==
    \A r \in Requests :
       /\ requests[r].phase = "planned"
       /\ IsSensitiveText(requests[r].text)
       /\ requests[r].assessment = Assessed(requests[r].text)
       => Sensitive \subseteq AgentsOf(requests[r].plan.steps)

(* Whatever was assessed and whatever is registered, a draft is what the   *)
(* approval store and the graph runtime rely on: well formed, with a       *)
(* workstream, with a synthesis of all workstreams at its end if there are *)
(* several, and of agents that were registered and have handlers.          *)
PlannedWellFormed ==
    \A d \in drafts :
       LET steps == d.plan.steps
       IN  /\ WellFormed(steps) /\ HasWorkstream(steps)
           /\ Len(steps) > 1 =>
                 SynthesisIsFinal(steps)
                 /\ steps[Len(steps)].deps = Ids(steps) \ {steps[Len(steps)].id}
           /\ AgentsOf(steps) \subseteq requests[d.request].among \cap Handlers

(* Requests for the same thing get plans of the same name.  None takes the *)
(* place of another, and the request context that will have to agree with  *)
(* the plan at its approval keeps the id it was stored under               *)
(* (_add_draft_with_unique_plan_id, _require_plan_matches_request_scope).  *)
PlanIdsOwned ==
    \A r \in Requests :
       requests[r].phase = "planned" =>
          {d \in drafts : d.id = requests[r].id}
             = {[id |-> requests[r].id, request |-> r, plan |-> requests[r].plan]}
=============================================================================
