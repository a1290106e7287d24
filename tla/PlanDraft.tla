----------------------------- MODULE PlanDraft -----------------------------
(***************************************************************************)
(* The draft execution plan of contracts.py and the edits that             *)
(* approval_state.py applies to it before approval, as operators on plan   *)
(* values.                                                                 *)
(*                                                                         *)
(* A step keeps what the approval and execution rules look at: its id, the *)
(* agent that will run it, the instructions the user has added to the      *)
(* text derived from that agent, the ids it depends on, and its condition. *)
(* Wording, expected output, data categories and parallel group follow     *)
(* from the agent or never change, and are left out.                       *)
(***************************************************************************)
EXTENDS Integers, Sequences, FiniteSets

CONSTANTS Agents,       \* agent ids a plan may name
          StepIds,      \* step ids a plan may use
          Synthesis,    \* the agent that writes the final answer
          DataQuality,  \* the agent of a conditional review step
          Texts         \* instructions a user may add

ASSUME AgentsAssumption == /\ Synthesis \in Agents
                           /\ DataQuality \in Agents
                           /\ Synthesis # DataQuality

(* "missing_internal_data" is the only condition the runtime routes on.    *)
Conditions == {"none", "missing_internal_data", "other"}

Steps == [id    : StepIds,
          agent : Agents,
          added : Seq(Texts),
          deps  : SUBSET StepIds,
          cond  : Conditions]

Plans == [version   : Nat,
          steps     : Seq(Steps),
          selected  : SUBSET Agents,
          immutable : BOOLEAN]

(* The value of an absent plan (None in the code).                         *)
NoPlan == [version |-> 0, steps |-> <<>>, selected |-> {}, immutable |-> TRUE]

-----------------------------------------------------------------------------
(* Shape of a step list.                                                   *)

Ids(steps)      == {steps[i].id : i \in DOMAIN steps}
AgentsOf(steps) == {steps[i].agent : i \in DOMAIN steps}

UniqueIds(steps) ==
    \A i, j \in DOMAIN steps : steps[i].id = steps[j].id => i = j

DeclaredDependencies(steps) ==
    \A i \in DOMAIN steps : steps[i].deps \subseteq Ids(steps)

(* Every non-empty set of steps has one that depends on none of them: the  *)
(* dependency relation has no cycle, self references included.             *)
Acyclic(steps) ==
    \A S \in SUBSET Ids(steps) :
        S # {} => \E i \in DOMAIN steps :
                     steps[i].id \in S /\ steps[i].deps \cap S = {}

WellFormed(steps) == /\ steps # <<>>
                     /\ UniqueIds(steps)
                     /\ DeclaredDependencies(steps)
                     /\ Acyclic(steps)

(* S holds every dependency of its members.                                *)
Closed(steps, S) ==
    \A i \in DOMAIN steps : steps[i].id \in S => steps[i].deps \subseteq S

(* Step a runs before step b: b reaches a through dependencies.            *)
Precedes(steps, a, b) ==
    \A S \in SUBSET Ids(steps) : Closed(steps, S) /\ b \in S => a \in S

HasSynthesis(steps)  == Synthesis \in AgentsOf(steps)
HasWorkstream(steps) == \E i \in DOMAIN steps : steps[i].agent # Synthesis

(* Exactly one synthesis step, and it is the last one.                     *)
SynthesisIsFinal(steps) ==
    \A i \in DOMAIN steps : steps[i].agent = Synthesis <=> i = Len(steps)

(* A review step that only runs when the primary step misses data.         *)
IsConditionalReview(step) ==
    step.agent = DataQuality /\ step.cond = "missing_internal_data"

(* The agents whose availability an approval depends on.                   *)
PlanAgents(plan) == plan.selected \cup AgentsOf(plan.steps)

-----------------------------------------------------------------------------
(* One edit of a draft: its guard and its result.                          *)

(* Mutant: only the review step itself is protected, not its source.       *)
RemovableSource(steps, i) == ~ IsConditionalReview(steps[i])

Removable(steps, i) ==
    /\ ~ IsConditionalReview(steps[i])
    /\ \A j \in DOMAIN steps \ {i} :
          steps[j].cond # "none" => steps[i].id \notin steps[j].deps

(* Mutant: the removed step's own dependencies are forgotten.              *)
RewiredForgetting(step, gone) == [step EXCEPT !.deps = @ \ {gone.id}]

(* A dependency on the removed step becomes the removed step's own ones.   *)
Rewired(step, gone) ==
    [step EXCEPT !.deps = IF gone.id \in @
                            THEN ((@ \ {gone.id}) \cup gone.deps) \ {step.id}
                            ELSE @]

WithoutStep(steps, i) ==
    [j \in 1..(Len(steps) - 1) |->
        Rewired(IF j < i THEN steps[j] ELSE steps[j + 1], steps[i])]

RemoveStep(plan, i) ==
    LET left == WithoutStep(plan.steps, i)
    IN  [plan EXCEPT !.steps = left, !.selected = AgentsOf(left)]

CanRemove(plan, i) == /\ Removable(plan.steps, i)
                      /\ HasWorkstream(WithoutStep(plan.steps, i))

(* The new agent brings its own instruction; added text is lost.           *)
ReplaceAgent(plan, i, agent) ==
    LET new == [plan.steps EXCEPT ![i].agent = agent, ![i].added = <<>>]
    IN  [plan EXCEPT !.steps = new, !.selected = AgentsOf(new)]

CanReplace(plan, i, agent) ==
    /\ ~ IsConditionalReview(plan.steps[i])
    /\ HasWorkstream(ReplaceAgent(plan, i, agent).steps)

(* order names, for every position, the old position of its step.          *)
ReorderSteps(plan, order) ==
    [plan EXCEPT !.steps = [k \in DOMAIN plan.steps |-> plan.steps[order[k]]]]

Orders(plan) ==
    {f \in [DOMAIN plan.steps -> DOMAIN plan.steps] :
        \A i, j \in DOMAIN plan.steps : f[i] = f[j] => i = j}

(* Mutant: a list of instructions is appended as a list.                   *)
AddInstructionList(plan, i, text) ==
    [plan EXCEPT !.steps[i].added = Append(@, <<text>>)]

AddInstruction(plan, i, text) ==
    [plan EXCEPT !.steps[i].added = Append(@, text)]

(* Mutant: an edit keeps its version.                                      *)
SameVersion(plan) == plan

(* Every accepted mutation, an edit that changes nothing included, makes a *)
(* new version; it must stay a valid plan and keep a final synthesis step. *)
NextVersion(plan) == [plan EXCEPT !.version = @ + 1]

(* Mutant: a synthesis step anywhere is enough.                            *)
KeepsSomeSynthesis(old, new) ==
    HasSynthesis(old.steps) => HasSynthesis(new.steps)

KeepsFinalSynthesis(old, new) ==
    HasSynthesis(old.steps) => SynthesisIsFinal(new.steps)

Acceptable(old, new) == /\ WellFormed(new.steps)
                        /\ KeepsFinalSynthesis(old, new)
=============================================================================
