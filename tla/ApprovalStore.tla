--------------------------- MODULE ApprovalStore ---------------------------
(***************************************************************************)
(* ApprovalStateStore (orchestrator/approval_state.py): the record of      *)
(* every draft plan, and the structured user actions that edit, approve or *)
(* reject it.  Each public method runs under the store's lock, graph       *)
(* execution included, so each is one action here.                         *)
(*                                                                         *)
(* A user action is a click on an approval canvas the user was shown, new  *)
(* or stale.  It carries the surface of that canvas, the version and the   *)
(* step ids written on it, and the plan id it targets; the store refuses   *)
(* it (the state does not change) unless they all match the record.        *)
(***************************************************************************)
EXTENDS PlanDraft

CONSTANTS PlanIds,       \* plans that may be drafted
          NewDrafts,     \* plans a caller may hand to add_draft
          Registries,    \* agent sets the registry may be reloaded with
          Handlers,      \* agents the given runtime has handlers for
          GuardedMode,   \* TRUE: graph_runtime and plan_validator are given;
                         \* FALSE: neither is, the store builds the default
          EditKinds,     \* the edits exercised
          MaxVersion,    \* bound on a draft's version
          MaxAttempts    \* bound on the number of executions

ASSUME StoreAssumption ==
    /\ \A d \in NewDrafts : d \in Plans /\ WellFormed(d.steps) /\ d.version > 0
    /\ Registries \subseteq SUBSET Agents
    /\ Handlers \subseteq Agents
    /\ GuardedMode \in BOOLEAN
    /\ MaxVersion \in Nat
    /\ MaxAttempts \in Nat

VARIABLES records,   \* plan id -> approval record
          registry,  \* agents the registry describes now
          shown,     \* history: the approval canvases built for the user
          execs      \* history: the plans handed to a graph runtime

vars == <<records, registry, shown, execs>>

Statuses == {"none", "draft", "approved", "approved_execution_failed",
             "rejected"}
Approved == {"approved", "approved_execution_failed"}
Final    == Approved \cup {"rejected"}

Records == [status          : Statuses,
            draft           : Plans,
            approved        : Plans,
            approvedVersion : Nat]

Canvases   == [plan : PlanIds, body : Plans]
Executions == [plan : PlanIds,
               seen : Plans,           \* the canvas the approval came from
               ran  : Plans,           \* the frozen plan that was executed
               known : SUBSET Agents,  \* the registry at that time
               ok   : BOOLEAN]

NoRecord == [status |-> "none", draft |-> NoPlan, approved |-> NoPlan,
             approvedVersion |-> 0]

(* The record after each method, as the code leaves it.                    *)
DraftRecord(plan) == [NoRecord EXCEPT !.status = "draft", !.draft = plan]

(* Mutant: the version the approval binds is not recorded.                 *)
FrozenUnbound(rec, status) == [rec EXCEPT !.status = status,
                                          !.approved = rec.draft]

Frozen(rec, status) == [rec EXCEPT !.status = status,
                                   !.approved = rec.draft,
                                   !.approvedVersion = rec.draft.version]

(* Mutant: the bound version survives the reset.                           *)
ResetKeepingVersion(rec) ==
    IF rec.status = "approved_execution_failed"
      THEN [rec EXCEPT !.status = "draft", !.approved = NoPlan]
      ELSE rec

(* Mutant: any approved plan is reset.                                     *)
ResetAnyApproval(rec) ==
    IF rec.status \in Approved
      THEN [rec EXCEPT !.status = "draft", !.approved = NoPlan,
                       !.approvedVersion = 0]
      ELSE rec

ResetRecord(rec) ==
    IF rec.status = "approved_execution_failed"
      THEN [rec EXCEPT !.status = "draft", !.approved = NoPlan,
                       !.approvedVersion = 0]
      ELSE rec

Init == /\ records = [p \in PlanIds |-> NoRecord]
        /\ registry \in Registries
        /\ shown = {}
        /\ execs = <<>>

-----------------------------------------------------------------------------
(* Checks shared by the actions.                                           *)

(* A click on canvas c reaches p: its surface is that of p, and it shows   *)
(* the current version.                                                    *)
(* Mutant: a canvas of any version will do.                                *)
IsAnyVersion(p, c) == c.plan = p

IsCurrent(p, c) == /\ c.plan = p
                   /\ c.body.version = records[p].draft.version

AgentsAvailable(plan) == PlanAgents(plan) \subseteq registry

(* The plan validator, when the store has one.                             *)
Executable(plan) == GuardedMode => AgentsOf(plan.steps) \subseteq Handlers

-----------------------------------------------------------------------------
AddDraft(p) ==
    /\ records[p].status = "none"
    /\ \E d \in NewDrafts :
          /\ records' = [records EXCEPT ![p] = DraftRecord(d)]
          /\ shown' = shown \cup {[plan |-> p, body |-> d]}
    /\ UNCHANGED <<registry, execs>>

(* _mutate_draft: the candidate replaces the draft after every check.  The *)
(* canvas is built before the draft is replaced; a canvas the emitter      *)
(* refuses leaves the record as it was.                                    *)
Mutate(p, c, kind, candidates) ==
    /\ kind \in EditKinds
    /\ records[p].status = "draft"
    /\ records[p].draft.version < MaxVersion
    /\ IsCurrent(p, c)
    /\ \E edited \in candidates :
          LET next == NextVersion(edited)
          IN  /\ Acceptable(records[p].draft, next)
              /\ Executable(next)
              /\ records' = [records EXCEPT ![p].draft = next]
              /\ shown' = shown \cup {[plan |-> p, body |-> next]}
    /\ UNCHANGED <<registry, execs>>

Removals(plan)   == {RemoveStep(plan, i) :
                        i \in {j \in DOMAIN plan.steps : CanRemove(plan, j)}}
Reorderings(plan) == {ReorderSteps(plan, f) : f \in Orders(plan)}
Replacements(plan) ==
    {ReplaceAgent(plan, r[1], r[2]) :
        r \in {s \in (DOMAIN plan.steps) \X registry :
                  CanReplace(plan, s[1], s[2])}}
Instructed(plan) == {AddInstruction(plan, r[1], r[2]) :
                        r \in (DOMAIN plan.steps) \X Texts}

EditPlan(p, c) == Mutate(p, c, "edit", {records[p].draft})
RemovePlanStep(p, c) == Mutate(p, c, "remove", Removals(records[p].draft))
Reorder(p, c) == Mutate(p, c, "reorder", Reorderings(records[p].draft))
ChooseAgent(p, c) == Mutate(p, c, "replace", Replacements(records[p].draft))
Instruct(p, c) == Mutate(p, c, "instruct", Instructed(records[p].draft))

(* Mutant: the status of the record is not looked at.                      *)
MayApproveAgain(p, c) == /\ records[p].status # "none"
                         /\ IsCurrent(p, c)
                         /\ Ids(c.body.steps) = Ids(records[p].draft.steps)
                         /\ records[p].draft.immutable

(* The checks of approve_plan that come before anything is recorded.       *)
MayApprove(p, c) == /\ records[p].status = "draft"
                    /\ IsCurrent(p, c)
                    /\ Ids(c.body.steps) = Ids(records[p].draft.steps)
                    /\ records[p].draft.immutable

(* The plan is frozen, recorded as approved and executed under the lock; a *)
(* failing execution is recorded before the error is raised.               *)
Approve(p, c) ==
    /\ Len(execs) < MaxAttempts
    /\ MayApprove(p, c)
    /\ AgentsAvailable(records[p].draft)
    /\ Executable(records[p].draft)
    /\ \E ok \in BOOLEAN :
          /\ records' = [records EXCEPT ![p] =
                Frozen(@, IF ok THEN "approved" ELSE "approved_execution_failed")]
          /\ execs' = Append(execs, [plan |-> p, seen |-> c.body,
                                     ran |-> records[p].draft,
                                     known |-> registry, ok |-> ok])
    /\ UNCHANGED <<registry, shown>>

(* Without a given runtime, an unavailable agent is recorded as a failed   *)
(* execution although nothing ran.                                         *)
PreflightFailure(p, c) ==
    /\ ~ GuardedMode
    /\ MayApprove(p, c)
    /\ ~ AgentsAvailable(records[p].draft)
    /\ records' = [records EXCEPT ![p] = Frozen(@, "approved_execution_failed")]
    /\ UNCHANGED <<registry, shown, execs>>

(* A rejection may leave the version out; then a stale canvas is enough.   *)
Reject(p, c) ==
    /\ records[p].status = "draft"
    /\ \E versioned \in BOOLEAN :
          /\ c.plan = p
          /\ versioned => c.body.version = records[p].draft.version
    /\ records' = [records EXCEPT ![p].status = "rejected"]
    /\ UNCHANGED <<registry, shown, execs>>

ResetFailedApproval(p) ==
    /\ records[p].status # "none"
    /\ records' = [records EXCEPT ![p] = ResetRecord(@)]
    /\ UNCHANGED <<registry, shown, execs>>

ReloadRegistry ==
    /\ registry' \in Registries
    /\ UNCHANGED <<records, shown, execs>>

Next ==
    \/ \E p \in PlanIds : AddDraft(p) \/ ResetFailedApproval(p)
    \/ \E p \in PlanIds, c \in shown : \/ EditPlan(p, c)
                                       \/ RemovePlanStep(p, c)
                                       \/ Reorder(p, c)
                                       \/ ChooseAgent(p, c)
                                       \/ Instruct(p, c)
                                       \/ Approve(p, c)
                                       \/ PreflightFailure(p, c)
                                       \/ Reject(p, c)
    \/ ReloadRegistry

Spec == Init /\ [][Next]_vars
-----------------------------------------------------------------------------
(* Correctness.                                                            *)

(* Every variable keeps its type, execution and reset included.            *)
TypeOK == /\ records \in [PlanIds -> Records]
          /\ registry \in SUBSET Agents
          /\ shown \in SUBSET Canvases
          /\ execs \in Seq(Executions)

(* While a plan counts as approved, its frozen copy and bound version are  *)
(* those of its draft; otherwise no copy is left behind (_approve,         *)
(* reset_failed_approval).                                                 *)
FrozenPlanIsDraft ==
    \A p \in PlanIds :
        IF records[p].status \in Approved
          THEN /\ records[p].approved = records[p].draft
               /\ records[p].approvedVersion = records[p].draft.version
          ELSE /\ records[p].approved = NoPlan
               /\ records[p].approvedVersion = 0

(* What runs is what the user saw on the canvas whose approval started it: *)
(* agents, instructions, dependencies and order, although the message      *)
(* itself carries only a version and step ids.  It rests on every mutation *)
(* making a new version and on no version ever being shown twice with      *)
(* different content.                                                      *)
ExecutedAsShown ==
    \A i \in DOMAIN execs : execs[i].ran = execs[i].seen

(* A plan is executed to completion at most once, whatever double clicks,  *)
(* failures, resets and retries happen.                                    *)
OneSuccessfulExecution ==
    \A i, j \in DOMAIN execs :
        execs[i].plan = execs[j].plan /\ execs[i].ok /\ execs[j].ok => i = j

(* A decided plan is never edited or decided again; only a failed          *)
(* execution can return, and then to the same draft (_require_draft,       *)
(* add_draft, reset_failed_approval).                                      *)
DecisionsAreFinal ==
    [][\A p \in PlanIds :
          records[p].status \in Final =>
             /\ records'[p].draft = records[p].draft
             /\ \/ records'[p] = records[p]
                \/ /\ records[p].status = "approved_execution_failed"
                   /\ records'[p].status = "draft"]_vars

(* Two steps that survive an edit run in the same order after it as        *)
(* before: removing a step neither loses nor adds a dependency between the *)
(* others (_rewired_dependencies).                                         *)
EditsKeepPrecedence ==
    [][\A p \in PlanIds :
          LET old == records[p].draft.steps
              new == records'[p].draft.steps
          IN  new # old =>
                 \A a, b \in Ids(old) \cap Ids(new) :
                    Precedes(old, a, b) <=> Precedes(new, a, b)]_vars

(* A conditional review step is never lost, and the dependencies its route *)
(* is decided on never change                                              *)
(* (_require_removal_preserves_conditional_sources,                        *)
(* _require_replaceable_step).                                             *)
ConditionalReviewKept ==
    [][\A p \in PlanIds :
          \A i \in DOMAIN records[p].draft.steps :
             LET step == records[p].draft.steps[i]
             IN  IsConditionalReview(step) =>
                    \E j \in DOMAIN records'[p].draft.steps :
                       LET kept == records'[p].draft.steps[j]
                       IN  /\ kept.id = step.id
                           /\ kept.deps = step.deps
                           /\ IsConditionalReview(kept)]_vars

(* The final step is the only synthesis and waits, directly or not, for    *)
(* every other step.                                                       *)
SynthesisCovers(steps) ==
    /\ HasSynthesis(steps)
    /\ SynthesisIsFinal(steps)
    /\ \A a \in Ids(steps) : Precedes(steps, a, steps[Len(steps)].id)

(* A draft whose final answer is synthesised from every step, as the       *)
(* planner makes it, stays so through every sequence of edits              *)
(* (_require_final_synthesis_preserved with the rewiring of removals).     *)
SynthesisKeepsCoverage ==
    [][\A p \in PlanIds :
          LET old == records[p].draft.steps
              new == records'[p].draft.steps
          IN  new # old /\ SynthesisCovers(old) => SynthesisCovers(new)]_vars

(* The store implements the abstract life of a plan.                       *)
Lifecycle == INSTANCE PlanLifecycle WITH
    status  <- [p \in PlanIds |-> records[p].status],
    version <- [p \in PlanIds |-> records[p].draft.version],
    bound   <- [p \in PlanIds |-> records[p].approvedVersion]

(* Drafted once, version only growing in draft, approval bound to the      *)
(* version it was given for, decisions final.                              *)
ImplementsLifecycle == Lifecycle!LSpec
=============================================================================
