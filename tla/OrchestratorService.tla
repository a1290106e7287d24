------------------------ MODULE OrchestratorService ------------------------
(***************************************************************************)
(* OrchestratorService (orchestrator/service.py): the approval store of    *)
(* one session together with the request contexts whose guard decides      *)
(* which specialist calls are allowed (request_context.py) and the         *)
(* approval surfaces the renderer can send actions from                    *)
(* (surface_routes.py).                                                    *)
(*                                                                         *)
(* A plan is proposed, edited, approved or rejected without an await in    *)
(* between, so each user action is one step, the synchronous graph         *)
(* execution of an approval included.                                      *)
(***************************************************************************)
EXTENDS ApprovalStore

VARIABLES contexts,  \* plan id -> request context registered for the plan
          surfaces,  \* plans whose approval surface is registered
          kept,      \* the surfaces the caller got back from the last clear
          retired    \* history: plans that lost their surface undecided

svars == <<vars, contexts, surfaces, kept, retired>>

(* draft is the snapshot of the plan the context last saw, approved the    *)
(* plan whose steps the guard lets through, NoPlan when it lets none.      *)
Contexts  == [exists : BOOLEAN, draft : Plans, approved : Plans]
NoContext == [exists |-> FALSE, draft |-> NoPlan, approved |-> NoPlan]

NewContext(plan) == [exists |-> TRUE, draft |-> plan, approved |-> NoPlan]

(* Mutant: the context keeps the draft it was created with.                *)
NeverSynced(ctx, plan) == ctx

Synced(ctx, plan) ==
    IF ctx.exists THEN [ctx EXCEPT !.draft = plan] ELSE ctx

(* mark_plan_approved lets the execution start.                            *)
GuardGrants(ctx, plan) ==
    /\ ctx.exists
    /\ \/ ctx.approved = plan
       \/ ctx.approved = NoPlan /\ ctx.draft = plan

Opened(ctx, plan) == [ctx EXCEPT !.approved = plan]
Shut(ctx)         == [ctx EXCEPT !.approved = NoPlan]

(* What the caller of clear_renderer_surfaces holds to restore.            *)
KeptSurfaces  == [held : BOOLEAN, plans : SUBSET PlanIds]
NothingKept   == [held |-> FALSE, plans |-> {}]
Held(plans)   == [held |-> TRUE, plans |-> plans]

SInit == /\ Init
         /\ contexts = [p \in PlanIds |-> NoContext]
         /\ surfaces = {}
         /\ kept = NothingKept
         /\ retired = {}

-----------------------------------------------------------------------------
(* A routed request becomes a draft with an unused plan id.  The record    *)
(* and the context are stored before the canvas is built, and stay when    *)
(* the canvas is refused.                                                  *)
ProposePlan(p) ==
    /\ records[p].status = "none"
    /\ \E d \in NewDrafts, canvasOk \in BOOLEAN :
          /\ AgentsOf(d.steps) \subseteq registry \cap Handlers
          /\ records' = [records EXCEPT ![p] = DraftRecord(d)]
          /\ contexts' = [contexts EXCEPT ![p] = NewContext(d)]
          /\ surfaces' = IF canvasOk THEN surfaces \cup {p} ELSE surfaces
          /\ shown' = IF canvasOk THEN shown \cup {[plan |-> p, body |-> d]}
                                  ELSE shown
    /\ UNCHANGED <<registry, execs, kept, retired>>

(* An accepted edit is followed by the context's new draft snapshot.       *)
UserEdits(p, c) ==
    /\ p \in surfaces
    /\ \/ EditPlan(p, c)
       \/ RemovePlanStep(p, c)
       \/ Reorder(p, c)
       \/ ChooseAgent(p, c)
       \/ Instruct(p, c)
    /\ contexts' = [contexts EXCEPT ![p] = Synced(@, records'[p].draft)]
    /\ UNCHANGED <<surfaces, kept, retired>>

(* Mutant: a failed execution is recorded and not reset.                   *)
RecordLeftFailed(rec, granted, ok) ==
    Frozen(rec, IF granted /\ ok THEN "approved" ELSE "approved_execution_failed")

(* The record, context and surfaces after an approval of the draft of rec. *)
(* A graph failure shuts the guard again, resets the record and syncs the  *)
(* context; a refusal of the guard itself is no graph failure and leaves   *)
(* the record failed.                                                      *)
RecordAfter(rec, granted, ok) ==
    CASE granted /\ ok   -> Frozen(rec, "approved")
      [] granted /\ ~ ok -> ResetRecord(Frozen(rec, "approved_execution_failed"))
      [] ~ granted       -> Frozen(rec, "approved_execution_failed")

(* Mutant: a failed execution leaves the guard open.                       *)
ContextLeftOpen(ctx, plan, granted, ok) ==
    IF granted THEN Opened(ctx, plan) ELSE ctx

ContextAfter(ctx, plan, granted, ok) ==
    CASE granted /\ ok   -> Opened(ctx, plan)
      [] granted /\ ~ ok -> Synced(Shut(ctx), plan)
      [] ~ granted       -> ctx

UserApproves(p, c) ==
    /\ p \in surfaces
    /\ MayApprove(p, c)
    /\ Len(execs) < MaxAttempts
    /\ AgentsAvailable(records[p].draft)
    /\ Executable(records[p].draft)
    /\ \E ok \in BOOLEAN :
          LET plan    == records[p].draft
              granted == GuardGrants(contexts[p], plan)
          IN  /\ records' = [records EXCEPT ![p] = RecordAfter(@, granted, ok)]
              /\ contexts' = [contexts EXCEPT ![p] =
                                 ContextAfter(@, plan, granted, ok)]
              /\ surfaces' = IF granted /\ ok THEN surfaces \ {p} ELSE surfaces
              /\ execs' = IF granted
                            THEN Append(execs, [plan |-> p, seen |-> c.body,
                                                ran |-> plan,
                                                known |-> registry, ok |-> ok])
                            ELSE execs
    /\ UNCHANGED <<registry, shown, kept, retired>>

(* Mutant: the surface of a rejected plan is not deleted.                  *)
UserRejectsOnly(p, c) ==
    /\ p \in surfaces
    /\ Reject(p, c)
    /\ UNCHANGED <<contexts, surfaces, kept, retired>>

UserRejects(p, c) ==
    /\ p \in surfaces
    /\ Reject(p, c)
    /\ surfaces' = surfaces \ {p}
    /\ UNCHANGED <<contexts, kept, retired>>

RegistryReloads ==
    ReloadRegistry /\ UNCHANGED <<contexts, surfaces, kept, retired>>

(* clear_renderer_surfaces: the user interface starts empty, and the       *)
(* caller keeps what was registered.                                       *)
ClearSurfaces ==
    /\ surfaces' = {}
    /\ kept' = Held(surfaces)
    /\ retired' = retired \cup surfaces
    /\ UNCHANGED <<vars, contexts>>

(* restore_renderer_surfaces: when the refresh failed, what the clear gave *)
(* back replaces what was registered since.                                *)
RestoreSurfaces ==
    /\ kept.held
    /\ surfaces' = kept.plans
    /\ retired' = (retired \cup surfaces) \ kept.plans
    /\ kept' = NothingKept
    /\ UNCHANGED <<vars, contexts>>

SNext == \/ \E p \in PlanIds : ProposePlan(p)
         \/ \E p \in PlanIds, c \in shown : \/ UserEdits(p, c)
                                            \/ UserApproves(p, c)
                                            \/ UserRejects(p, c)
         \/ RegistryReloads \/ ClearSurfaces \/ RestoreSurfaces

SSpec == SInit /\ [][SNext]_svars

-----------------------------------------------------------------------------
(* Correctness.                                                            *)

(* Contexts keep their type, and only approval surfaces are registered.    *)
ServiceTypeOK == /\ TypeOK
                 /\ contexts \in [PlanIds -> Contexts]
                 /\ surfaces \subseteq PlanIds
                 /\ kept \in KeptSurfaces
                 /\ retired \subseteq PlanIds

(* The guard knows the draft as the store does: an approval of the current *)
(* draft is never refused because one of the two copies lagged behind an   *)
(* edit or a failed execution (_sync_context_draft).                       *)
ContextTracksDraft ==
    \A p \in PlanIds : records[p].status = "draft" =>
        contexts[p] = NewContext(records[p].draft)

(* Specialist calls are let through only for a plan that is approved, and  *)
(* only for the steps that were approved (mark_plan_approved,              *)
(* reset_plan_approval).                                                   *)
GuardOpenOnlyForApproved ==
    \A p \in PlanIds : contexts[p].approved # NoPlan =>
        /\ records[p].status = "approved"
        /\ contexts[p].approved = records[p].approved

(* No plan stays behind in the failed state, from which no user action     *)
(* leads out (_handle_orchestrator_owned_user_action).                     *)
NoPlanStuckFailed ==
    \A p \in PlanIds : records[p].status # "approved_execution_failed"

(* The user can act on a plan only while it waits for a decision, and a    *)
(* shown plan that waits is out of reach only because the surfaces were    *)
(* cleared, or restored to those of an earlier moment: failures, edits and *)
(* decisions of other plans in between take none away, and no restore      *)
(* brings back the surface of a decided plan.                              *)
SurfaceWhilePending ==
    /\ surfaces \cap retired = {}
    /\ \A p \in PlanIds :
          p \in surfaces \cup retired <=> /\ records[p].status = "draft"
                                         /\ \E c \in shown : c.plan = p
=============================================================================
