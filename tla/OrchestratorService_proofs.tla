--------------------- MODULE OrchestratorService_proofs ---------------------
(***************************************************************************)
(* The service keeps its three copies of a plan's state together, for      *)
(* every value of the constants: the store's record, the context whose     *)
(* guard lets specialists be called, and the surface the user acts from.   *)
(* The four properties of the service only hold together; with the frozen  *)
(* copy of the store and the fact that only drafted plans were ever shown  *)
(* they are inductive.                                                     *)
(***************************************************************************)
EXTENDS OrchestratorService, ApprovalStore_proofs

ShownWereDrafted == \A c \in shown : records[c.plan].status # "none"

(* What may be restored was cleared, and has not been decided since.       *)
KeptWereRetired == kept.plans \subseteq retired

SInv == /\ ServiceTypeOK
        /\ FrozenPlanIsDraft
        /\ ContextTracksDraft
        /\ GuardOpenOnlyForApproved
        /\ NoPlanStuckFailed
        /\ SurfaceWhilePending
        /\ ShownWereDrafted
        /\ KeptWereRetired

-----------------------------------------------------------------------------
(* What the user actions do when the invariant holds.                      *)

(* What these rest on: the context of a draft is that of a new draft.      *)
DraftsKept == ServiceTypeOK /\ FrozenPlanIsDraft /\ ContextTracksDraft

Edited(p) ==
    /\ p \in surfaces
    /\ Mutated(p)
    /\ contexts' = [contexts EXCEPT ![p] = NewContext(records'[p].draft)]
    /\ UNCHANGED <<surfaces, kept, retired>>

Succeeded(p, c) ==
    /\ p \in surfaces /\ records[p].status = "draft"
    /\ records' = [records EXCEPT ![p] = Frozen(@, "approved")]
    /\ contexts' = [contexts EXCEPT ![p] = Opened(@, records[p].draft)]
    /\ surfaces' = surfaces \ {p}
    /\ execs' = Append(execs, [plan |-> p, seen |-> c.body, ran |-> records[p].draft,
                               known |-> registry, ok |-> TRUE])
    /\ UNCHANGED <<registry, shown, kept, retired>>

Failed(p, c) ==
    /\ execs' = Append(execs, [plan |-> p, seen |-> c.body, ran |-> records[p].draft,
                               known |-> registry, ok |-> FALSE])
    /\ UNCHANGED <<records, contexts, surfaces, registry, shown, kept, retired>>

(* A context that is synced, or opened and shut again, is that of a new    *)
(* draft.                                                                  *)
LEMMA FreshContexts ==
    ASSUME NEW d, NEW e
    PROVE  /\ Synced(NewContext(d), e) = NewContext(e)
           /\ Shut(NewContext(d)) = NewContext(d)
           /\ ContextAfter(NewContext(d), e, TRUE, FALSE) = NewContext(e)
<1>1. Synced(NewContext(d), e) = NewContext(e)
  BY DEF Synced, NewContext
<1>2. Shut(NewContext(d)) = NewContext(d)
  <2>1. \A x, y, z, w : [[exists |-> x, draft |-> y, approved |-> z] EXCEPT !.approved = w]
                          = [exists |-> x, draft |-> y, approved |-> w]
    OBVIOUS
  <2> QED
    BY <2>1 DEF Shut, NewContext
<1>3. ContextAfter(NewContext(d), e, TRUE, FALSE) = Synced(Shut(NewContext(d)), e)
  BY DEF ContextAfter
<1> QED
  BY <1>1, <1>2, <1>3

(* The context of a draft is the one a new draft would get, so syncing it  *)
(* is making it anew.                                                      *)
LEMMA EditsKeepContexts ==
    ASSUME DraftsKept, NEW p \in PlanIds, NEW c \in shown, UserEdits(p, c)
    PROVE  Edited(p)
<1>1. Mutated(p)
  BY EditsAreMutations DEF UserEdits, DraftsKept, ServiceTypeOK
<1>2. contexts[p] = NewContext(records[p].draft)
  BY <1>1 DEF Mutated, DraftsKept, ContextTracksDraft
<1>3. Synced(contexts[p], records'[p].draft) = NewContext(records'[p].draft)
  BY <1>2, FreshContexts
<1> QED
  BY <1>1, <1>3 DEF UserEdits, Edited

(* A granted approval that fails leaves record, context and surface as     *)
(* they were: the reset of the record takes back what _approve recorded.   *)
LEMMA FailureLeavesNoTrace ==
    ASSUME DraftsKept, NEW p \in PlanIds, records[p].status = "draft"
    PROVE  /\ GuardGrants(contexts[p], records[p].draft)
           /\ RecordAfter(records[p], TRUE, FALSE) = records[p]
           /\ ContextAfter(contexts[p], records[p].draft, TRUE, FALSE) = contexts[p]
<1>1. contexts[p] = NewContext(records[p].draft)
  BY DEF DraftsKept, ContextTracksDraft
<1>2. /\ records[p] \in Records
      /\ records[p].approved = NoPlan /\ records[p].approvedVersion = 0
  BY DEF DraftsKept, ServiceTypeOK, TypeOK, FrozenPlanIsDraft, Approved
<1>3. GuardGrants(contexts[p], records[p].draft)
  BY <1>1 DEF GuardGrants, NewContext
<1>4. ResetRecord(Frozen(records[p], "approved_execution_failed")) = records[p]
  BY <1>2 DEF ResetRecord, Frozen, Records
<1>5. RecordAfter(records[p], TRUE, FALSE) = records[p]
  BY <1>4 DEF RecordAfter
<1>6. ContextAfter(contexts[p], records[p].draft, TRUE, FALSE) = contexts[p]
  BY <1>1, FreshContexts
<1> QED
  BY <1>3, <1>5, <1>6

(* Approvals are never refused by the guard: they succeed, or fail without *)
(* a trace but the execution itself.                                       *)
LEMMA ApprovalsSucceedOrFail ==
    ASSUME DraftsKept, NEW p \in PlanIds, NEW c \in shown, UserApproves(p, c)
    PROVE  Succeeded(p, c) \/ Failed(p, c)
<1>1. p \in surfaces /\ records[p].status = "draft"
  BY DEF UserApproves, MayApprove
<1>2. records \in [PlanIds -> Records] /\ contexts \in [PlanIds -> Contexts]
  BY DEF DraftsKept, ServiceTypeOK, TypeOK
<1>3. GuardGrants(contexts[p], records[p].draft) = TRUE
  BY <1>1, FailureLeavesNoTrace DEF GuardGrants
<1>4. PICK ok \in BOOLEAN :
        /\ records' = [records EXCEPT ![p] = RecordAfter(@, TRUE, ok)]
        /\ contexts' = [contexts EXCEPT ![p] =
                           ContextAfter(@, records[p].draft, TRUE, ok)]
        /\ surfaces' = IF ok THEN surfaces \ {p} ELSE surfaces
        /\ execs' = Append(execs, [plan |-> p, seen |-> c.body,
                                   ran |-> records[p].draft,
                                   known |-> registry, ok |-> ok])
        /\ UNCHANGED <<registry, shown, kept, retired>>
  BY <1>3 DEF UserApproves
<1>5. CASE ok
  <2>1. /\ RecordAfter(records[p], TRUE, ok) = Frozen(records[p], "approved")
        /\ ContextAfter(contexts[p], records[p].draft, TRUE, ok)
             = Opened(contexts[p], records[p].draft)
    BY <1>5 DEF RecordAfter, ContextAfter
  <2>2. ok = TRUE
    BY <1>5
  <2> QED
    BY <1>1, <1>4, <2>1, <2>2 DEF Succeeded
<1>6. CASE ~ ok
  <2>1. ok = FALSE
    BY <1>6
  <2>2. /\ records' = [records EXCEPT ![p] = records[p]]
        /\ contexts' = [contexts EXCEPT ![p] = contexts[p]]
        /\ surfaces' = surfaces
    BY <1>1, <1>4, <2>1, FailureLeavesNoTrace
  <2>3. records' = records /\ contexts' = contexts
    BY <1>2, <2>2
  <2> QED
    BY <1>4, <2>1, <2>2, <2>3 DEF Failed
<1> QED
  BY <1>5, <1>6

-----------------------------------------------------------------------------
(* The invariant.                                                          *)

(* An empty service satisfies the invariant.                               *)
LEMMA SInvInit == SInit => SInv
<1> SUFFICES ASSUME SInit
             PROVE  SInv
  OBVIOUS
<1>1. TypeOK /\ FrozenPlanIsDraft
  BY TypeOKInit DEF SInit, Init, FrozenPlanIsDraft, NoRecord, Approved
<1>2. NoContext \in Contexts
  BY NoPlanType DEF NoContext, Contexts
<1>3. \A p \in PlanIds : records[p].status = "none" /\ contexts[p] = NoContext
  BY DEF SInit, Init, NoRecord
<1> QED
  BY <1>1, <1>2, <1>3
     DEF SInit, Init, SInv, ServiceTypeOK, ContextTracksDraft, NoContext,
         GuardOpenOnlyForApproved, NoPlanStuckFailed, SurfaceWhilePending,
         ShownWereDrafted, KeptWereRetired, KeptSurfaces, NothingKept

(* One step per kind of user action, and under it one per part of the      *)
(* invariant that the action can disturb.                                  *)
LEMMA SInvNext == SInv /\ [SNext]_svars => SInv'
<1> SUFFICES ASSUME SInv, [SNext]_svars
             PROVE  SInv'
  OBVIOUS
<1> USE DEF SInv, ServiceTypeOK
<1>0. /\ records \in [PlanIds -> Records]
      /\ contexts \in [PlanIds -> Contexts]
      /\ execs \in Seq(Executions)
      /\ shown \subseteq Canvases
      /\ surfaces \subseteq PlanIds
      /\ kept \in KeptSurfaces /\ retired \subseteq PlanIds
      /\ registry \subseteq Agents
  BY DEF TypeOK
<1>1. CASE UNCHANGED svars
  BY <1>1 DEF svars, vars, TypeOK, FrozenPlanIsDraft, ContextTracksDraft,
     GuardOpenOnlyForApproved, NoPlanStuckFailed, SurfaceWhilePending, ShownWereDrafted,
     KeptWereRetired
<1>2. ASSUME NEW p \in PlanIds, ProposePlan(p)
      PROVE  SInv'
  <2>1. PICK d \in NewDrafts, canvasOk \in BOOLEAN :
          /\ records' = [records EXCEPT ![p] = DraftRecord(d)]
          /\ contexts' = [contexts EXCEPT ![p] = NewContext(d)]
          /\ surfaces' = IF canvasOk THEN surfaces \cup {p} ELSE surfaces
          /\ shown' = IF canvasOk THEN shown \cup {[plan |-> p, body |-> d]}
                                  ELSE shown
    BY <1>2 DEF ProposePlan
  <2>2. /\ d \in Plans /\ records[p].status = "none"
        /\ UNCHANGED <<registry, execs, kept, retired>>
    BY <1>2, StoreAssumption DEF ProposePlan
  <2>3. /\ DraftRecord(d) \in Records
        /\ DraftRecord(d).status = "draft" /\ DraftRecord(d).draft = d
        /\ DraftRecord(d).approved = NoPlan /\ DraftRecord(d).approvedVersion = 0
    BY <2>2, DraftRecordType DEF DraftRecord, NoRecord
  <2>4. NewContext(d) \in Contexts /\ NewContext(d).approved = NoPlan
    BY <2>2, NoPlanType DEF NewContext, Contexts
  <2> HIDE DEF SInv, ServiceTypeOK
  <2>5. TypeOK' /\ contexts' \in [PlanIds -> Contexts] /\ surfaces' \subseteq PlanIds
    BY <1>0, <2>1, <2>2, <2>3, <2>4 DEF TypeOK, Canvases
  <2>6. FrozenPlanIsDraft'
    BY <1>0, <2>1, <2>3 DEF SInv, FrozenPlanIsDraft, Approved
  <2>7. ContextTracksDraft'
    BY <1>0, <2>1, <2>3 DEF SInv, ContextTracksDraft
  <2>8. GuardOpenOnlyForApproved'
    BY <1>0, <2>1, <2>3, <2>4 DEF SInv, GuardOpenOnlyForApproved
  <2>9. NoPlanStuckFailed'
    BY <1>0, <2>1, <2>3 DEF SInv, NoPlanStuckFailed
  <2>10. SurfaceWhilePending'
    <3>1. /\ p \notin surfaces /\ p \notin retired
          /\ \A c \in shown : c.plan # p
      BY <2>2 DEF SInv, SurfaceWhilePending, ShownWereDrafted
    <3>2. canvasOk <=> \E c \in shown' : c.plan = p
      <4>1. CASE canvasOk
        <5>1. [plan |-> p, body |-> d] \in shown'
          BY <2>1, <4>1
        <5> QED
          BY <4>1, <5>1
      <4>2. CASE ~ canvasOk
        BY <2>1, <3>1, <4>2
      <4> QED
        BY <4>1, <4>2
    <3>3. \A q \in PlanIds \ {p} :
             (\E c \in shown' : c.plan = q) <=> (\E c \in shown : c.plan = q)
      BY <2>1
    <3>4. (canvasOk <=> p \in surfaces') /\ records'[p].status = "draft"
      BY <1>0, <2>1, <2>3, <3>1
    <3>5. \A q \in PlanIds \ {p} : /\ q \in surfaces' <=> q \in surfaces
                                   /\ records'[q] = records[q]
      BY <1>0, <2>1
    <3>6. retired' = retired /\ surfaces' \cap retired = {}
      BY <2>1, <2>2, <3>1 DEF SInv, SurfaceWhilePending
    <3> QED
      BY <3>1, <3>2, <3>3, <3>4, <3>5, <3>6 DEF SInv, SurfaceWhilePending
  <2>11. ShownWereDrafted'
    BY <1>0, <2>1, <2>3 DEF SInv, ShownWereDrafted, Canvases
  <2>12. KeptWereRetired' /\ kept' \in KeptSurfaces /\ retired' \subseteq PlanIds
    BY <1>0, <2>2 DEF SInv, KeptWereRetired
  <2> QED
    BY <2>5, <2>6, <2>7, <2>8, <2>9, <2>10, <2>11, <2>12 DEF SInv, ServiceTypeOK
<1>3. ASSUME NEW p \in PlanIds, Edited(p)
      PROVE  SInv'
  <2>1. PICK next \in Plans :
          /\ records' = [records EXCEPT ![p] = [@ EXCEPT !.draft = next]]
          /\ shown' = shown \cup {[plan |-> p, body |-> next]}
    BY <1>3 DEF Edited, Mutated
  <2>2. /\ p \in surfaces /\ records[p].status = "draft"
        /\ UNCHANGED <<surfaces, registry, execs, kept, retired>>
        /\ contexts' = [contexts EXCEPT ![p] = NewContext(records'[p].draft)]
    BY <1>3 DEF Edited, Mutated
  <2> DEFINE rec == [records[p] EXCEPT !.draft = next]
  <2>3. /\ rec \in Records
        /\ rec.status = "draft" /\ rec.draft = next
        /\ rec.approved = records[p].approved
        /\ rec.approvedVersion = records[p].approvedVersion
    BY <1>0, <2>1, <2>2 DEF Records
  <2>4. records' = [records EXCEPT ![p] = rec]
    BY <2>1
  <2> HIDE DEF rec, SInv, ServiceTypeOK
  <2>5. NewContext(next) \in Contexts /\ NewContext(next).approved = NoPlan
    BY NoPlanType DEF NewContext, Contexts
  <2>6. contexts' = [contexts EXCEPT ![p] = NewContext(next)]
    BY <1>0, <2>2, <2>3, <2>4
  <2>7. TypeOK' /\ contexts' \in [PlanIds -> Contexts] /\ surfaces' \subseteq PlanIds
    BY <1>0, <2>1, <2>2, <2>3, <2>4, <2>5, <2>6 DEF TypeOK, Canvases
  <2>8. FrozenPlanIsDraft'
    BY <1>0, <2>2, <2>3, <2>4 DEF SInv, FrozenPlanIsDraft, Approved
  <2>9. ContextTracksDraft'
    BY <1>0, <2>3, <2>4, <2>6 DEF SInv, ContextTracksDraft
  <2>10. GuardOpenOnlyForApproved'
    BY <1>0, <2>3, <2>4, <2>5, <2>6 DEF SInv, GuardOpenOnlyForApproved
  <2>11. NoPlanStuckFailed'
    BY <1>0, <2>3, <2>4 DEF SInv, NoPlanStuckFailed
  <2>12. SurfaceWhilePending'
    BY <1>0, <2>1, <2>2, <2>3, <2>4 DEF SInv, SurfaceWhilePending
  <2>13. ShownWereDrafted'
    <3>1. \A q \in PlanIds : records[q].status # "none" => records'[q].status # "none"
      BY <1>0, <2>3, <2>4
    <3>2. \A c \in shown' : c.plan \in PlanIds
      BY <1>0, <2>1 DEF Canvases
    <3>3. \A c \in shown' : c \in shown \/ c.plan = p
      BY <2>1
    <3>4. records'[p].status # "none"
      BY <1>0, <2>3, <2>4
    <3> QED
      BY <3>1, <3>2, <3>3, <3>4 DEF SInv, ShownWereDrafted
  <2>14. KeptWereRetired' /\ kept' \in KeptSurfaces /\ retired' \subseteq PlanIds
    BY <1>0, <2>2 DEF SInv, KeptWereRetired
  <2> QED
    BY <2>7, <2>8, <2>9, <2>10, <2>11, <2>12, <2>13, <2>14 DEF SInv, ServiceTypeOK
<1>4. ASSUME NEW p \in PlanIds, NEW c \in shown, Succeeded(p, c)
      PROVE  SInv'
  <2> DEFINE rec == Frozen(records[p], "approved")
             ctx == Opened(contexts[p], records[p].draft)
  <2>1. /\ p \in surfaces /\ records[p].status = "draft"
        /\ records' = [records EXCEPT ![p] = rec]
        /\ contexts' = [contexts EXCEPT ![p] = ctx]
        /\ surfaces' = surfaces \ {p}
        /\ UNCHANGED <<registry, shown, kept, retired>>
    BY <1>4 DEF Succeeded
  <2>2. /\ rec \in Records /\ rec.status = "approved"
        /\ rec.draft = records[p].draft /\ rec.approved = records[p].draft
        /\ rec.approvedVersion = records[p].draft.version
    BY <1>0, FrozenType DEF Frozen, Records, Approved
  <2>3. ctx \in Contexts /\ ctx.approved = records[p].draft
    BY <1>0 DEF Opened, Contexts, Records
  <2>4. execs' \in Seq(Executions)
    <3>1. [plan |-> p, seen |-> c.body, ran |-> records[p].draft,
           known |-> registry, ok |-> TRUE] \in Executions
      BY <1>0 DEF Executions, Canvases, Records
    <3> QED
      BY <1>0, <1>4, <3>1 DEF Succeeded
  <2> HIDE DEF rec, ctx, SInv, ServiceTypeOK
  <2>5. TypeOK' /\ contexts' \in [PlanIds -> Contexts] /\ surfaces' \subseteq PlanIds
    BY <1>0, <2>1, <2>2, <2>3, <2>4 DEF TypeOK
  <2>6. FrozenPlanIsDraft'
    BY <1>0, <2>1, <2>2 DEF SInv, FrozenPlanIsDraft, Approved
  <2>7. ContextTracksDraft'
    BY <1>0, <2>1, <2>2 DEF SInv, ContextTracksDraft
  <2>8. GuardOpenOnlyForApproved'
    BY <1>0, <2>1, <2>2, <2>3 DEF SInv, GuardOpenOnlyForApproved
  <2>9. NoPlanStuckFailed'
    BY <1>0, <2>1, <2>2 DEF SInv, NoPlanStuckFailed
  <2>10. SurfaceWhilePending'
    BY <1>0, <2>1, <2>2 DEF SInv, SurfaceWhilePending
  <2>11. ShownWereDrafted'
    BY <1>0, <2>1, <2>2 DEF SInv, ShownWereDrafted, Canvases
  <2>12. KeptWereRetired' /\ kept' \in KeptSurfaces /\ retired' \subseteq PlanIds
    BY <1>0, <2>1 DEF SInv, KeptWereRetired
  <2> QED
    BY <2>5, <2>6, <2>7, <2>8, <2>9, <2>10, <2>11, <2>12 DEF SInv, ServiceTypeOK
<1>5. ASSUME NEW p \in PlanIds, NEW c \in shown, Failed(p, c)
      PROVE  SInv'
  <2>1. execs' \in Seq(Executions)
    <3>1. [plan |-> p, seen |-> c.body, ran |-> records[p].draft,
           known |-> registry, ok |-> FALSE] \in Executions
      BY <1>0 DEF Executions, Canvases, Records
    <3> QED
      BY <1>0, <1>5, <3>1 DEF Failed
  <2> QED
    BY <1>5, <2>1 DEF Failed, TypeOK, FrozenPlanIsDraft, ContextTracksDraft,
       GuardOpenOnlyForApproved, NoPlanStuckFailed, SurfaceWhilePending,
       ShownWereDrafted, KeptWereRetired
<1>6. ASSUME NEW p \in PlanIds, NEW c \in shown, UserRejects(p, c)
      PROVE  SInv'
  <2> DEFINE rec == [records[p] EXCEPT !.status = "rejected"]
  <2>1. /\ p \in surfaces /\ records[p].status = "draft"
        /\ records' = [records EXCEPT ![p] = rec]
        /\ surfaces' = surfaces \ {p}
        /\ UNCHANGED <<contexts, registry, shown, execs, kept, retired>>
    BY <1>6 DEF UserRejects, Reject
  <2>2. /\ rec \in Records /\ rec.status = "rejected"
        /\ rec.approved = records[p].approved
        /\ rec.approvedVersion = records[p].approvedVersion
    BY <1>0 DEF Records, Statuses
  <2> HIDE DEF rec, SInv, ServiceTypeOK
  <2>3. TypeOK' /\ contexts' \in [PlanIds -> Contexts] /\ surfaces' \subseteq PlanIds
    BY <1>0, <2>1, <2>2 DEF TypeOK
  <2>4. FrozenPlanIsDraft'
    BY <1>0, <2>1, <2>2 DEF SInv, FrozenPlanIsDraft, Approved
  <2>5. ContextTracksDraft'
    BY <1>0, <2>1, <2>2 DEF SInv, ContextTracksDraft
  <2>6. GuardOpenOnlyForApproved'
    <3>1. contexts[p].approved = NoPlan
      BY <2>1 DEF SInv, GuardOpenOnlyForApproved
    <3> QED
      BY <1>0, <2>1, <2>2, <3>1 DEF SInv, GuardOpenOnlyForApproved
  <2>7. NoPlanStuckFailed'
    BY <1>0, <2>1, <2>2 DEF SInv, NoPlanStuckFailed
  <2>8. SurfaceWhilePending'
    BY <1>0, <2>1, <2>2 DEF SInv, SurfaceWhilePending
  <2>9. ShownWereDrafted'
    BY <1>0, <2>1, <2>2 DEF SInv, ShownWereDrafted, Canvases
  <2>10. KeptWereRetired' /\ kept' \in KeptSurfaces /\ retired' \subseteq PlanIds
    BY <1>0, <2>1 DEF SInv, KeptWereRetired
  <2> QED
    BY <2>3, <2>4, <2>5, <2>6, <2>7, <2>8, <2>9, <2>10 DEF SInv, ServiceTypeOK
<1>7. CASE RegistryReloads
  BY <1>7, StoreAssumption DEF RegistryReloads, ReloadRegistry, TypeOK,
     FrozenPlanIsDraft, ContextTracksDraft, GuardOpenOnlyForApproved,
     NoPlanStuckFailed, SurfaceWhilePending, ShownWereDrafted, KeptWereRetired
<1>8. CASE ClearSurfaces \/ RestoreSurfaces
  <2>1. UNCHANGED <<vars, contexts>>
    BY <1>8 DEF ClearSurfaces, RestoreSurfaces
  <2>2. /\ surfaces' \subseteq PlanIds /\ retired' \subseteq PlanIds
        /\ kept' \in KeptSurfaces
    <3>1. \A q \in SUBSET PlanIds : Held(q) \in KeptSurfaces
      BY DEF Held, KeptSurfaces
    <3>2. NothingKept \in KeptSurfaces
      BY DEF NothingKept, KeptSurfaces
    <3>3. kept.plans \subseteq PlanIds
      BY <1>0 DEF KeptSurfaces
    <3> QED
      BY <1>0, <1>8, <3>1, <3>2, <3>3 DEF ClearSurfaces, RestoreSurfaces
  <2>3. KeptWereRetired'
    BY <1>8 DEF ClearSurfaces, RestoreSurfaces, Held, NothingKept, KeptWereRetired
  <2>4. SurfaceWhilePending'
    <3>1. /\ surfaces' \cap retired' = {}
          /\ surfaces' \cup retired' = surfaces \cup retired
      BY <1>0, <1>8 DEF ClearSurfaces, RestoreSurfaces, SurfaceWhilePending,
                        KeptWereRetired
    <3> QED
      BY <2>1, <3>1 DEF vars, SurfaceWhilePending
  <2> QED
    BY <2>1, <2>2, <2>3, <2>4 DEF vars, TypeOK, FrozenPlanIsDraft, ContextTracksDraft,
       GuardOpenOnlyForApproved, NoPlanStuckFailed, ShownWereDrafted
<1>9. DraftsKept
  BY DEF DraftsKept
<1> QED
  BY <1>1, <1>2, <1>3, <1>4, <1>5, <1>6, <1>7, <1>8, <1>9, EditsKeepContexts,
     ApprovalsSucceedOrFail DEF SNext

(* The invariant holds throughout.                                         *)
LEMMA ServiceInvariant == SSpec => []SInv
BY SInvInit, SInvNext, PTL DEF SSpec

(* The guard's copy of a draft is the store's, so the guard refuses no     *)
(* approval of a current draft (_sync_context_draft).                      *)
THEOREM ContextsTrackDrafts == SSpec => []ContextTracksDraft
<1>1. SInv => ContextTracksDraft
  BY DEF SInv
<1> QED
  BY <1>1, ServiceInvariant, PTL

(* Specialists are let in only for an approved plan and only for the steps *)
(* that were approved (mark_plan_approved, reset_plan_approval).           *)
THEOREM GuardsOpenOnlyForApproved == SSpec => []GuardOpenOnlyForApproved
<1>1. SInv => GuardOpenOnlyForApproved
  BY DEF SInv
<1> QED
  BY <1>1, ServiceInvariant, PTL

(* No plan is left in the failed state, out of reach of every user action  *)
(* (_handle_orchestrator_owned_user_action).                               *)
THEOREM NoPlanStuck == SSpec => []NoPlanStuckFailed
<1>1. SInv => NoPlanStuckFailed
  BY DEF SInv
<1> QED
  BY <1>1, ServiceInvariant, PTL

(* The user can act on a plan only while it waits for a decision, and      *)
(* nothing but a clear or a restore takes that away from a shown plan      *)
(* (clear_renderer_surfaces, restore_renderer_surfaces).                   *)
THEOREM SurfacesWhilePending == SSpec => []SurfaceWhilePending
<1>1. SInv => SurfaceWhilePending
  BY DEF SInv
<1> QED
  BY <1>1, ServiceInvariant, PTL

-----------------------------------------------------------------------------
(* Seen from the records alone, an approval that fails is no step at all.  *)
LEMMA ServiceLifecycleNext ==
    ASSUME SInv, [SNext]_svars
    PROVE  [Lifecycle!LNext]_(Lifecycle!lvars)
<1>0. /\ TypeOK /\ FrozenPlanIsDraft /\ records \in [PlanIds -> Records]
      /\ DraftsKept
  BY DEF SInv, DraftsKept, ServiceTypeOK, TypeOK
<1>1. CASE UNCHANGED records
  BY <1>1 DEF Lifecycle!lvars
<1>2. ASSUME NEW p \in PlanIds, ProposePlan(p)
      PROVE  Lifecycle!LDraft(p)
  <2>1. PICK d \in NewDrafts : records' = [records EXCEPT ![p] = DraftRecord(d)]
    BY <1>2 DEF ProposePlan
  <2>2. d \in Plans /\ d.version \in Nat \ {0}
    BY StoreAssumption DEF Plans
  <2>3. /\ DraftRecord(d) \in Records
        /\ DraftRecord(d).status = "draft" /\ DraftRecord(d).draft = d
        /\ DraftRecord(d).approvedVersion = 0
    BY <2>2, DraftRecordType DEF DraftRecord, NoRecord
  <2>4. records[p].status = "none" /\ records[p].approvedVersion = 0
    BY <1>0, <1>2 DEF ProposePlan, FrozenPlanIsDraft, Approved
  <2> QED
    BY <1>0, <2>1, <2>2, <2>3, <2>4, RecordSteps
<1>3. ASSUME NEW p \in PlanIds, Edited(p)
      PROVE  Lifecycle!LEdit(p)
  <2>1. PICK next \in Plans :
          /\ next.version = records[p].draft.version + 1
          /\ records' = [records EXCEPT ![p] = [@ EXCEPT !.draft = next]]
    BY <1>3 DEF Edited, Mutated
  <2> DEFINE rec == [records[p] EXCEPT !.draft = next]
  <2>2. /\ rec \in Records
        /\ rec.status = records[p].status
        /\ rec.draft.version = records[p].draft.version + 1
        /\ rec.approvedVersion = records[p].approvedVersion
    BY <1>0, <2>1 DEF Records
  <2>3. records' = [records EXCEPT ![p] = rec] /\ records[p].status = "draft"
    BY <1>3, <2>1 DEF Edited, Mutated
  <2> HIDE DEF rec
  <2> QED
    BY <1>0, <2>2, <2>3, RecordSteps
<1>4. ASSUME NEW p \in PlanIds, NEW c \in shown, Succeeded(p, c)
      PROVE  Lifecycle!LApprove(p)
  <2> DEFINE rec == Frozen(records[p], "approved")
  <2>1. /\ rec \in Records /\ rec.status \in Approved
        /\ rec.draft.version = records[p].draft.version
        /\ rec.approvedVersion = records[p].draft.version
    BY <1>0, FrozenType DEF Frozen, Records, Approved
  <2>2. records' = [records EXCEPT ![p] = rec] /\ records[p].status = "draft"
    BY <1>4 DEF Succeeded
  <2> HIDE DEF rec
  <2> QED
    BY <1>0, <2>1, <2>2, RecordSteps
<1>5. ASSUME NEW p \in PlanIds, NEW c \in shown, UserRejects(p, c)
      PROVE  Lifecycle!LReject(p)
  <2> DEFINE rec == [records[p] EXCEPT !.status = "rejected"]
  <2>1. /\ rec \in Records /\ rec.status = "rejected"
        /\ rec.draft.version = records[p].draft.version
        /\ rec.approvedVersion = records[p].approvedVersion
    BY <1>0 DEF Records, Statuses
  <2>2. records' = [records EXCEPT ![p] = rec] /\ records[p].status = "draft"
    BY <1>5 DEF UserRejects, Reject
  <2> HIDE DEF rec
  <2> QED
    BY <1>0, <2>1, <2>2, RecordSteps
<1> QED
  BY <1>0, <1>1, <1>2, <1>3, <1>4, <1>5, EditsKeepContexts, ApprovalsSucceedOrFail
     DEF SNext, svars, vars, Failed, RegistryReloads, ReloadRegistry, ClearSurfaces,
         RestoreSurfaces, Lifecycle!LNext

(* The service implements the abstract life of a plan: its approvals are   *)
(* one step, the reset of a failed execution included.                     *)
THEOREM ServiceImplementsLifecycle == SSpec => ImplementsLifecycle
<1>1. SInit => Lifecycle!LInit
  BY LifecycleInit DEF SInit
<1> QED
  BY <1>1, ServiceLifecycleNext, ServiceInvariant, PTL
     DEF SSpec, ImplementsLifecycle, Lifecycle!LSpec
=============================================================================
