------------------------ MODULE ApprovalStore_proofs ------------------------
(***************************************************************************)
(* Safety of the approval store for every value of its constants: types,   *)
(* the frozen copy, execution of what was shown, at most one successful    *)
(* execution, finality of decisions and the abstract lifecycle.            *)
(***************************************************************************)
EXTENDS ApprovalStore, PlanDraft_proofs

-----------------------------------------------------------------------------
(* What every edit does to the state, whatever it does to the plan.        *)
Mutated(p) ==
    /\ records[p].status = "draft"
    /\ \E next \in Plans :
          /\ next.version = records[p].draft.version + 1
          /\ records' = [records EXCEPT ![p].draft = next]
          /\ shown' = shown \cup {[plan |-> p, body |-> next]}
    /\ UNCHANGED <<registry, execs>>

(* What adding a draft does.                                               *)
Added(p) ==
    /\ records[p].status = "none"
    /\ \E d \in NewDrafts :
          /\ records' = [records EXCEPT ![p] = DraftRecord(d)]
          /\ shown' = shown \cup {[plan |-> p, body |-> d]}
    /\ UNCHANGED <<registry, execs>>

(* The edits return plans of the same version, which the store turns into  *)
(* plans of the next one.                                                  *)
LEMMA EditsAreMutations ==
    ASSUME TypeOK, NEW p \in PlanIds, NEW c \in shown,
           \/ EditPlan(p, c) \/ RemovePlanStep(p, c) \/ Reorder(p, c)
           \/ ChooseAgent(p, c) \/ Instruct(p, c)
    PROVE  Mutated(p)
<1> DEFINE plan == records[p].draft
<1>1. plan \in Plans /\ registry \in SUBSET Agents
  BY DEF TypeOK, Records
<1>2. ASSUME NEW edited \in Plans, edited.version = plan.version
      PROVE  /\ NextVersion(edited) \in Plans
             /\ NextVersion(edited).version = plan.version + 1
  BY <1>2, NextVersionType
<1> HIDE DEF plan
<1>3. CASE EditPlan(p, c)
  BY <1>1, <1>2, <1>3 DEF EditPlan, Mutate, Mutated, plan
<1>4. CASE RemovePlanStep(p, c)
  <2>1. \A edited \in Removals(plan) : edited \in Plans /\ edited.version = plan.version
    BY <1>1, RemoveStepType DEF Removals
  <2> QED
    BY <1>2, <1>4, <2>1 DEF RemovePlanStep, Mutate, Mutated, plan
<1>5. CASE Reorder(p, c)
  <2>1. \A edited \in Reorderings(plan) : edited \in Plans /\ edited.version = plan.version
    BY <1>1, ReorderStepsType DEF Reorderings
  <2> QED
    BY <1>2, <1>5, <2>1 DEF Reorder, Mutate, Mutated, plan
<1>6. CASE ChooseAgent(p, c)
  <2>1. \A edited \in Replacements(plan) : edited \in Plans /\ edited.version = plan.version
    BY <1>1, ReplaceAgentType DEF Replacements
  <2> QED
    BY <1>2, <1>6, <2>1 DEF ChooseAgent, Mutate, Mutated, plan
<1>7. CASE Instruct(p, c)
  <2>1. \A edited \in Instructed(plan) : edited \in Plans /\ edited.version = plan.version
    BY <1>1, AddInstructionType DEF Instructed
  <2> QED
    BY <1>2, <1>7, <2>1 DEF Instruct, Mutate, Mutated, plan
<1> QED
  BY <1>3, <1>4, <1>5, <1>6, <1>7

(* The steps of the store, with the edits taken together.                  *)
LEMMA NextCases ==
    ASSUME TypeOK, Next
    PROVE  \/ \E p \in PlanIds : \/ Added(p)
                                 \/ Mutated(p)
                                 \/ ResetFailedApproval(p)
           \/ \E p \in PlanIds, c \in shown : \/ Approve(p, c)
                                              \/ PreflightFailure(p, c)
                                              \/ Reject(p, c)
           \/ ReloadRegistry
<1>1. \A p \in PlanIds : AddDraft(p) => Added(p)
  BY DEF AddDraft, Added
<1> QED
  BY <1>1, EditsAreMutations DEF Next

-----------------------------------------------------------------------------
(* Types.                                                                  *)

(* The absent plan is a plan value.                                        *)
LEMMA NoPlanType == NoPlan \in Plans
<1>1. <<>> \in Seq(Steps)
  OBVIOUS
<1> QED
  BY <1>1 DEF NoPlan, Plans

(* The absent record is a record value.                                    *)
LEMMA NoRecordType == NoRecord \in Records
BY NoPlanType DEF NoRecord, Records, Statuses

(* add_draft stores a record of a draft and nothing else.                  *)
LEMMA DraftRecordType ==
    ASSUME NEW plan \in Plans
    PROVE  DraftRecord(plan) \in Records
BY NoPlanType DEF DraftRecord, NoRecord, Records, Statuses

(* _approve freezes a record into a record.                                *)
LEMMA FrozenType ==
    ASSUME NEW rec \in Records, NEW status \in Approved
    PROVE  Frozen(rec, status) \in Records
BY DEF Frozen, Records, Statuses, Approved, Plans

(* reset_failed_approval leaves a record.                                  *)
LEMMA ResetRecordType ==
    ASSUME NEW rec \in Records
    PROVE  ResetRecord(rec) \in Records
BY NoPlanType DEF ResetRecord, Records, Statuses

(* The empty store has the right type.                                     *)
LEMMA TypeOKInit == Init => TypeOK
<1>1. <<>> \in Seq(Executions)
  OBVIOUS
<1> QED
  BY <1>1, NoRecordType, StoreAssumption DEF Init, TypeOK

(* No operation of the store breaks the types: one step per operation.     *)
LEMMA TypeOKNext == TypeOK /\ [Next]_vars => TypeOK'
<1> SUFFICES ASSUME TypeOK, [Next]_vars
             PROVE  TypeOK'
  OBVIOUS
<1>1. CASE UNCHANGED vars
  BY <1>1 DEF vars, TypeOK
<1>2. ASSUME NEW p \in PlanIds, Added(p)
      PROVE  TypeOK'
  BY <1>2, DraftRecordType, StoreAssumption DEF Added, TypeOK, Canvases
<1>3. ASSUME NEW p \in PlanIds, Mutated(p)
      PROVE  TypeOK'
  <2>1. PICK next \in Plans :
          /\ records' = [records EXCEPT ![p] = [@ EXCEPT !.draft = next]]
          /\ shown' = shown \cup {[plan |-> p, body |-> next]}
          /\ UNCHANGED <<registry, execs>>
    BY <1>3 DEF Mutated
  <2>2. [records[p] EXCEPT !.draft = next] \in Records
    BY DEF TypeOK, Records
  <2>3. [plan |-> p, body |-> next] \in Canvases
    BY DEF Canvases
  <2> QED
    BY <2>1, <2>2, <2>3 DEF TypeOK
<1>4. ASSUME NEW p \in PlanIds, ResetFailedApproval(p)
      PROVE  TypeOK'
  BY <1>4, ResetRecordType DEF ResetFailedApproval, TypeOK
<1>5. ASSUME NEW p \in PlanIds, NEW c \in shown, Approve(p, c)
      PROVE  TypeOK'
  <2>1. PICK ok \in BOOLEAN :
          /\ records' = [records EXCEPT ![p] =
                Frozen(@, IF ok THEN "approved" ELSE "approved_execution_failed")]
          /\ execs' = Append(execs, [plan |-> p, seen |-> c.body,
                                     ran |-> records[p].draft,
                                     known |-> registry, ok |-> ok])
    BY <1>5 DEF Approve
  <2>2. records' \in [PlanIds -> Records]
    BY <2>1, FrozenType DEF TypeOK, Approved
  <2>3. [plan |-> p, seen |-> c.body, ran |-> records[p].draft,
         known |-> registry, ok |-> ok] \in Executions
    BY DEF TypeOK, Executions, Canvases, Records
  <2>4. execs' \in Seq(Executions)
    BY <2>1, <2>3 DEF TypeOK
  <2> QED
    BY <1>5, <2>2, <2>4 DEF Approve, TypeOK
<1>6. ASSUME NEW p \in PlanIds, NEW c \in shown, PreflightFailure(p, c)
      PROVE  TypeOK'
  BY <1>6, FrozenType DEF PreflightFailure, TypeOK, Approved
<1>7. ASSUME NEW p \in PlanIds, NEW c \in shown, Reject(p, c)
      PROVE  TypeOK'
  BY <1>7 DEF Reject, TypeOK, Records, Statuses
<1>8. CASE ReloadRegistry
  BY <1>8, StoreAssumption DEF ReloadRegistry, TypeOK
<1> QED
  BY <1>1, <1>2, <1>3, <1>4, <1>5, <1>6, <1>7, <1>8, NextCases

(* Types are kept by every operation of the store.                         *)
THEOREM TypeCorrect == Spec => []TypeOK
BY TypeOKInit, TypeOKNext, PTL DEF Spec
-----------------------------------------------------------------------------
(* The frozen copy.                                                        *)

(* Freezing, drafting and resetting keep the frozen copy of one record in  *)
(* step with its draft.                                                    *)
FrozenIsDraft(rec) ==
    IF rec.status \in Approved
      THEN /\ rec.approved = rec.draft
           /\ rec.approvedVersion = rec.draft.version
      ELSE /\ rec.approved = NoPlan
           /\ rec.approvedVersion = 0

(* What _approve writes agrees with the draft it was given.                *)
LEMMA FrozenAgrees ==
    ASSUME NEW rec \in Records, NEW status \in Approved
    PROVE  FrozenIsDraft(Frozen(rec, status))
BY DEF FrozenIsDraft, Frozen, Records

(* A reset clears the copy together with the status.                       *)
LEMMA ResetAgrees ==
    ASSUME NEW rec \in Records, FrozenIsDraft(rec)
    PROVE  FrozenIsDraft(ResetRecord(rec))
BY DEF FrozenIsDraft, ResetRecord, Records, Approved

(* No operation lets the frozen copy and the draft part.                   *)
LEMMA FrozenNext ==
    TypeOK /\ FrozenPlanIsDraft /\ [Next]_vars => FrozenPlanIsDraft'
<1> SUFFICES ASSUME TypeOK, FrozenPlanIsDraft, [Next]_vars
             PROVE  FrozenPlanIsDraft'
  OBVIOUS
<1>1. records \in [PlanIds -> Records] /\ \A p \in PlanIds : FrozenIsDraft(records[p])
  BY DEF TypeOK, FrozenPlanIsDraft, FrozenIsDraft
<1>2. ASSUME NEW p \in PlanIds, NEW rec, FrozenIsDraft(rec),
             records' = [records EXCEPT ![p] = rec]
      PROVE  FrozenPlanIsDraft'
  BY <1>1, <1>2 DEF FrozenPlanIsDraft, FrozenIsDraft
<1>3. CASE UNCHANGED records
  BY <1>3 DEF FrozenPlanIsDraft
<1>4. ASSUME NEW p \in PlanIds, Added(p)
      PROVE  FrozenPlanIsDraft'
  <2>1. \A d \in NewDrafts : FrozenIsDraft(DraftRecord(d))
    BY DEF FrozenIsDraft, DraftRecord, NoRecord, Approved
  <2> QED
    BY <1>2, <1>4, <2>1 DEF Added
<1>5. ASSUME NEW p \in PlanIds, Mutated(p)
      PROVE  FrozenPlanIsDraft'
  <2>1. PICK next : records' = [records EXCEPT ![p] = [@ EXCEPT !.draft = next]]
    BY <1>5 DEF Mutated
  <2>2. FrozenIsDraft([records[p] EXCEPT !.draft = next])
    BY <1>1, <1>5 DEF Mutated, FrozenIsDraft, Records, Approved
  <2> QED
    BY <1>2, <2>1, <2>2
<1>6. ASSUME NEW p \in PlanIds, ResetFailedApproval(p)
      PROVE  FrozenPlanIsDraft'
  BY <1>1, <1>2, <1>6, ResetAgrees DEF ResetFailedApproval
<1>7. ASSUME NEW p \in PlanIds, NEW c \in shown, Approve(p, c)
      PROVE  FrozenPlanIsDraft'
  BY <1>1, <1>2, <1>7, FrozenAgrees DEF Approve, Approved
<1>8. ASSUME NEW p \in PlanIds, NEW c \in shown, PreflightFailure(p, c)
      PROVE  FrozenPlanIsDraft'
  BY <1>1, <1>2, <1>8, FrozenAgrees DEF PreflightFailure, Approved
<1>9. ASSUME NEW p \in PlanIds, NEW c \in shown, Reject(p, c)
      PROVE  FrozenPlanIsDraft'
  <2>1. records' = [records EXCEPT ![p] = [@ EXCEPT !.status = "rejected"]]
    BY <1>9 DEF Reject
  <2>2. FrozenIsDraft([records[p] EXCEPT !.status = "rejected"])
    BY <1>1, <1>9 DEF Reject, FrozenIsDraft, Records, Approved
  <2> QED
    BY <1>2, <2>1, <2>2
<1>10. CASE ReloadRegistry
  BY <1>3, <1>10 DEF ReloadRegistry
<1> QED
  BY <1>3, <1>4, <1>5, <1>6, <1>7, <1>8, <1>9, <1>10, NextCases DEF vars

(* While a plan counts as approved its frozen copy and bound version are   *)
(* those of its draft, and no copy outlives a reset.                       *)
THEOREM FrozenCopyCorrect == Spec => []FrozenPlanIsDraft
<1>1. Init => FrozenPlanIsDraft
  BY DEF Init, FrozenPlanIsDraft, NoRecord, Approved
<1> QED
  BY <1>1, FrozenNext, TypeCorrect, PTL DEF Spec
-----------------------------------------------------------------------------
(* Execution of what was shown.                                            *)

(* Strengthening: the canvases of a plan are never ahead of its draft, and *)
(* the version they name tells their whole content.                        *)
ShownTracksDrafts ==
    \A c \in shown :
        /\ records[c.plan].status # "none"
        /\ c.body.version <= records[c.plan].draft.version
        /\ c.body.version = records[c.plan].draft.version
              => c.body = records[c.plan].draft

(* Steps that change neither the drafts nor what was shown, and undo no    *)
(* drafting, leave canvases and drafts in step.                            *)
LEMMA SameDrafts ==
    ASSUME TypeOK, ShownTracksDrafts, shown' = shown,
           \A p \in PlanIds : /\ records'[p].draft = records[p].draft
                              /\ records[p].status # "none"
                                    => records'[p].status # "none"
    PROVE  ShownTracksDrafts'
BY DEF TypeOK, ShownTracksDrafts, Canvases

(* No operation shows one version of a plan with two contents.             *)
LEMMA ShownNext ==
    TypeOK /\ ShownTracksDrafts /\ [Next]_vars => ShownTracksDrafts'
<1> SUFFICES ASSUME TypeOK, ShownTracksDrafts, [Next]_vars
             PROVE  ShownTracksDrafts'
  OBVIOUS
<1>1. /\ records \in [PlanIds -> Records]
      /\ \A c \in shown : c.plan \in PlanIds /\ c.body \in Plans
      /\ \A p \in PlanIds : records[p].draft.version \in Nat
      /\ \A c \in shown : c.body.version \in Nat
  BY DEF TypeOK, Canvases, Records, Plans
<1>2. CASE UNCHANGED vars
  BY <1>2 DEF vars, ShownTracksDrafts
<1>3. ASSUME NEW p \in PlanIds, Added(p)
      PROVE  ShownTracksDrafts'
  <2>1. PICK d \in NewDrafts : /\ records' = [records EXCEPT ![p] = DraftRecord(d)]
                               /\ shown' = shown \cup {[plan |-> p, body |-> d]}
    BY <1>3 DEF Added
  <2>2. /\ DraftRecord(d).status = "draft"
        /\ DraftRecord(d).draft = d
        /\ d.version \in Nat
    BY StoreAssumption DEF DraftRecord, NoRecord, Plans
  <2>3. \A c \in shown : c.plan # p
    BY <1>3 DEF Added, ShownTracksDrafts
  <2>4. /\ records'[p] = DraftRecord(d)
        /\ \A c \in shown : records'[c.plan] = records[c.plan]
    BY <1>1, <2>1, <2>3
  <2> QED
    BY <1>1, <2>1, <2>2, <2>4 DEF ShownTracksDrafts
<1>4. ASSUME NEW p \in PlanIds, Mutated(p)
      PROVE  ShownTracksDrafts'
  <2>1. PICK next \in Plans :
          /\ next.version = records[p].draft.version + 1
          /\ records' = [records EXCEPT ![p].draft = next]
          /\ shown' = shown \cup {[plan |-> p, body |-> next]}
    BY <1>4 DEF Mutated
  <2>2. /\ records'[p].draft = next
        /\ records'[p].status = "draft"
        /\ \A q \in PlanIds : q # p => records'[q] = records[q]
    BY <1>1, <1>4, <2>1 DEF Mutated, Records
  <2>3. ASSUME NEW c \in shown, c.plan = p
        PROVE  c.body.version < next.version
    BY <1>1, <2>1, <2>3 DEF ShownTracksDrafts
  <2>4. next.version \in Nat
    BY DEF Plans
  <2> QED
    BY <1>1, <2>1, <2>2, <2>3, <2>4 DEF ShownTracksDrafts
<1>5. ASSUME NEW p \in PlanIds, ResetFailedApproval(p)
      PROVE  ShownTracksDrafts'
  BY <1>1, <1>5, SameDrafts DEF ResetFailedApproval, ResetRecord, Records
<1>6. ASSUME NEW p \in PlanIds, NEW c \in shown, Approve(p, c)
      PROVE  ShownTracksDrafts'
  BY <1>1, <1>6, SameDrafts DEF Approve, Frozen, Records
<1>7. ASSUME NEW p \in PlanIds, NEW c \in shown, PreflightFailure(p, c)
      PROVE  ShownTracksDrafts'
  BY <1>1, <1>7, SameDrafts DEF PreflightFailure, Frozen, Records
<1>8. ASSUME NEW p \in PlanIds, NEW c \in shown, Reject(p, c)
      PROVE  ShownTracksDrafts'
  BY <1>1, <1>8, SameDrafts DEF Reject, Records
<1>9. CASE ReloadRegistry
  BY <1>9, SameDrafts DEF ReloadRegistry
<1> QED
  BY <1>2, <1>3, <1>4, <1>5, <1>6, <1>7, <1>8, <1>9, NextCases

(* An approval executes what its canvas shows; nothing else executes.      *)
LEMMA ExecutedNext ==
    TypeOK /\ ShownTracksDrafts /\ ExecutedAsShown /\ [Next]_vars
       => ExecutedAsShown'
<1> SUFFICES ASSUME TypeOK, ShownTracksDrafts, ExecutedAsShown, [Next]_vars
             PROVE  ExecutedAsShown'
  OBVIOUS
<1>1. CASE execs' = execs
  BY <1>1 DEF ExecutedAsShown
<1>2. ASSUME NEW p \in PlanIds, NEW c \in shown, Approve(p, c)
      PROVE  ExecutedAsShown'
  <2>1. c.body = records[p].draft
    BY <1>2 DEF Approve, MayApprove, IsCurrent, ShownTracksDrafts
  <2>2. PICK ok \in BOOLEAN :
          execs' = Append(execs, [plan |-> p, seen |-> c.body,
                                  ran |-> records[p].draft,
                                  known |-> registry, ok |-> ok])
    BY <1>2 DEF Approve
  <2> QED
    BY <2>1, <2>2 DEF TypeOK, ExecutedAsShown
<1> QED
  BY <1>1, <1>2, NextCases
     DEF Added, Mutated, ResetFailedApproval, PreflightFailure, Reject,
         ReloadRegistry, vars

(* What runs is what the user saw on the canvas that approved it, in every *)
(* session of the store whatever was edited, refused or retried.           *)
THEOREM ExecutionCorrect == Spec => []ExecutedAsShown
<1>1. Init => ShownTracksDrafts /\ ExecutedAsShown
  BY DEF Init, ShownTracksDrafts, ExecutedAsShown
<1> QED
  BY <1>1, ShownNext, ExecutedNext, TypeCorrect, PTL DEF Spec

-----------------------------------------------------------------------------
(* At most one successful execution.                                       *)

(* Strengthening: a plan that was executed successfully is approved.       *)
SuccessIsApproved ==
    \A i \in DOMAIN execs :
        execs[i].ok => records[execs[i].plan].status = "approved"

(* A success is followed by no other execution of its plan.                *)
LEMMA SuccessNext ==
    TypeOK /\ SuccessIsApproved /\ OneSuccessfulExecution /\ [Next]_vars
       => SuccessIsApproved' /\ OneSuccessfulExecution'
<1> SUFFICES ASSUME TypeOK, SuccessIsApproved, OneSuccessfulExecution,
                    [Next]_vars
             PROVE  SuccessIsApproved' /\ OneSuccessfulExecution'
  OBVIOUS
<1>1. /\ records \in [PlanIds -> Records]
      /\ \A i \in DOMAIN execs : execs[i].plan \in PlanIds
  <2>1. \A i \in DOMAIN execs : execs[i] \in Executions
    BY DEF TypeOK
  <2> QED
    BY <2>1 DEF TypeOK, Executions
<1>2. ASSUME execs' = execs,
             \A p \in PlanIds : records[p].status = "approved"
                                   => records'[p].status = "approved"
      PROVE  SuccessIsApproved' /\ OneSuccessfulExecution'
  BY <1>1, <1>2 DEF SuccessIsApproved, OneSuccessfulExecution
<1>3. ASSUME NEW p \in PlanIds, Added(p)
      PROVE  SuccessIsApproved' /\ OneSuccessfulExecution'
  BY <1>1, <1>2, <1>3 DEF Added
<1>4. ASSUME NEW p \in PlanIds, Mutated(p)
      PROVE  SuccessIsApproved' /\ OneSuccessfulExecution'
  BY <1>1, <1>2, <1>4 DEF Mutated
<1>5. ASSUME NEW p \in PlanIds, ResetFailedApproval(p)
      PROVE  SuccessIsApproved' /\ OneSuccessfulExecution'
  BY <1>1, <1>2, <1>5 DEF ResetFailedApproval, ResetRecord
<1>6. ASSUME NEW p \in PlanIds, NEW c \in shown, Approve(p, c)
      PROVE  SuccessIsApproved' /\ OneSuccessfulExecution'
  <2>1. PICK ok \in BOOLEAN :
          /\ records' = [records EXCEPT ![p] =
                Frozen(@, IF ok THEN "approved" ELSE "approved_execution_failed")]
          /\ execs' = Append(execs, [plan |-> p, seen |-> c.body,
                                     ran |-> records[p].draft,
                                     known |-> registry, ok |-> ok])
    BY <1>6 DEF Approve
  <2>2. /\ DOMAIN execs = 1..Len(execs) /\ Len(execs) \in Nat
        /\ DOMAIN execs' = 1..(Len(execs) + 1)
        /\ \A i \in DOMAIN execs : execs'[i] = execs[i]
        /\ execs'[Len(execs) + 1].plan = p
        /\ execs'[Len(execs) + 1].ok = ok
    BY <2>1 DEF TypeOK
  <2>3. \A i \in DOMAIN execs : execs[i].ok => execs[i].plan # p
    BY <1>6 DEF Approve, MayApprove, SuccessIsApproved
  <2>4. /\ ok => records'[p].status = "approved"
        /\ \A q \in PlanIds : q # p => records'[q] = records[q]
    BY <1>1, <2>1 DEF Frozen, Records
  <2>5. SuccessIsApproved'
    BY <1>1, <2>2, <2>3, <2>4 DEF SuccessIsApproved
  <2>6. OneSuccessfulExecution'
    BY <2>2, <2>3 DEF OneSuccessfulExecution
  <2> QED
    BY <2>5, <2>6
<1>7. ASSUME NEW p \in PlanIds, NEW c \in shown, PreflightFailure(p, c)
      PROVE  SuccessIsApproved' /\ OneSuccessfulExecution'
  BY <1>1, <1>2, <1>7 DEF PreflightFailure, MayApprove
<1>8. ASSUME NEW p \in PlanIds, NEW c \in shown, Reject(p, c)
      PROVE  SuccessIsApproved' /\ OneSuccessfulExecution'
  BY <1>1, <1>2, <1>8 DEF Reject
<1>9. CASE ReloadRegistry \/ UNCHANGED vars
  BY <1>2, <1>9 DEF ReloadRegistry, vars
<1> QED
  BY <1>3, <1>4, <1>5, <1>6, <1>7, <1>8, <1>9, NextCases

(* No plan is executed successfully twice.                                 *)
THEOREM ExecutedOnce == Spec => []OneSuccessfulExecution
<1>1. Init => SuccessIsApproved /\ OneSuccessfulExecution
  BY DEF Init, SuccessIsApproved, OneSuccessfulExecution
<1> QED
  BY <1>1, SuccessNext, TypeCorrect, PTL DEF Spec
-----------------------------------------------------------------------------
(* Finality of decisions.                                                  *)

(* One step of the store leaves a decided record alone, or takes a failed  *)
(* execution back to its draft.                                            *)
LEMMA DecidedStep ==
    ASSUME TypeOK, Next, NEW p \in PlanIds, records[p].status \in Final
    PROVE  /\ records'[p].draft = records[p].draft
           /\ \/ records'[p] = records[p]
              \/ /\ records[p].status = "approved_execution_failed"
                 /\ records'[p].status = "draft"
<1> USE DEF Final, Approved
<1>1. records \in [PlanIds -> Records]
  BY DEF TypeOK
<1>2. ASSUME NEW q \in PlanIds, NEW rec, records' = [records EXCEPT ![q] = rec],
             records[q].status \in {"none", "draft"}
      PROVE  records'[p] = records[p]
  BY <1>1, <1>2
<1>3. ASSUME NEW q \in PlanIds, Added(q)
      PROVE  records'[p] = records[p]
  BY <1>2, <1>3 DEF Added
<1>4. ASSUME NEW q \in PlanIds, Mutated(q)
      PROVE  records'[p] = records[p]
  <2>1. PICK next : records' = [records EXCEPT ![q] = [@ EXCEPT !.draft = next]]
    BY <1>4 DEF Mutated
  <2> QED
    BY <1>2, <1>4, <2>1 DEF Mutated
<1>5. ASSUME NEW q \in PlanIds, ResetFailedApproval(q)
      PROVE  /\ records'[p].draft = records[p].draft
             /\ \/ records'[p] = records[p]
                \/ /\ records[p].status = "approved_execution_failed"
                   /\ records'[p].status = "draft"
  BY <1>1, <1>5 DEF ResetFailedApproval, ResetRecord, Records
<1>6. ASSUME NEW q \in PlanIds, NEW c \in shown, Approve(q, c)
      PROVE  records'[p] = records[p]
  BY <1>2, <1>6 DEF Approve, MayApprove
<1>7. ASSUME NEW q \in PlanIds, NEW c \in shown, PreflightFailure(q, c)
      PROVE  records'[p] = records[p]
  BY <1>2, <1>7 DEF PreflightFailure, MayApprove
<1>8. ASSUME NEW q \in PlanIds, NEW c \in shown, Reject(q, c)
      PROVE  records'[p] = records[p]
  <2>1. records' = [records EXCEPT ![q] = [@ EXCEPT !.status = "rejected"]]
    BY <1>8 DEF Reject
  <2> QED
    BY <1>2, <1>8, <2>1 DEF Reject
<1>9. CASE ReloadRegistry
  BY <1>9 DEF ReloadRegistry
<1> QED
  BY <1>3, <1>4, <1>5, <1>6, <1>7, <1>8, <1>9, NextCases

(* A decided plan is never edited or decided again; only a failed          *)
(* execution returns, and to the same draft.                               *)
THEOREM DecisionsFinal == Spec => DecisionsAreFinal
<1>1. ASSUME TypeOK, [Next]_vars
      PROVE  [\A p \in PlanIds :
                 records[p].status \in Final =>
                    /\ records'[p].draft = records[p].draft
                    /\ \/ records'[p] = records[p]
                       \/ /\ records[p].status = "approved_execution_failed"
                          /\ records'[p].status = "draft"]_vars
  BY <1>1, DecidedStep
<1> QED
  BY <1>1, TypeCorrect, PTL DEF Spec, DecisionsAreFinal

-----------------------------------------------------------------------------
(* Refinement of the abstract lifecycle.                                   *)

(* A store without plans is an abstract state without plans.               *)
LEMMA LifecycleInit == Init => Lifecycle!LInit
BY DEF Init, Lifecycle!LInit, NoRecord, NoPlan

(* The abstract state of a store (the substitution of Lifecycle).          *)
LifeStatus  == [p \in PlanIds |-> records[p].status]
LifeVersion == [p \in PlanIds |-> records[p].draft.version]
LifeBound   == [p \in PlanIds |-> records[p].approvedVersion]

(* The abstract steps, in terms of the abstract state of the store.        *)
LEMMA LifecycleSteps ==
    ASSUME NEW p
    PROVE  /\ Lifecycle!LDraft(p) <=> /\ LifeStatus[p] = "none"
                                      /\ LifeStatus' = [LifeStatus EXCEPT ![p] = "draft"]
                                      /\ LifeVersion'[p] \in Nat \ {0}
                                      /\ LifeVersion' = [LifeVersion EXCEPT
                                                            ![p] = LifeVersion'[p]]
                                      /\ LifeBound' = LifeBound
           /\ Lifecycle!LEdit(p) <=> /\ LifeStatus[p] = "draft"
                                     /\ LifeVersion' = [LifeVersion EXCEPT ![p] = @ + 1]
                                     /\ LifeStatus' = LifeStatus
                                     /\ LifeBound' = LifeBound
           /\ Lifecycle!LApprove(p) <=>
                 /\ LifeStatus[p] = "draft"
                 /\ \E s \in {"approved", "approved_execution_failed"} :
                       LifeStatus' = [LifeStatus EXCEPT ![p] = s]
                 /\ LifeBound' = [LifeBound EXCEPT ![p] = LifeVersion[p]]
                 /\ LifeVersion' = LifeVersion
           /\ Lifecycle!LReject(p) <=> /\ LifeStatus[p] = "draft"
                                       /\ LifeStatus' = [LifeStatus EXCEPT ![p] = "rejected"]
                                       /\ LifeVersion' = LifeVersion
                                       /\ LifeBound' = LifeBound
           /\ Lifecycle!LReset(p) <=>
                 /\ LifeStatus[p] = "approved_execution_failed"
                 /\ LifeStatus' = [LifeStatus EXCEPT ![p] = "draft"]
                 /\ LifeBound' = [LifeBound EXCEPT ![p] = 0]
                 /\ LifeVersion' = LifeVersion
BY Zenon DEF Lifecycle!LDraft, Lifecycle!LEdit, Lifecycle!LApprove,
             Lifecycle!LReject, Lifecycle!LReset,
             LifeStatus, LifeVersion, LifeBound

(* Which abstract step a change of one record is, from its old and new     *)
(* value.                                                                  *)
LEMMA RecordSteps ==
    ASSUME TypeOK, NEW p \in PlanIds, NEW rec \in Records,
           records' = [records EXCEPT ![p] = rec]
    PROVE  LET old  == records[p]
               same == rec.draft.version = old.draft.version
               free == rec.approvedVersion = old.approvedVersion
           IN  /\ /\ old.status = "none" /\ rec.status = "draft"
                  /\ rec.draft.version \in Nat \ {0} /\ free
                  => Lifecycle!LDraft(p)
               /\ /\ old.status = "draft" /\ rec.status = "draft"
                  /\ rec.draft.version = old.draft.version + 1 /\ free
                  => Lifecycle!LEdit(p)
               /\ /\ old.status = "draft" /\ rec.status \in Approved
                  /\ same /\ rec.approvedVersion = old.draft.version
                  => Lifecycle!LApprove(p)
               /\ /\ old.status = "draft" /\ rec.status = "rejected"
                  /\ same /\ free
                  => Lifecycle!LReject(p)
               /\ /\ old.status = "approved_execution_failed"
                  /\ rec.status = "draft"
                  /\ same /\ rec.approvedVersion = 0
                  => Lifecycle!LReset(p)
<1> DEFINE old == records[p]
<1>1. /\ LifeStatus[p] = old.status
      /\ LifeVersion[p] = old.draft.version
      /\ LifeStatus' = [LifeStatus EXCEPT ![p] = rec.status]
      /\ LifeVersion'[p] = rec.draft.version
      /\ LifeVersion' = [LifeVersion EXCEPT ![p] = rec.draft.version]
      /\ rec.draft.version = old.draft.version => LifeVersion' = LifeVersion
      /\ LifeBound' = [LifeBound EXCEPT ![p] = rec.approvedVersion]
      /\ rec.approvedVersion = old.approvedVersion => LifeBound' = LifeBound
  BY DEF TypeOK, LifeStatus, LifeVersion, LifeBound
<1>2. rec.status = old.status => LifeStatus' = LifeStatus
  BY DEF TypeOK, LifeStatus
<1> HIDE DEF old
<1>3. ASSUME old.status = "none", rec.status = "draft",
             rec.draft.version \in Nat \ {0},
             rec.approvedVersion = old.approvedVersion
      PROVE  Lifecycle!LDraft(p)
  BY <1>1, <1>3, LifecycleSteps, Zenon
<1>4. ASSUME old.status = "draft", rec.status = "draft",
             rec.draft.version = old.draft.version + 1,
             rec.approvedVersion = old.approvedVersion
      PROVE  Lifecycle!LEdit(p)
  BY <1>1, <1>2, <1>4, LifecycleSteps, Zenon
<1>5. ASSUME old.status = "draft", rec.status \in Approved,
             rec.draft.version = old.draft.version,
             rec.approvedVersion = old.draft.version
      PROVE  Lifecycle!LApprove(p)
  BY <1>1, <1>5, LifecycleSteps, Zenon DEF Approved
<1>6. ASSUME old.status = "draft", rec.status = "rejected",
             rec.draft.version = old.draft.version,
             rec.approvedVersion = old.approvedVersion
      PROVE  Lifecycle!LReject(p)
  BY <1>1, <1>6, LifecycleSteps, Zenon
<1>7. ASSUME old.status = "approved_execution_failed", rec.status = "draft",
             rec.draft.version = old.draft.version, rec.approvedVersion = 0
      PROVE  Lifecycle!LReset(p)
  BY <1>1, <1>7, LifecycleSteps, Zenon
<1> QED
  BY <1>3, <1>4, <1>5, <1>6, <1>7 DEF old

(* Every operation of the store is a step of the abstract life of its plan *)
(* or changes nothing that it shows.                                       *)
LEMMA LifecycleNext ==
    ASSUME TypeOK, FrozenPlanIsDraft, [Next]_vars
    PROVE  [Lifecycle!LNext]_(Lifecycle!lvars)
<1>1. records \in [PlanIds -> Records]
  BY DEF TypeOK
<1>2. CASE UNCHANGED records
  BY <1>2 DEF Lifecycle!lvars
<1>3. ASSUME NEW p \in PlanIds, Added(p)
      PROVE  Lifecycle!LDraft(p)
  <2>1. PICK d \in NewDrafts : records' = [records EXCEPT ![p] = DraftRecord(d)]
    BY <1>3 DEF Added
  <2>2. /\ d \in Plans /\ d.version \in Nat \ {0}
        /\ DraftRecord(d) \in Records
        /\ DraftRecord(d).status = "draft"
        /\ DraftRecord(d).draft = d
        /\ DraftRecord(d).approvedVersion = 0
    <3>1. d \in Plans /\ d.version > 0
      BY StoreAssumption
    <3>2. d.version \in Nat \ {0}
      BY <3>1 DEF Plans
    <3> QED
      BY <3>1, <3>2, DraftRecordType DEF DraftRecord, NoRecord
  <2>3. records[p].status = "none" /\ records[p].approvedVersion = 0
    BY <1>3 DEF Added, FrozenPlanIsDraft, Approved
  <2> QED
    BY <2>1, <2>2, <2>3, RecordSteps
<1>4. ASSUME NEW p \in PlanIds, Mutated(p)
      PROVE  Lifecycle!LEdit(p)
  <2>1. PICK next \in Plans :
          /\ next.version = records[p].draft.version + 1
          /\ records' = [records EXCEPT ![p] = [@ EXCEPT !.draft = next]]
    BY <1>4 DEF Mutated
  <2> DEFINE rec == [records[p] EXCEPT !.draft = next]
  <2>2. /\ rec \in Records
        /\ rec.status = records[p].status
        /\ rec.draft.version = records[p].draft.version + 1
        /\ rec.approvedVersion = records[p].approvedVersion
    BY <1>1, <2>1 DEF Records
  <2>3. records' = [records EXCEPT ![p] = rec]
    BY <2>1
  <2> HIDE DEF rec
  <2> QED
    BY <1>4, <2>2, <2>3, RecordSteps DEF Mutated
<1>5. ASSUME NEW p \in PlanIds, NEW status \in Approved,
             records[p].status = "draft",
             records' = [records EXCEPT ![p] = Frozen(@, status)]
      PROVE  Lifecycle!LApprove(p)
  <2>1. /\ Frozen(records[p], status) \in Records
        /\ Frozen(records[p], status).status = status
        /\ Frozen(records[p], status).draft.version = records[p].draft.version
        /\ Frozen(records[p], status).approvedVersion = records[p].draft.version
    BY <1>1, FrozenType DEF Frozen, Records
  <2> QED
    BY <1>5, <2>1, RecordSteps
<1>6. ASSUME NEW p \in PlanIds, NEW c \in shown, Approve(p, c)
      PROVE  Lifecycle!LApprove(p)
  BY <1>5, <1>6 DEF Approve, MayApprove, Approved
<1>7. ASSUME NEW p \in PlanIds, NEW c \in shown, PreflightFailure(p, c)
      PROVE  Lifecycle!LApprove(p)
  BY <1>5, <1>7 DEF PreflightFailure, MayApprove, Approved
<1>8. ASSUME NEW p \in PlanIds, NEW c \in shown, Reject(p, c)
      PROVE  Lifecycle!LReject(p)
  <2> DEFINE rec == [records[p] EXCEPT !.status = "rejected"]
  <2>1. records' = [records EXCEPT ![p] = rec]
    BY <1>8 DEF Reject
  <2>2. /\ rec \in Records
        /\ rec.status = "rejected"
        /\ rec.draft.version = records[p].draft.version
        /\ rec.approvedVersion = records[p].approvedVersion
    BY <1>1 DEF Records, Statuses
  <2> HIDE DEF rec
  <2> QED
    BY <1>8, <2>1, <2>2, RecordSteps DEF Reject
<1>9. ASSUME NEW p \in PlanIds, ResetFailedApproval(p)
      PROVE  Lifecycle!LReset(p) \/ UNCHANGED records
  <2>1. CASE records[p].status = "approved_execution_failed"
    <3>1. /\ ResetRecord(records[p]) \in Records
          /\ ResetRecord(records[p]).status = "draft"
          /\ ResetRecord(records[p]).draft.version = records[p].draft.version
          /\ ResetRecord(records[p]).approvedVersion = 0
      BY <1>1, <2>1, ResetRecordType DEF ResetRecord, Records
    <3> QED
      BY <1>9, <2>1, <3>1, RecordSteps
         DEF ResetFailedApproval
  <2>2. CASE records[p].status # "approved_execution_failed"
    BY <1>1, <1>9, <2>2 DEF ResetFailedApproval, ResetRecord
  <2> QED
    BY <2>1, <2>2
<1>10. CASE ReloadRegistry
  BY <1>2, <1>10 DEF ReloadRegistry
<1> QED
  BY <1>2, <1>3, <1>4, <1>6, <1>7, <1>8, <1>9, <1>10, NextCases
     DEF Lifecycle!LNext, vars

(* The store implements the abstract life of a plan: drafted once, version *)
(* growing only as a draft, approval bound to its version, decisions       *)
(* final.                                                                  *)
THEOREM StoreImplementsLifecycle == Spec => ImplementsLifecycle
BY LifecycleInit, LifecycleNext, TypeCorrect, FrozenCopyCorrect, PTL
   DEF Spec, ImplementsLifecycle, Lifecycle!LSpec

-----------------------------------------------------------------------------
(* What one edit keeps.                                                    *)

(* The conditional reviews of a step list are in another one.              *)
ReviewsKept(old, new) ==
    \A i \in DOMAIN old :
       IsConditionalReview(old[i]) =>
          \E j \in DOMAIN new : /\ new[j].id = old[i].id
                               /\ new[j].deps = old[i].deps
                               /\ IsConditionalReview(new[j])

StepsKept(old, new) ==
    /\ KeepsPrecedence(old, new)
    /\ ReviewsKept(old, new)
    /\ SynthesisCovers(old) => SynthesisCovers(new)

(* The synthesis of all steps stays one when it stays last.                *)
LEMMA CoverageStays ==
    ASSUME NEW old \in Seq(Steps), NEW new \in Seq(Steps),
           old # <<>>, new # <<>>,
           KeepsPrecedence(old, new), Ids(new) \subseteq Ids(old),
           new[Len(new)].id = old[Len(old)].id,
           SynthesisIsFinal(new), SynthesisCovers(old)
    PROVE  SynthesisCovers(new)
<1>1. Len(new) \in DOMAIN new /\ Len(old) \in DOMAIN old
  OBVIOUS
<1>2. HasSynthesis(new)
  BY <1>1 DEF SynthesisIsFinal, HasSynthesis, AgentsOf
<1>3. ASSUME NEW a \in Ids(new)
      PROVE  Precedes(new, a, new[Len(new)].id)
  <2>1. new[Len(new)].id \in Ids(new)
    BY <1>1 DEF Ids
  <2>2. Precedes(old, a, old[Len(old)].id)
    BY DEF SynthesisCovers
  <2> QED
    BY <2>1, <2>2 DEF KeepsPrecedence
<1> QED
  BY <1>2, <1>3 DEF SynthesisCovers

(* Edits that leave every step in its place with its id and dependencies:  *)
(* the empty edit, a replaced agent, an added instruction.                 *)
LEMMA InPlaceKeeps ==
    ASSUME NEW old \in Seq(Steps), NEW new \in Seq(Steps),
           DOMAIN new = DOMAIN old, WellFormed(old), WellFormed(new),
           HasSynthesis(old) => SynthesisIsFinal(new),
           \A k \in DOMAIN old :
              /\ new[k].id = old[k].id
              /\ new[k].deps = old[k].deps
              /\ IsConditionalReview(old[k]) => IsConditionalReview(new[k])
    PROVE  StepsKept(old, new)
<1>1. /\ UniqueIds(old) /\ UniqueIds(new)
      /\ old # <<>> /\ new # <<>>
  BY DEF WellFormed
<1>2. Within(old, new) /\ Within(new, old)
  BY DEF Within
<1>3. Ids(old) = Ids(new) /\ KeepsPrecedence(old, new)
  BY <1>1, <1>2, SameGraphSamePrecedence
<1>4. ReviewsKept(old, new)
  BY DEF ReviewsKept
<1>5. Len(new) = Len(old) /\ Len(old) \in DOMAIN old
  BY <1>1
<1>6. ASSUME SynthesisCovers(old) PROVE SynthesisCovers(new)
  BY <1>1, <1>3, <1>5, <1>6, CoverageStays DEF SynthesisCovers
<1> QED
  BY <1>3, <1>4, <1>6 DEF StepsKept

(* A reordering has every step of the plan in it, for an injection of the  *)
(* positions into themselves is onto.                                      *)
LEMMA ReorderingKeeps ==
    ASSUME NEW plan \in Plans, NEW order \in Orders(plan),
           WellFormed(plan.steps), WellFormed(ReorderSteps(plan, order).steps),
           HasSynthesis(plan.steps) => SynthesisIsFinal(ReorderSteps(plan, order).steps)
    PROVE  StepsKept(plan.steps, ReorderSteps(plan, order).steps)
<1> DEFINE old == plan.steps
           new == ReorderSteps(plan, order).steps
<1>1. /\ old \in Seq(Steps) /\ new \in Seq(Steps)
      /\ UniqueIds(old) /\ UniqueIds(new) /\ old # <<>> /\ new # <<>>
  BY ReorderStepsType DEF Plans, WellFormed
<1>2. /\ DOMAIN new = DOMAIN old
      /\ \A k \in DOMAIN old : order[k] \in DOMAIN old /\ new[k] = old[order[k]]
  BY DEF ReorderSteps, Orders, Plans
<1>3. \A i \in DOMAIN old : \E k \in DOMAIN old : order[k] = i
  <2>1. order \in Injection(DOMAIN old, DOMAIN old)
    BY DEF Injection, IsInjective, Orders
  <2>2. IsFiniteSet(1..Len(old)) /\ DOMAIN old = 1..Len(old)
    BY <1>1, FS_Interval
  <2>3. order \in Surjection(DOMAIN old, DOMAIN old)
    BY <2>1, <2>2, FS_Injection
  <2> QED
    BY <2>3 DEF Surjection
<1> HIDE DEF old, new
<1>4. Within(old, new) /\ Within(new, old)
  BY <1>2, <1>3 DEF Within
<1>5. Ids(old) = Ids(new) /\ KeepsPrecedence(old, new)
  BY <1>1, <1>4, SameGraphSamePrecedence
<1>6. ReviewsKept(old, new)
  BY <1>2, <1>3 DEF ReviewsKept
<1>7. ASSUME SynthesisCovers(old) PROVE SynthesisCovers(new)
  <2>1. SynthesisIsFinal(old) /\ SynthesisIsFinal(new)
    BY <1>7 DEF SynthesisCovers, old, new
  <2>2. Len(new) \in DOMAIN new
    BY <1>1
  <2>3. old[order[Len(new)]].agent = Synthesis
    BY <1>2, <2>1, <2>2 DEF SynthesisIsFinal
  <2>4. order[Len(new)] = Len(old)
    BY <1>2, <2>1, <2>2, <2>3 DEF SynthesisIsFinal
  <2>5. new[Len(new)].id = old[Len(old)].id
    BY <1>2, <2>2, <2>4
  <2> QED
    BY <1>1, <1>5, <1>7, <2>1, <2>5, CoverageStays
<1> QED
  BY <1>5, <1>6, <1>7 DEF StepsKept, old, new

(* A removal that the store accepts takes neither a conditional review nor *)
(* the step it depends on, nor the synthesis.                              *)
LEMMA RemovalKeeps ==
    ASSUME NEW steps \in Seq(Steps), NEW i \in DOMAIN steps,
           WellFormed(steps), WellFormed(WithoutStep(steps, i)), Removable(steps, i),
           HasSynthesis(steps) => SynthesisIsFinal(WithoutStep(steps, i))
    PROVE  StepsKept(steps, WithoutStep(steps, i))
<1> DEFINE left == WithoutStep(steps, i)
           gone == steps[i]
<1>1. UniqueIds(steps) /\ left # <<>> /\ steps # <<>>
  BY DEF WellFormed
<1>2. /\ left \in Seq(Steps)
      /\ Len(left) = Len(steps) - 1
      /\ DOMAIN left = 1..(Len(steps) - 1)
      /\ \A k \in DOMAIN steps : steps[k] \in Steps
  BY WithoutStepType
<1>3. /\ \A k \in DOMAIN steps \ {i} : \E j \in DOMAIN left :
            left[j] = Rewired(steps[k], gone)
      /\ Ids(left) = Ids(steps) \ {gone.id}
  BY <1>1, LeftSteps
<1>4. \A k \in DOMAIN steps :
         /\ Rewired(steps[k], gone).id = steps[k].id
         /\ Rewired(steps[k], gone).agent = steps[k].agent
         /\ Rewired(steps[k], gone).cond = steps[k].cond
         /\ gone.id \notin steps[k].deps => Rewired(steps[k], gone).deps = steps[k].deps
  BY <1>2 DEF Rewired, Steps
<1>5. KeepsPrecedence(steps, left)
  BY RemovalKeepsPrecedence
<1>6. ReviewsKept(steps, left)
  <2> SUFFICES ASSUME NEW k \in DOMAIN steps, IsConditionalReview(steps[k])
               PROVE  \E j \in DOMAIN left : /\ left[j].id = steps[k].id
                                             /\ left[j].deps = steps[k].deps
                                             /\ IsConditionalReview(left[j])
    BY DEF ReviewsKept
  <2>1. k # i
    BY DEF Removable
  <2>2. gone.id \notin steps[k].deps
    BY <2>1 DEF Removable, IsConditionalReview
  <2>3. PICK j \in DOMAIN left : left[j] = Rewired(steps[k], gone)
    BY <1>3, <2>1
  <2> QED
    BY <1>4, <2>2, <2>3 DEF IsConditionalReview
<1>7. ASSUME SynthesisCovers(steps) PROVE SynthesisCovers(left)
  <2>1. SynthesisIsFinal(steps) /\ SynthesisIsFinal(left)
    BY <1>7 DEF SynthesisCovers
  <2>2. Len(left) \in DOMAIN left
    BY <1>1, <1>2
  <2>3. PICK k \in DOMAIN steps \ {i} : left[Len(left)] = Rewired(steps[k], gone)
    BY <1>1, <2>2, LeftSteps
  <2>4. k = Len(steps)
    BY <1>4, <2>1, <2>2, <2>3 DEF SynthesisIsFinal
  <2>5. left[Len(left)].id = steps[Len(steps)].id
    BY <1>4, <2>3, <2>4
  <2> QED
    BY <1>1, <1>2, <1>3, <1>5, <1>7, <2>1, <2>5, CoverageStays
<1> QED
  BY <1>5, <1>6, <1>7 DEF StepsKept

-----------------------------------------------------------------------------
(* The store.                                                              *)

(* A record without a plan has no steps, and every other one a valid plan. *)
DraftsValid ==
    \A p \in PlanIds : IF records[p].status = "none"
                         THEN records[p].draft = NoPlan
                         ELSE WellFormed(records[p].draft.steps)

(* What an edit of the store does.                                         *)
KeptByEdit(p) ==
    \E next \in Plans :
       /\ records' = [records EXCEPT ![p].draft = next]
       /\ records[p].status = "draft"
       /\ WellFormed(next.steps)
       /\ StepsKept(records[p].draft.steps, next.steps)

(* An edit the store accepts is one of the four above; what they need to   *)
(* keep the review and the synthesis is what the store has checked.        *)
LEMMA EditsKeep ==
    ASSUME TypeOK, DraftsValid, NEW p \in PlanIds, NEW c \in shown,
           \/ EditPlan(p, c) \/ RemovePlanStep(p, c) \/ Reorder(p, c)
           \/ ChooseAgent(p, c) \/ Instruct(p, c)
    PROVE  KeptByEdit(p)
<1> DEFINE plan == records[p].draft
<1>1. /\ plan \in Plans /\ plan.steps \in Seq(Steps)
      /\ registry \in SUBSET Agents
  BY DEF TypeOK, Records, Plans
<1>2. ASSUME NEW kind, NEW candidates, Mutate(p, c, kind, candidates),
             \A edited \in candidates :
                /\ edited \in Plans
                /\ WellFormed(edited.steps)
                   /\ (HasSynthesis(plan.steps) => SynthesisIsFinal(edited.steps))
                   => StepsKept(plan.steps, edited.steps)
      PROVE  KeptByEdit(p)
  <2>1. PICK edited \in candidates :
          /\ Acceptable(plan, NextVersion(edited))
          /\ records' = [records EXCEPT ![p].draft = NextVersion(edited)]
    BY <1>2 DEF Mutate
  <2>2. NextVersion(edited) \in Plans /\ NextVersion(edited).steps = edited.steps
    BY <1>2, NextVersionType DEF NextVersion, Plans
  <2>3. /\ WellFormed(edited.steps)
        /\ HasSynthesis(plan.steps) => SynthesisIsFinal(edited.steps)
    BY <2>1, <2>2 DEF Acceptable, KeepsFinalSynthesis
  <2> QED
    BY <1>2, <2>1, <2>2, <2>3 DEF KeptByEdit, Mutate
<1>3. ASSUME records[p].status = "draft" PROVE WellFormed(plan.steps)
  BY <1>3 DEF DraftsValid
<1> HIDE DEF plan
<1>4. CASE EditPlan(p, c)
  <2>1. records[p].status = "draft" /\ Mutate(p, c, "edit", {plan})
    BY <1>4 DEF EditPlan, Mutate, plan
  <2>2. WellFormed(plan.steps) /\ (HasSynthesis(plan.steps) => SynthesisIsFinal(plan.steps))
        => StepsKept(plan.steps, plan.steps)
    BY <1>1, InPlaceKeeps
  <2> QED
    BY <1>1, <1>2, <2>1, <2>2
<1>5. CASE RemovePlanStep(p, c)
  <2>1. records[p].status = "draft" /\ Mutate(p, c, "remove", Removals(plan))
    BY <1>5 DEF RemovePlanStep, Mutate, plan
  <2>2. ASSUME NEW i \in DOMAIN plan.steps, CanRemove(plan, i)
        PROVE  /\ RemoveStep(plan, i) \in Plans
               /\ WellFormed(RemoveStep(plan, i).steps)
                  /\ (HasSynthesis(plan.steps) => SynthesisIsFinal(RemoveStep(plan, i).steps))
                  => StepsKept(plan.steps, RemoveStep(plan, i).steps)
    <3>1. RemoveStep(plan, i) \in Plans /\ RemoveStep(plan, i).steps = WithoutStep(plan.steps, i)
      BY <1>1, RemoveStepType DEF RemoveStep, Plans
    <3> QED
      BY <1>1, <1>3, <2>1, <2>2, <3>1, RemovalKeeps DEF CanRemove
  <2> QED
    BY <1>2, <2>1, <2>2 DEF Removals
<1>6. CASE Reorder(p, c)
  <2>1. records[p].status = "draft" /\ Mutate(p, c, "reorder", Reorderings(plan))
    BY <1>6 DEF Reorder, Mutate, plan
  <2>2. ASSUME NEW order \in Orders(plan)
        PROVE  /\ ReorderSteps(plan, order) \in Plans
               /\ WellFormed(ReorderSteps(plan, order).steps)
                  /\ (HasSynthesis(plan.steps)
                         => SynthesisIsFinal(ReorderSteps(plan, order).steps))
                  => StepsKept(plan.steps, ReorderSteps(plan, order).steps)
    BY <1>1, <1>3, <2>1, ReorderStepsType, ReorderingKeeps
  <2> QED
    BY <1>2, <2>1, <2>2 DEF Reorderings
<1>7. CASE ChooseAgent(p, c)
  <2>1. records[p].status = "draft" /\ Mutate(p, c, "replace", Replacements(plan))
    BY <1>7 DEF ChooseAgent, Mutate, plan
  <2>2. ASSUME NEW i \in DOMAIN plan.steps, NEW agent \in registry,
               CanReplace(plan, i, agent)
        PROVE  /\ ReplaceAgent(plan, i, agent) \in Plans
               /\ WellFormed(ReplaceAgent(plan, i, agent).steps)
                  /\ (HasSynthesis(plan.steps)
                         => SynthesisIsFinal(ReplaceAgent(plan, i, agent).steps))
                  => StepsKept(plan.steps, ReplaceAgent(plan, i, agent).steps)
    <3> DEFINE new == [plan.steps EXCEPT ![i].agent = agent, ![i].added = <<>>]
    <3>1. /\ ReplaceAgent(plan, i, agent) \in Plans
          /\ ReplaceAgent(plan, i, agent).steps = new
          /\ new \in Seq(Steps)
      <4>1. plan \in Plans /\ agent \in Agents
        BY <1>1
      <4>2. ReplaceAgent(plan, i, agent) \in Plans
        BY <4>1, ReplaceAgentType
      <4>3. ReplaceAgent(plan, i, agent).steps = new
        BY <4>1 DEF ReplaceAgent, Plans
      <4> HIDE DEF new
      <4>4. ReplaceAgent(plan, i, agent).steps \in Seq(Steps)
        BY <4>2 DEF Plans
      <4> QED
        BY <4>2, <4>3, <4>4
    <3>2. /\ DOMAIN new = DOMAIN plan.steps
          /\ \A k \in DOMAIN plan.steps :
                /\ new[k].id = plan.steps[k].id
                /\ new[k].deps = plan.steps[k].deps
                /\ IsConditionalReview(plan.steps[k]) => IsConditionalReview(new[k])
      BY <1>1, <2>2 DEF CanReplace, Steps, IsConditionalReview
    <3> HIDE DEF new
    <3> QED
      BY <1>1, <1>3, <2>1, <3>1, <3>2, InPlaceKeeps
  <2> QED
    BY <1>1, <1>2, <2>1, <2>2 DEF Replacements
<1>8. CASE Instruct(p, c)
  <2>1. records[p].status = "draft" /\ Mutate(p, c, "instruct", Instructed(plan))
    BY <1>8 DEF Instruct, Mutate, plan
  <2>2. ASSUME NEW i \in DOMAIN plan.steps, NEW text \in Texts
        PROVE  /\ AddInstruction(plan, i, text) \in Plans
               /\ WellFormed(AddInstruction(plan, i, text).steps)
                  /\ (HasSynthesis(plan.steps)
                         => SynthesisIsFinal(AddInstruction(plan, i, text).steps))
                  => StepsKept(plan.steps, AddInstruction(plan, i, text).steps)
    <3> DEFINE new == [plan.steps EXCEPT ![i].added = Append(@, text)]
    <3>1. /\ AddInstruction(plan, i, text) \in Plans
          /\ AddInstruction(plan, i, text).steps = new
          /\ new \in Seq(Steps)
      BY <1>1, AddInstructionType DEF AddInstruction, Plans
    <3>2. /\ DOMAIN new = DOMAIN plan.steps
          /\ \A k \in DOMAIN plan.steps :
                /\ new[k].id = plan.steps[k].id
                /\ new[k].deps = plan.steps[k].deps
                /\ IsConditionalReview(plan.steps[k]) => IsConditionalReview(new[k])
      BY <1>1 DEF Steps, IsConditionalReview
    <3> HIDE DEF new
    <3> QED
      BY <1>1, <1>3, <2>1, <3>1, <3>2, InPlaceKeeps
  <2> QED
    BY <1>2, <2>1, <2>2 DEF Instructed
<1> QED
  BY <1>4, <1>5, <1>6, <1>7, <1>8

(* Every other step of the store leaves a draft as it is, or gives one to  *)
(* a plan that had none.                                                   *)
LEMMA DraftSteps ==
    ASSUME TypeOK, DraftsValid, [Next]_vars, NEW p \in PlanIds
    PROVE  \/ /\ records'[p].draft = records[p].draft
              /\ records'[p].status = "none" <=> records[p].status = "none"
           \/ /\ records[p].draft = NoPlan
              /\ records'[p].status # "none"
              /\ WellFormed(records'[p].draft.steps)
           \/ /\ records'[p].status # "none"
              /\ WellFormed(records'[p].draft.steps)
              /\ StepsKept(records[p].draft.steps, records'[p].draft.steps)
<1>1. records \in [PlanIds -> Records]
  BY DEF TypeOK
<1>2. CASE UNCHANGED vars
  BY <1>2 DEF vars
<1>3. ASSUME NEW q \in PlanIds, AddDraft(q)
      PROVE  \/ records'[p] = records[p]
             \/ /\ records[p].draft = NoPlan
                /\ records'[p].status # "none"
                /\ WellFormed(records'[p].draft.steps)
  <2>1. PICK d \in NewDrafts : records' = [records EXCEPT ![q] = DraftRecord(d)]
    BY <1>3 DEF AddDraft
  <2>2. DraftRecord(d).status = "draft" /\ DraftRecord(d).draft = d
    BY DEF DraftRecord, NoRecord
  <2> QED
    BY <1>1, <1>3, <2>1, <2>2, StoreAssumption DEF AddDraft, DraftsValid
<1>4. ASSUME NEW q \in PlanIds, KeptByEdit(q)
      PROVE  \/ records'[p] = records[p]
             \/ /\ records'[p].status # "none"
                /\ WellFormed(records'[p].draft.steps)
                /\ StepsKept(records[p].draft.steps, records'[p].draft.steps)
  <2>1. PICK next \in Plans :
          /\ records' = [records EXCEPT ![q] = [@ EXCEPT !.draft = next]]
          /\ records[q].status = "draft"
          /\ WellFormed(next.steps)
          /\ StepsKept(records[q].draft.steps, next.steps)
    BY <1>4 DEF KeptByEdit
  <2>2. CASE p = q
    <3>1. /\ records'[p].draft = next
          /\ records'[p].status = "draft"
      BY <1>1, <2>1, <2>2 DEF Records
    <3> QED
      BY <2>1, <2>2, <3>1
  <2> QED
    BY <1>1, <2>1, <2>2
<1>5. ASSUME NEW q \in PlanIds, ResetFailedApproval(q)
      PROVE  /\ records'[p].draft = records[p].draft
             /\ records'[p].status = "none" <=> records[p].status = "none"
  BY <1>1, <1>5 DEF ResetFailedApproval, ResetRecord, Records
<1>6. ASSUME NEW q \in PlanIds, NEW c \in shown,
             Approve(q, c) \/ PreflightFailure(q, c)
      PROVE  /\ records'[p].draft = records[p].draft
             /\ records'[p].status = "none" <=> records[p].status = "none"
  <2>1. PICK status \in Approved : records' = [records EXCEPT ![q] = Frozen(@, status)]
    BY <1>6 DEF Approve, PreflightFailure, Approved
  <2>2. records[q].status = "draft"
    BY <1>6 DEF Approve, PreflightFailure, MayApprove
  <2> QED
    BY <1>1, <2>1, <2>2 DEF Frozen, Records, Approved
<1>7. ASSUME NEW q \in PlanIds, NEW c \in shown, Reject(q, c)
      PROVE  /\ records'[p].draft = records[p].draft
             /\ records'[p].status = "none" <=> records[p].status = "none"
  BY <1>1, <1>7 DEF Reject, Records
<1>8. CASE ReloadRegistry
  BY <1>8 DEF ReloadRegistry
<1> QED
  BY <1>2, <1>3, <1>4, <1>5, <1>6, <1>7, <1>8, EditsKeep DEF Next

(* Drafts are valid from the start and through every operation.            *)
LEMMA ValidInvariant == Spec => []DraftsValid
<1>1. Init => DraftsValid
  BY DEF Init, DraftsValid, NoRecord
<1>2. TypeOK /\ DraftsValid /\ [Next]_vars => DraftsValid'
  <2> SUFFICES ASSUME TypeOK, DraftsValid, [Next]_vars
               PROVE  DraftsValid'
    OBVIOUS
  <2>1. ASSUME NEW p \in PlanIds
        PROVE  IF records'[p].status = "none"
                 THEN records'[p].draft = NoPlan
                 ELSE WellFormed(records'[p].draft.steps)
    BY DraftSteps DEF DraftsValid
  <2> QED
    BY <2>1 DEF DraftsValid
<1> QED
  BY <1>1, <1>2, TypeCorrect, PTL DEF Spec

(* One step of the store keeps what an edit keeps, of every plan.          *)
LEMMA StepsKeep ==
    ASSUME TypeOK, DraftsValid, [Next]_vars, NEW p \in PlanIds
    PROVE  StepsKept(records[p].draft.steps, records'[p].draft.steps)
<1>1. ASSUME NEW steps PROVE StepsKept(steps, steps)
  BY DEF StepsKept, KeepsPrecedence, ReviewsKept
<1>2. ASSUME NEW steps PROVE StepsKept(NoPlan.steps, steps)
  BY DEF StepsKept, KeepsPrecedence, ReviewsKept, NoPlan, Ids,
         SynthesisCovers, HasSynthesis, AgentsOf
<1> QED
  BY <1>1, <1>2, DraftSteps

(* No edit of any plan changes the order of two steps that survive it      *)
(* (_rewired_dependencies).                                                *)
THEOREM PrecedenceKept == Spec => EditsKeepPrecedence
<1>1. ASSUME TypeOK, DraftsValid, [Next]_vars
      PROVE  [\A p \in PlanIds :
                 LET old == records[p].draft.steps
                     new == records'[p].draft.steps
                 IN  new # old =>
                        \A a, b \in Ids(old) \cap Ids(new) :
                           Precedes(old, a, b) <=> Precedes(new, a, b)]_vars
  BY <1>1, StepsKeep DEF StepsKept, KeepsPrecedence
<1> QED
  BY <1>1, TypeCorrect, ValidInvariant, PTL DEF Spec, EditsKeepPrecedence

(* No edit loses a conditional review or changes what its route is decided *)
(* on (_require_removal_preserves_conditional_sources).                    *)
THEOREM ReviewKept == Spec => ConditionalReviewKept
<1>1. ASSUME TypeOK, DraftsValid, [Next]_vars
      PROVE  [\A p \in PlanIds :
                 \A i \in DOMAIN records[p].draft.steps :
                    LET step == records[p].draft.steps[i]
                    IN  IsConditionalReview(step) =>
                           \E j \in DOMAIN records'[p].draft.steps :
                              LET kept == records'[p].draft.steps[j]
                              IN  /\ kept.id = step.id
                                  /\ kept.deps = step.deps
                                  /\ IsConditionalReview(kept)]_vars
  BY <1>1, StepsKeep DEF StepsKept, ReviewsKept
<1> QED
  BY <1>1, TypeCorrect, ValidInvariant, PTL DEF Spec, ConditionalReviewKept

(* A draft whose last step synthesises all the others stays so through     *)
(* every edit (_require_final_synthesis_preserved).                        *)
THEOREM CoverageKept == Spec => SynthesisKeepsCoverage
<1>1. ASSUME TypeOK, DraftsValid, [Next]_vars
      PROVE  [\A p \in PlanIds :
                 LET old == records[p].draft.steps
                     new == records'[p].draft.steps
                 IN  new # old /\ SynthesisCovers(old) => SynthesisCovers(new)]_vars
  BY <1>1, StepsKeep DEF StepsKept
<1> QED
  BY <1>1, TypeCorrect, ValidInvariant, PTL DEF Spec, SynthesisKeepsCoverage
=============================================================================
