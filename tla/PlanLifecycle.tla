--------------------------- MODULE PlanLifecycle ---------------------------
(***************************************************************************)
(* What the approval store promises about each plan, without plans: a plan *)
(* is drafted once, its version only grows while it is a draft, an         *)
(* approval binds the version it was given for, and a decision stays       *)
(* final.  The one way back is the reset of a failed execution, which      *)
(* returns to the draft of the same version.                               *)
(***************************************************************************)
EXTENDS Naturals

CONSTANT PlanIds

VARIABLES status,   \* plan id -> where the plan is in its life
          version,  \* plan id -> version of its draft, 0 before it exists
          bound     \* plan id -> version an approval is bound to, 0 if none

lvars == <<status, version, bound>>

Statuses == {"none", "draft", "approved", "approved_execution_failed",
             "rejected"}

LInit == /\ status  = [p \in PlanIds |-> "none"]
         /\ version = [p \in PlanIds |-> 0]
         /\ bound   = [p \in PlanIds |-> 0]

LDraft(p) == /\ status[p] = "none"
             /\ status' = [status EXCEPT ![p] = "draft"]
             /\ version'[p] \in Nat \ {0}
             /\ version' = [version EXCEPT ![p] = version'[p]]
             /\ UNCHANGED bound

LEdit(p) == /\ status[p] = "draft"
            /\ version' = [version EXCEPT ![p] = @ + 1]
            /\ UNCHANGED <<status, bound>>

LApprove(p) == /\ status[p] = "draft"
               /\ \E s \in {"approved", "approved_execution_failed"} :
                     status' = [status EXCEPT ![p] = s]
               /\ bound' = [bound EXCEPT ![p] = version[p]]
               /\ UNCHANGED version

LReject(p) == /\ status[p] = "draft"
              /\ status' = [status EXCEPT ![p] = "rejected"]
              /\ UNCHANGED <<version, bound>>

LReset(p) == /\ status[p] = "approved_execution_failed"
             /\ status' = [status EXCEPT ![p] = "draft"]
             /\ bound' = [bound EXCEPT ![p] = 0]
             /\ UNCHANGED version

LNext == \E p \in PlanIds : \/ LDraft(p) \/ LEdit(p) \/ LApprove(p)
                            \/ LReject(p) \/ LReset(p)

LSpec == LInit /\ [][LNext]_lvars
=============================================================================
