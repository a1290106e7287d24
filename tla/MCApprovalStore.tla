-------------------------- MODULE MCApprovalStore --------------------------
(***************************************************************************)
(* A small instance of ApprovalStore: the plans the planner makes, and     *)
(* the hand-built conditional plan of the test suite.                      *)
(***************************************************************************)
EXTENDS ApprovalStore

Step(id, agent, deps, cond) ==
    [id |-> id, agent |-> agent, added |-> <<>>, deps |-> deps, cond |-> cond]

Plan(steps) == [version |-> 1, steps |-> steps, selected |-> AgentsOf(steps),
                immutable |-> TRUE]

(* Two specialists in parallel and the synthesis (planner._build_steps).   *)
Star == Plan(<<Step("s1", "credit", {}, "none"),
               Step("s2", "policy", {}, "none"),
               Step("s3", "synthesis", {"s1", "s2"}, "none")>>)

(* A primary step, a step that follows it, a conditional review of the     *)
(* primary, and the synthesis of all.                                      *)
Conditional ==
    Plan(<<Step("s1", "credit", {}, "none"),
           Step("s2", "policy", {"s1"}, "none"),
           Step("s3", "data_quality", {"s1"}, "missing_internal_data"),
           Step("s4", "synthesis", {"s1", "s2", "s3"}, "none")>>)

(* A chain, whose inner steps are rewired when one is removed.             *)
Chain == Plan(<<Step("s1", "credit", {}, "none"),
                Step("s2", "policy", {"s1"}, "none"),
                Step("s3", "credit", {"s2"}, "none"),
                Step("s4", "synthesis", {"s3"}, "none")>>)

(* A draft that may not be approved because it would stay editable.        *)
Mutable == [Star EXCEPT !.immutable = FALSE]

MCAgents      == {"credit", "policy", "data_quality", "synthesis"}
MCDrafts      == {Star, Conditional, Chain, Mutable}
MCKinds       == {"edit", "remove", "reorder", "replace", "instruct"}
TwoRegistries == {MCAgents, MCAgents \ {"policy"}}
=============================================================================
