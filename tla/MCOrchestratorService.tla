----------------------- MODULE MCOrchestratorService -----------------------
(* A small instance of OrchestratorService: two sessions' worth of plans.  *)
EXTENDS OrchestratorService

Step(id, agent, deps, cond) ==
    [id |-> id, agent |-> agent, added |-> <<>>, deps |-> deps, cond |-> cond]

Plan(steps) == [version |-> 1, steps |-> steps, selected |-> AgentsOf(steps),
                immutable |-> TRUE]

(* What the planner makes of one and of two requested specialists.         *)
Single == Plan(<<Step("s1", "credit", {}, "none")>>)
Star   == Plan(<<Step("s1", "credit", {}, "none"),
                 Step("s2", "policy", {}, "none"),
                 Step("s3", "synthesis", {"s1", "s2"}, "none")>>)

MCAgents      == {"credit", "policy", "data_quality", "synthesis"}
MCHandlers    == {"credit", "policy", "synthesis"}
MCDrafts      == {Single, Star}
MCKinds       == {"edit", "remove", "replace", "reorder", "instruct"}
TwoRegistries == {MCAgents, MCAgents \ {"policy"}}
=============================================================================
