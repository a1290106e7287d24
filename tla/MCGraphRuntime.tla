-------------------------- MODULE MCGraphRuntime --------------------------
(* Small instances of GraphRuntime: every dependency graph of four steps.  *)
EXTENDS GraphsAgree

MCStepIds == {"s1", "s2", "s3", "s4"}
MCAgents  == {"worker", "data_quality", "synthesis"}

Step(id, agent, deps) ==
    [id |-> id, agent |-> agent, added |-> <<>>, deps |-> deps, cond |-> "none"]

(* Three steps that may depend on earlier ones, and a final synthesis that *)
(* waits for at least one of them.                                         *)
AllWorkflows ==
    {<<Step("s1", a[1], {}), Step("s2", a[2], d2), Step("s3", a[3], d3),
       Step("s4", "synthesis", d4)>> :
        a \in [1..3 -> {"worker", "data_quality"}], d2 \in SUBSET {"s1"},
        d3 \in SUBSET {"s1", "s2"}, d4 \in SUBSET {"s1", "s2", "s3"} \ {{}}}

(* A step that depends on the review, beside the synthesis.                *)
Detour == <<Step("s1", "worker", {}), Step("s2", "data_quality", {"s1"}),
            Step("s3", "worker", {"s2"}), Step("s4", "synthesis", {"s2"})>>

DetourOnly == {Detour}

(* All agents can run, or the review agent has no handler.                 *)
MCHandlerSets  == {MCAgents, MCAgents \ {"data_quality"}}
AllHandlers    == {MCAgents}
===========================================================================
