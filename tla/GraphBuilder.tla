---------------------------- MODULE GraphBuilder ----------------------------
(***************************************************************************)
(* The graph that orchestrator/graph_builder.py builds for an approved     *)
(* plan and hands to AdkWorkflowRuntimeFactory (orchestrator/              *)
(* graph_runtime.py): edges with routes, a join node for every set of      *)
(* edges that arrive together, and a gate where a route enters a join.     *)
(* It is a second construction beside the one of AdkGraphRuntime           *)
(* (PlanGraph), with other nodes and other rules.                          *)
(***************************************************************************)
EXTENDS PlanDraft

Unconditional == "none"
MissingData   == "missing_internal_data"
DefaultRoute  == "default"

Earliest(positions) == CHOOSE i \in positions : \A j \in positions : i <= j

ReviewsBefore(steps, syn) ==
    {i \in DOMAIN steps : /\ steps[i].agent = DataQuality
                          /\ steps[i].cond = MissingData
                          /\ Cardinality(steps[i].deps) = 1
                          /\ steps[i].id \in steps[syn].deps}

(* The first synthesis and the first review it waits for, if there are     *)
(* such: the review is one by its agent and its condition.                 *)
Branches(steps) ==
    LET first == Earliest({k \in DOMAIN steps : steps[k].agent = Synthesis})
        found == Earliest(ReviewsBefore(steps, first))
    IN  IF ~ HasSynthesis(steps) \/ ReviewsBefore(steps, first) = {} THEN {}
        ELSE {[source |-> s, review |-> steps[found].id, synthesis |-> steps[first].id] :
                 s \in steps[found].deps}

-----------------------------------------------------------------------------
(* Edges.  Of a step with a condition of its own the first dependency is   *)
(* conditional; the order of dependencies is not kept here, so one stands  *)
(* for the first.                                                          *)
Condition(steps, i, d) ==
    CASE \E b \in Branches(steps) : d = b.source /\ steps[i].id = b.review
             -> MissingData
      [] \E b \in Branches(steps) : d = b.source /\ steps[i].id = b.synthesis
             -> DefaultRoute
      [] OTHER -> IF d = CHOOSE f \in steps[i].deps : TRUE
                    THEN steps[i].cond ELSE Unconditional

GraphEdges(steps) ==
    (UNION {{[from |-> d, to |-> steps[i].id, cond |-> Condition(steps, i, d)] :
                d \in steps[i].deps} : i \in DOMAIN steps})
    \cup {[from |-> b.source, to |-> b.synthesis, cond |-> DefaultRoute] :
             b \in Branches(steps)}

EdgesInto(edges, t) == {e \in edges : e.to = t}

(* Mutant: an edge is conditional by its own condition only.               *)
OwnDecision(edges, e) ==
    IF e.cond = Unconditional THEN {} ELSE {[source |-> e.from, route |-> e.cond]}

(* The decision an edge hangs on: its own, or that of the one conditional  *)
(* edge into the step it comes from.                                       *)
Decision(edges, e) ==
    LET before == {f \in EdgesInto(edges, e.from) : f.cond # Unconditional}
    IN  IF e.cond # Unconditional THEN {[source |-> e.from, route |-> e.cond]}
        ELSE {[source |-> f.from, route |-> f.cond] :
                 f \in {g \in before : Cardinality(before) = 1}}

Optional(edges, t)  == {e \in EdgesInto(edges, t) : Decision(edges, e) # {}}
Mandatory(edges, t) == EdgesInto(edges, t) \ Optional(edges, t)
Decisions(edges, t) == UNION {Decision(edges, e) : e \in Optional(edges, t)}

HangingOn(edges, t, d) == {e \in Optional(edges, t) : d \in Decision(edges, e)}

NeedsJoin(edges, t) ==
    \/ Mandatory(edges, t) # {}
    \/ Cardinality({d.source : d \in Decisions(edges, t)}) > 1
    \/ \E d \in Decisions(edges, t) : Cardinality(HangingOn(edges, t, d)) > 1

(* One route of every deciding step.                                       *)
Combinations(edges, t) ==
    {D \in SUBSET Decisions(edges, t) :
        /\ {d.source : d \in D} = {d.source : d \in Decisions(edges, t)}
        /\ \A d, o \in D : d.source = o.source => d = o}

(* For each combination the edges that then arrive share a join.           *)
OptionalGroups(edges, t) ==
    IF NeedsJoin(edges, t)
      THEN {Mandatory(edges, t) \cup UNION {HangingOn(edges, t, d) : d \in D} :
               D \in Combinations(edges, t)}
      ELSE {}

IsBranchTarget(steps, t) == \E b \in Branches(steps) : t = b.synthesis

Groups(steps, edges, t) ==
    CASE IsBranchTarget(steps, t) ->
           IF Cardinality(EdgesInto(edges, t)) <= 2 THEN {}
             ELSE OptionalGroups(edges, t)
      [] ~ IsBranchTarget(steps, t) /\ Optional(edges, t) # {} ->
           OptionalGroups(edges, t)
      [] OTHER ->
           {g \in {EdgesInto(edges, t)} : Cardinality(g) > 1}

-----------------------------------------------------------------------------
(* Nodes of the runtime graph: a step, the join of a group, and the gate   *)
(* of an edge into a join.                                                 *)

Node(t)        == [step |-> t, group |-> {}, gate |-> {}]
Join(t, g)     == [step |-> t, group |-> g, gate |-> {}]
Gate(t, g, e)  == [step |-> t, group |-> g, gate |-> {e}]

Edge(from, to, route) == [from |-> from, to |-> to, route |-> route]

GroupEdges(t, g) ==
    (UNION {IF e.cond # Unconditional /\ Cardinality(g) > 1
              THEN {Edge(Node(e.from), Gate(t, g, e), e.cond),
                    Edge(Gate(t, g, e), Join(t, g), Unconditional)}
              ELSE {Edge(Node(e.from), Join(t, g), e.cond)} : e \in g})
    \cup {Edge(Join(t, g), Node(t), Unconditional)}

RuntimeEdgesInto(edges, groups, t) ==
    {Edge(Node(e.from), Node(t), e.cond) : e \in EdgesInto(edges, t) \ UNION groups}
    \cup UNION {GroupEdges(t, g) : g \in groups}

RuntimeEdgesOf(steps, edges) ==
    UNION {RuntimeEdgesInto(edges, Groups(steps, edges, t), t) : t \in Ids(steps)}

RuntimeEdges(steps) == RuntimeEdgesOf(steps, GraphEdges(steps))

-----------------------------------------------------------------------------
(* What the runtime makes of it.                                           *)

(* The route a step takes of those it has, when its answer says said.      *)
RouteTaken(edges, n, said) ==
    LET routes == {e.route : e \in {f \in edges : f.from = n}} \ {Unconditional}
    IN  IF said \in routes THEN said
        ELSE IF DefaultRoute \in routes THEN DefaultRoute ELSE Unconditional

Followed(edges, nodes, said, stuck) ==
    {e \in edges : /\ e.from \in nodes
                   /\ e.from \notin {Node(t) : t \in stuck}
                   /\ e.route \in {Unconditional, RouteTaken(edges, e.from, said)}}

(* Joins and gates wait for all edges into them, steps for one.            *)
Woken(edges, followed) ==
    {n \in {e.to : e \in followed} :
        n.group # {} => EdgesInto(edges, n) \subseteq followed}

Roots(steps) == {i \in DOMAIN steps : steps[i].deps = {}}

(* The edges followed when every step but the stuck ones finishes: each    *)
(* round follows the edges of the nodes the round before has woken.        *)
FollowedEdges(edges, roots, said, stuck) ==
    LET Rounds[k \in 0..Cardinality(edges)] ==
            Followed(edges,
                     roots \cup IF k = 0 THEN {} ELSE Woken(edges, Rounds[k - 1]),
                     said, stuck)
    IN  Rounds[Cardinality(edges)]

StartsAfter(steps, followed) ==
    [t \in Ids(steps) |->
        Cardinality({e \in followed : e.to = Node(t)})
        + Cardinality({i \in Roots(steps) : steps[i].id = t})]

(* How often each step is started.                                         *)
Starts(steps, said, stuck) ==
    StartsAfter(steps,
                FollowedEdges(RuntimeEdges(steps),
                              {Node(steps[i].id) : i \in Roots(steps)}, said, stuck))
=============================================================================
