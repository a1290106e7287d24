----------------------------- MODULE PlanGraph -----------------------------
(***************************************************************************)
(* The workflow graph that graph_runtime.py builds for an approved plan,   *)
(* as operators on the plan's steps: which step is a conditional review,   *)
(* the edges with their routes, and the merge and join nodes in front of a *)
(* step with several incoming edges.                                       *)
(***************************************************************************)
EXTENDS PlanDraft

(* Names that are not step ids: "none" marks an unconditional edge, and    *)
(* the other two are the routes of a step with a conditional successor.    *)
Unconditional == "none"
MissingData   == "missing_internal_data"
DefaultRoute  == "default"

First(positions) == CHOOSE i \in positions : \A j \in positions : i <= j

DependsOn(steps, id) ==
    UNION {steps[i].deps : i \in {j \in DOMAIN steps : steps[j].id = id}}

SynthesisPositions(steps) == {i \in DOMAIN steps : steps[i].agent = Synthesis}

(* Review steps with one dependency on which a step with these deps waits. *)
ReviewPositions(steps, deps) ==
    {i \in DOMAIN steps : /\ steps[i].agent = DataQuality
                          /\ Cardinality(steps[i].deps) = 1
                          /\ steps[i].id \in deps}

(* The review the first synthesis depends on: it runs only when its source *)
(* reports missing data.  The step's own condition is not looked at.       *)
Branches(steps) ==
    LET syn == steps[First(SynthesisPositions(steps))]
        rev == steps[First(ReviewPositions(steps, syn.deps))]
    IN  IF SynthesisPositions(steps) = {} THEN {}
        ELSE IF ReviewPositions(steps, syn.deps) = {} THEN {}
        ELSE {[source |-> s, review |-> rev.id, synthesis |-> syn.id] :
                 s \in rev.deps}

-----------------------------------------------------------------------------
(* Edges.                                                                  *)

(* Mutant: only the edge into the review is conditional.                   *)
ReviewEdgeOnly(steps, from, to) ==
    IF \E b \in Branches(steps) : from = b.source /\ to = b.review
      THEN MissingData
      ELSE Unconditional

Route(steps, from, to) ==
    IF \E b \in Branches(steps) : from = b.source /\ to = b.review
      THEN MissingData
      ELSE IF \E b \in Branches(steps) : from = b.source /\ to = b.synthesis
             THEN DefaultRoute
             ELSE Unconditional

(* One edge per dependency, and the default edge around the review.        *)
Edges(steps) ==
    (UNION {{[from |-> d, to |-> steps[i].id,
              route |-> Route(steps, d, steps[i].id)] : d \in steps[i].deps} :
                i \in DOMAIN steps})
    \cup {[from |-> b.source, to |-> b.synthesis, route |-> DefaultRoute] :
             b \in Branches(steps)}

Incoming(steps, t) == {e \in Edges(steps) : e.to = t}
Outgoing(steps, t) == {e \in Edges(steps) : e.from = t}

(* Mutant: the alternatives of a conditional route are not merged.         *)
NeverMerged(steps, t) == {}

(* The edges into t of which one execution follows exactly one: a default  *)
(* edge and those from the other successors of its source.  They share a   *)
(* merge node when t waits for anything else.                              *)
Merged(steps, t) ==
    LET default == {e \in Incoming(steps, t) : e.route = DefaultRoute}
        chosen  == {e.to : e \in {f \in Edges(steps) :
                        /\ f.from \in {d.from : d \in default}
                        /\ f.route \notin {Unconditional, DefaultRoute}}}
        group   == default \cup {e \in Incoming(steps, t) :
                        e.route = Unconditional /\ e.from \in chosen}
        others  == Incoming(steps, t) \ group
    IN  IF /\ default # {} /\ Cardinality(group) > 1 /\ others # {}
           /\ \A e \in others : e.route = Unconditional
          THEN group
          ELSE {}

(* The steps with a join node in front: they start once all of several     *)
(* predecessors have finished.  Any other step starts on every edge.       *)
Joined(steps, t) ==
    LET single == Incoming(steps, t) \ Merged(steps, t)
    IN  /\ \A e \in single : e.route = Unconditional
        /\ \/ Merged(steps, t) # {}
           \/ Cardinality(single) > 1

(* Mutant: the join waits for both alternatives of a conditional route.    *)
EveryPredecessor(steps, t) == {e.from : e \in Incoming(steps, t)}

(* What the join of t waits for; the merge node stands for its source.     *)
Awaited(steps, t) ==
    {e.from : e \in Incoming(steps, t) \ Merged(steps, t)}
    \cup {e.from : e \in {f \in Merged(steps, t) : f.route = DefaultRoute}}

(* Mutant: a join counts the review itself, not the route it is part of.   *)
Sender(steps, e) == e.from

(* The predecessor of the join of t that an edge into t completes.         *)
Arrival(steps, e) ==
    IF e \in Merged(steps, e.to)
      THEN CHOOSE s \in {f.from : f \in {g \in Merged(steps, e.to) :
                                            g.route = DefaultRoute}} : TRUE
      ELSE e.from

-----------------------------------------------------------------------------
(* What a step is given, and what the guard accepts.                       *)

(* Mutant: a skipped review leaves nothing in its place.                   *)
OwnOutputsOnly(steps, t, outputs) == DependsOn(steps, t) \cap outputs

(* The outputs a step's request carries: those of its dependencies, and    *)
(* the source's when the synthesis runs without its review.                *)
DependencyOutputs(steps, t, outputs) ==
    (DependsOn(steps, t) \cap outputs)
    \cup {b.source : b \in {c \in Branches(steps) :
             t = c.synthesis /\ c.review \notin outputs /\ c.source \in outputs}}

(* The request guard's own rule, derived from the approved plan: all       *)
(* dependencies, or for a synthesis any review replaced by its dependency. *)
GuardAccepts(steps, t, given) ==
    \/ given = DependsOn(steps, t)
    \/ /\ \E i \in SynthesisPositions(steps) : steps[i].id = t
       /\ \E r \in ReviewPositions(steps, DependsOn(steps, t)) :
             given = (DependsOn(steps, t) \ {steps[r].id}) \cup steps[r].deps
=============================================================================
