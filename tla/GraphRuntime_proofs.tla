------------------------- MODULE GraphRuntime_proofs -------------------------
(***************************************************************************)
(* An execution by AdkGraphRuntime, for every valid plan of every size:    *)
(* each step is requested at most once and after what it depends on, the   *)
(* guard never refuses, a completed execution is complete, and the         *)
(* execution implements PlanRun.  The graph that graph_builder.py makes of *)
(* the plan agrees with it.                                                *)
(*                                                                         *)
(* The argument: what triggers, joins and merges do to a step is a         *)
(* function of the outputs and the chosen route (Opened, Heard); and both  *)
(* graphs start a step on one of its Ways.                                 *)
(***************************************************************************)
EXTENDS GraphsAgree, PlanDraft_proofs, RecursionLemmas

-----------------------------------------------------------------------------
(* The workflow graph of a plan, for plans of every size: its edges, the   *)
(* conditional branch, and which steps start on a single edge and which    *)
(* behind a join.                                                          *)

(* The two ways around the conditional review, of its synthesis.           *)
Alternatives(list, t) ==
    UNION {{b.source, b.review} : b \in {c \in Branches(list) : t = c.synthesis}}

(* The dependencies that are no part of them.                              *)
Plain(list, t) == DependsOn(list, t) \ Alternatives(list, t)

Sources(list, t) == {b.source : b \in {c \in Branches(list) : t = c.synthesis}}

Preds(list, t) == DependsOn(list, t) \cup Sources(list, t)

Hop(list, d, t) == [from |-> d, to |-> t, route |-> Route(list, d, t)]

IsSynthesis(list, t) == \E b \in Branches(list) : t = b.synthesis
IsReview(list, t)    == \E b \in Branches(list) : t = b.review

(* A set of positions has a first one.                                     *)
LEMMA LeastPosition ==
    ASSUME NEW n \in Nat, NEW S \in SUBSET (1..n), S # {}
    PROVE  First(S) \in S
<1>1. \E i \in S : \A j \in S : i <= j
  <2>1. S \in SUBSET Nat
    OBVIOUS
  <2> QED
    BY <2>1, LeastNumber
<1> QED
  BY <1>1 DEF First

(* A finite set has more than one member when it has two.                  *)
LEMMA SeveralMembers ==
    ASSUME NEW S, IsFiniteSet(S)
    PROVE  Cardinality(S) > 1 <=> \E x, y \in S : x # y
<1>1. Cardinality(S) \in Nat
  BY FS_CardinalityType
<1>2. ASSUME NEW x \in S, NEW y \in S, x # y PROVE Cardinality(S) > 1
  <2>1. Cardinality(S) # 0
    BY FS_EmptySet
  <2>2. Cardinality(S) # 1
    BY <1>2, FS_Singleton
  <2> QED
    BY <1>1, <2>1, <2>2
<1>3. ASSUME Cardinality(S) > 1 PROVE \E x, y \in S : x # y
  <2>1. S # {}
    BY <1>3, FS_EmptySet
  <2>2. PICK x \in S : TRUE
    BY <2>1
  <2>3. S # {x}
    BY <1>3, FS_Singleton
  <2> QED
    BY <2>2, <2>3
<1> QED
  BY <1>2, <1>3

(* The ids of a plan are finitely many.                                    *)
LEMMA FiniteIds ==
    ASSUME NEW list \in Seq(Steps)
    PROVE  IsFiniteSet(Ids(list))
<1> DEFINE f == [i \in 1..Len(list) |-> list[i].id]
<1>1. DOMAIN list = 1..Len(list) /\ Len(list) \in Nat
  OBVIOUS
<1>2. f \in Surjection(1..Len(list), Ids(list))
  BY <1>1 DEF Surjection, Ids
<1>3. IsFiniteSet(1..Len(list))
  BY <1>1, FS_Interval
<1> QED
  BY <1>2, <1>3, FS_Surjection

(* What a step depends on, in a plan without two steps of one id.          *)
LEMMA DependsOnDeps ==
    ASSUME NEW list \in Seq(Steps), UniqueIds(list)
    PROVE  /\ \A i \in DOMAIN list : DependsOn(list, list[i].id) = list[i].deps
           /\ \A t : t \notin Ids(list) => DependsOn(list, t) = {}
BY DEF DependsOn, UniqueIds, Ids

(* A step depends on finitely many steps of the plan, never on itself.     *)
LEMMA DependenciesAreSteps ==
    ASSUME NEW list \in Seq(Steps), WellFormed(list), NEW t
    PROVE  /\ DependsOn(list, t) \subseteq Ids(list)
           /\ IsFiniteSet(DependsOn(list, t))
           /\ t \notin DependsOn(list, t)
<1>1. UniqueIds(list) /\ DeclaredDependencies(list) /\ Acyclic(list)
  BY DEF WellFormed
<1>2. DependsOn(list, t) \subseteq Ids(list)
  BY <1>1 DEF DeclaredDependencies, DependsOn
<1>3. t \notin DependsOn(list, t)
  BY <1>1, NoSelfDependency, DependsOnDeps DEF Ids
<1> QED
  BY <1>2, <1>3, FiniteIds, FS_Subset

(* The branch: a synthesis, a review it waits for, and the one step the    *)
(* review depends on.                                                      *)
LEMMA BranchShape ==
    ASSUME NEW list \in Seq(Steps), WellFormed(list), NEW b \in Branches(list)
    PROVE  /\ {b.source, b.review, b.synthesis} \subseteq Ids(list)
           /\ b.review \in DependsOn(list, b.synthesis)
           /\ DependsOn(list, b.review) = {b.source}
           /\ b.source # b.review /\ b.source # b.synthesis /\ b.review # b.synthesis
           /\ Branches(list) = {b}
           /\ \E i \in SynthesisPositions(list) : list[i].id = b.synthesis
           /\ \E j \in ReviewPositions(list, DependsOn(list, b.synthesis)) :
                 list[j].id = b.review /\ list[j].deps = {b.source}
<1> DEFINE i == First(SynthesisPositions(list))
           j == First(ReviewPositions(list, list[i].deps))
<1>1. /\ UniqueIds(list) /\ DeclaredDependencies(list) /\ Acyclic(list)
      /\ DOMAIN list = 1..Len(list) /\ Len(list) \in Nat
  BY DEF WellFormed
<1>2. /\ SynthesisPositions(list) # {}
      /\ ReviewPositions(list, list[i].deps) # {}
      /\ Branches(list) = {[source |-> s, review |-> list[j].id,
                             synthesis |-> list[i].id] : s \in list[j].deps}
  BY DEF Branches
<1>3. i \in SynthesisPositions(list)
  <2>1. SynthesisPositions(list) \in SUBSET (1..Len(list))
    BY <1>1 DEF SynthesisPositions
  <2> QED
    BY <1>1, <1>2, <2>1, LeastPosition
<1>4. j \in ReviewPositions(list, list[i].deps)
  <2>1. ReviewPositions(list, list[i].deps) \in SUBSET (1..Len(list))
    BY <1>1 DEF ReviewPositions
  <2> QED
    BY <1>1, <1>2, <2>1, LeastPosition
<1> HIDE DEF i, j
<1>5. i \in DOMAIN list /\ list[i].agent = Synthesis
  BY <1>3 DEF SynthesisPositions
<1>6. /\ j \in DOMAIN list /\ list[j].agent = DataQuality
      /\ Cardinality(list[j].deps) = 1 /\ list[j].id \in list[i].deps
  BY <1>4 DEF ReviewPositions
<1>7. PICK s : list[j].deps = {s}
  <2>1. IsFiniteSet(list[j].deps)
    BY <1>1, <1>6, DependsOnDeps, DependenciesAreSteps
  <2> QED
    BY <1>6, <2>1, FS_Singleton
<1>8. b = [source |-> s, review |-> list[j].id, synthesis |-> list[i].id]
  BY <1>2, <1>7
<1>9. Branches(list) = {b}
  BY <1>2, <1>7, <1>8
<1>10. s # list[j].id /\ list[j].id # list[i].id
  BY <1>1, <1>5, <1>6, <1>7, NoSelfDependency
<1>11. s # list[i].id
  <2> SUFFICES ASSUME s = list[i].id PROVE FALSE
    OBVIOUS
  <2> DEFINE S == {list[i].id, list[j].id}
  <2>1. S \in SUBSET Ids(list) /\ S # {}
    BY <1>5, <1>6 DEF Ids
  <2>2. PICK k \in DOMAIN list : list[k].id \in S /\ list[k].deps \cap S = {}
    BY <1>1, <2>1 DEF Acyclic
  <2>3. k = i \/ k = j
    BY <1>1, <1>5, <1>6, <2>2 DEF UniqueIds
  <2> QED
    BY <1>6, <1>7, <2>2, <2>3
<1>12. s \in Ids(list)
  BY <1>1, <1>6, <1>7 DEF DeclaredDependencies
<1>13. /\ DependsOn(list, list[j].id) = {s}
       /\ DependsOn(list, list[i].id) = list[i].deps
  BY <1>1, <1>5, <1>6, <1>7, DependsOnDeps
<1>14. list[i].id \in Ids(list) /\ list[j].id \in Ids(list)
  BY <1>5, <1>6 DEF Ids
<1> QED
  BY <1>3, <1>4, <1>6, <1>7, <1>8, <1>9, <1>10, <1>11, <1>12, <1>13, <1>14

-----------------------------------------------------------------------------
(* Edges.                                                                  *)

(* Only a synthesis has a predecessor it does not depend on, and what a    *)
(* review depends on is the source.                                        *)
LEMMA PredsShape ==
    ASSUME NEW list \in Seq(Steps), WellFormed(list), NEW t
    PROVE  /\ ~ IsSynthesis(list, t) =>
                 /\ Preds(list, t) = DependsOn(list, t)
                 /\ Plain(list, t) = DependsOn(list, t)
                 /\ Sources(list, t) = {}
           /\ \A b \in Branches(list) :
                 /\ t = b.review => ~ IsSynthesis(list, t) /\ Preds(list, t) = {b.source}
                 /\ t = b.synthesis =>
                       /\ ~ IsReview(list, t)
                       /\ Sources(list, t) = {b.source}
                       /\ Alternatives(list, t) = {b.source, b.review}
                       /\ Preds(list, t) = Plain(list, t) \cup {b.source, b.review}
           /\ Preds(list, t) # {} => t \in Ids(list)
           /\ Preds(list, t) \subseteq Ids(list)
           /\ t \notin Preds(list, t)
<1>1. \A b \in Branches(list) :
         /\ Branches(list) = {b} /\ b.review # b.synthesis
         /\ b.synthesis \in Ids(list) /\ b.source \in Ids(list)
         /\ b.source # b.synthesis
         /\ b.review \in DependsOn(list, b.synthesis)
         /\ DependsOn(list, b.review) = {b.source}
  BY BranchShape
<1>2. ASSUME ~ IsSynthesis(list, t)
      PROVE  /\ Preds(list, t) = DependsOn(list, t)
             /\ Plain(list, t) = DependsOn(list, t)
             /\ Sources(list, t) = {}
  BY <1>2 DEF IsSynthesis, Preds, Plain, Alternatives, Sources
<1>3. ASSUME NEW b \in Branches(list), t = b.review
      PROVE  ~ IsSynthesis(list, t) /\ Preds(list, t) = {b.source}
  <2>1. ~ IsSynthesis(list, t)
    BY <1>1, <1>3 DEF IsSynthesis
  <2> QED
    BY <1>1, <1>2, <1>3, <2>1
<1>4. ASSUME NEW b \in Branches(list), t = b.synthesis
      PROVE  /\ ~ IsReview(list, t)
             /\ Sources(list, t) = {b.source}
             /\ Alternatives(list, t) = {b.source, b.review}
             /\ Preds(list, t) = Plain(list, t) \cup {b.source, b.review}
  <2>1. {c \in Branches(list) : t = c.synthesis} = {b}
    BY <1>1, <1>4
  <2>2. Sources(list, t) = {b.source} /\ Alternatives(list, t) = {b.source, b.review}
    BY <2>1 DEF Sources, Alternatives
  <2>3. ~ IsReview(list, t)
    BY <1>1, <1>4 DEF IsReview
  <2> QED
    BY <1>1, <1>4, <2>2, <2>3 DEF Preds, Plain
<1>5. UniqueIds(list)
  BY DEF WellFormed
<1>6. Sources(list, t) # {} => t \in Ids(list)
  BY <1>1 DEF Sources
<1>7. DependsOn(list, t) # {} => t \in Ids(list)
  BY <1>5, DependsOnDeps
<1>8. t \notin Sources(list, t) /\ Sources(list, t) \subseteq Ids(list)
  BY <1>1 DEF Sources
<1>9. t \notin DependsOn(list, t) /\ DependsOn(list, t) \subseteq Ids(list)
  BY DependenciesAreSteps
<1> QED
  BY <1>2, <1>3, <1>4, <1>6, <1>7, <1>8, <1>9 DEF Preds

(* The route of an edge: into the review only with missing data, from its  *)
(* source to the synthesis otherwise, and always on every other edge.      *)
LEMMA Routes ==
    ASSUME NEW list \in Seq(Steps), WellFormed(list), NEW t, NEW d \in Preds(list, t)
    PROVE  Route(list, d, t) = IF IsReview(list, t) THEN MissingData
                                ELSE IF d \in Sources(list, t) THEN DefaultRoute
                                ELSE Unconditional
<1>1. \A b \in Branches(list) : t = b.review => d = b.source
  BY PredsShape
<1> QED
  BY <1>1 DEF Route, IsReview, Sources

(* A hop is known by its ends.                                             *)
LEMMA HopEnds ==
    ASSUME NEW list, NEW d, NEW t
    PROVE  /\ Hop(list, d, t).from = d
           /\ Hop(list, d, t).to = t
           /\ Hop(list, d, t).route = Route(list, d, t)
BY DEF Hop

(* The edges are the hops from predecessors.                               *)
LEMMA EdgesAreHops ==
    ASSUME NEW list \in Seq(Steps), WellFormed(list)
    PROVE  /\ \A e \in Edges(list) : e.from \in Preds(list, e.to)
                                      /\ e = Hop(list, e.from, e.to)
           /\ \A t : \A d \in Preds(list, t) : Hop(list, d, t) \in Edges(list)
<1> DEFINE direct == UNION {{Hop(list, d, list[i].id) : d \in list[i].deps} :
                               i \in DOMAIN list}
           around == {[from |-> b.source, to |-> b.synthesis, route |-> DefaultRoute] :
                         b \in Branches(list)}
<1>1. UniqueIds(list)
  BY DEF WellFormed
<1>2. \A b \in Branches(list) :
         /\ b.source \in Sources(list, b.synthesis)
         /\ b.source \in Preds(list, b.synthesis)
         /\ ~ IsReview(list, b.synthesis)
  BY PredsShape DEF Preds
<1>3. ASSUME NEW b \in Branches(list)
      PROVE  /\ Hop(list, b.source, b.synthesis) =
                   [from |-> b.source, to |-> b.synthesis, route |-> DefaultRoute]
             /\ b.source \in Preds(list, b.synthesis)
  <2>1. Route(list, b.source, b.synthesis) = DefaultRoute
    BY <1>2, Routes
  <2> QED
    BY <1>2, <2>1 DEF Hop
<1>4. Edges(list) = direct \cup around
  BY DEF Edges, Hop
<1>5. ASSUME NEW i \in DOMAIN list, NEW d \in list[i].deps
      PROVE  d \in Preds(list, list[i].id)
  BY <1>1, DependsOnDeps DEF Preds
<1>6. ASSUME NEW e
      PROVE  e \in Edges(list) <=>
                \/ \E i \in DOMAIN list : \E d \in list[i].deps :
                      e = Hop(list, d, list[i].id)
                \/ \E b \in Branches(list) : e = Hop(list, b.source, b.synthesis)
  <2>1. e \in around <=>
           \E b \in Branches(list) : e = Hop(list, b.source, b.synthesis)
    BY <1>3
  <2>2. e \in direct <=>
           \E i \in DOMAIN list : \E d \in list[i].deps : e = Hop(list, d, list[i].id)
    OBVIOUS
  <2> HIDE DEF direct, around
  <2> QED
    BY <1>4, <2>1, <2>2
<1> HIDE DEF direct, around
<1>7. ASSUME NEW e \in Edges(list)
      PROVE  e.from \in Preds(list, e.to) /\ e = Hop(list, e.from, e.to)
  <2>1. CASE \E b \in Branches(list) : e = Hop(list, b.source, b.synthesis)
    <3>1. PICK b \in Branches(list) : e = Hop(list, b.source, b.synthesis)
      BY <2>1
    <3>2. e.from = b.source /\ e.to = b.synthesis
      BY <3>1, HopEnds
    <3>3. b.source \in Preds(list, b.synthesis)
      BY <1>3
    <3> QED
      BY <3>1, <3>2, <3>3
  <2>2. CASE \E i \in DOMAIN list : \E d \in list[i].deps :
                e = Hop(list, d, list[i].id)
    BY <1>5, <2>2, HopEnds
  <2> QED
    BY <1>6, <2>1, <2>2
<1>8. ASSUME NEW t, NEW d \in Preds(list, t)
      PROVE  Hop(list, d, t) \in Edges(list)
  <2>1. CASE d \in DependsOn(list, t)
    <3>1. PICK i \in DOMAIN list : list[i].id = t /\ d \in list[i].deps
      BY <2>1 DEF DependsOn
    <3> QED
      BY <1>6, <3>1
  <2>2. CASE d \in Sources(list, t)
    <3>1. PICK b \in Branches(list) : d = b.source /\ t = b.synthesis
      BY <2>2 DEF Sources
    <3> QED
      BY <1>6, <3>1
  <2> QED
    BY <2>1, <2>2 DEF Preds
<1> QED
  BY <1>7, <1>8

(* The edges into a step: one hop from every predecessor.                  *)
LEMMA IncomingHops ==
    ASSUME NEW list \in Seq(Steps), WellFormed(list), NEW t
    PROVE  /\ Incoming(list, t) = {Hop(list, d, t) : d \in Preds(list, t)}
           /\ IsFiniteSet(Incoming(list, t))
<1>1. Incoming(list, t) = {Hop(list, d, t) : d \in Preds(list, t)}
  BY EdgesAreHops DEF Incoming, Hop
<1>2. IsFiniteSet(Preds(list, t))
  BY FiniteIds, PredsShape, FS_Subset
<1> DEFINE f == [d \in Preds(list, t) |-> Hop(list, d, t)]
<1>3. f \in Surjection(Preds(list, t), Incoming(list, t))
  BY <1>1 DEF Surjection
<1> QED
  BY <1>1, <1>2, <1>3, FS_Surjection

-----------------------------------------------------------------------------
(* Merges and joins.                                                       *)

(* A step that is no synthesis of a branch has no merge in front; it has a *)
(* join when it depends on several steps.                                  *)
LEMMA OrdinaryJoin ==
    ASSUME NEW list \in Seq(Steps), WellFormed(list), NEW t, ~ IsSynthesis(list, t)
    PROVE  /\ Merged(list, t) = {}
           /\ Awaited(list, t) = DependsOn(list, t)
           /\ Joined(list, t) <=>
                 ~ IsReview(list, t) /\ \E x, y \in DependsOn(list, t) : x # y
<1>1. Preds(list, t) = DependsOn(list, t) /\ Sources(list, t) = {}
  BY PredsShape
<1>2. /\ Incoming(list, t) = {Hop(list, d, t) : d \in DependsOn(list, t)}
      /\ IsFiniteSet(Incoming(list, t))
  BY <1>1, IncomingHops
<1>3. \A d \in DependsOn(list, t) :
         Hop(list, d, t).route = IF IsReview(list, t) THEN MissingData ELSE Unconditional
  BY <1>1, Routes DEF Hop
<1>4. {e \in Incoming(list, t) : e.route = DefaultRoute} = {}
  BY <1>2, <1>3 DEF MissingData, DefaultRoute, Unconditional
<1>5. Merged(list, t) = {}
  BY <1>4 DEF Merged
<1>6. Awaited(list, t) = DependsOn(list, t)
  BY <1>2, <1>5, HopEnds DEF Awaited
<1>7. Cardinality(Incoming(list, t)) > 1 <=> \E x, y \in DependsOn(list, t) : x # y
  <2> DEFINE edges == Incoming(list, t)
  <2>1. IsFiniteSet(edges)
    BY <1>2
  <2> HIDE DEF edges
  <2>3. Cardinality(edges) > 1 <=> \E e, f \in edges : e # f
    BY <2>1, SeveralMembers
  <2>2. \A x, y : Hop(list, x, t) = Hop(list, y, t) <=> x = y
    BY HopEnds
  <2>4. \A e : e \in edges <=> \E d \in DependsOn(list, t) : e = Hop(list, d, t)
    BY <1>2 DEF edges
  <2>5. (\E e, f \in edges : e # f) => \E x, y \in DependsOn(list, t) : x # y
    BY <2>4
  <2>6. ASSUME NEW x \in DependsOn(list, t), NEW y \in DependsOn(list, t), x # y
        PROVE  \E e, f \in edges : e # f
    <3>1. Hop(list, x, t) \in edges /\ Hop(list, y, t) \in edges
      BY <2>4
    <3> QED
      BY <2>2, <2>6, <3>1
  <2> QED
    BY <2>3, <2>5, <2>6 DEF edges
<1>8. Joined(list, t) <=> /\ \A e \in Incoming(list, t) : e.route = Unconditional
                          /\ Cardinality(Incoming(list, t)) > 1
  BY <1>5 DEF Joined
<1>9. (\E x, y \in DependsOn(list, t) : x # y) =>
         ((\A e \in Incoming(list, t) : e.route = Unconditional) <=> ~ IsReview(list, t))
  BY <1>2, <1>3 DEF MissingData, Unconditional
<1> QED
  BY <1>5, <1>6, <1>7, <1>8, <1>9

(* In front of the synthesis of a branch its two alternatives are merged,  *)
(* and joined with what else it depends on, if there is anything.          *)
LEMMA SynthesisJoin ==
    ASSUME NEW list \in Seq(Steps), WellFormed(list), NEW b \in Branches(list)
    PROVE  LET t == b.synthesis
           IN  /\ Joined(list, t) <=> Plain(list, t) # {}
               /\ Joined(list, t) =>
                     /\ Awaited(list, t) = Plain(list, t) \cup {b.source}
                     /\ Merged(list, t) = {Hop(list, b.source, t), Hop(list, b.review, t)}
                     /\ {f.from : f \in {g \in Merged(list, t) : g.route = DefaultRoute}}
                           = {b.source}
<1> DEFINE t == b.synthesis
           viaSource == Hop(list, b.source, t)
           viaReview == Hop(list, b.review, t)
           default == {e \in Incoming(list, t) : e.route = DefaultRoute}
           chosen == {e.to : e \in {f \in Edges(list) :
                         /\ f.from \in {d.from : d \in default}
                         /\ f.route \notin {Unconditional, DefaultRoute}}}
           group == default \cup {e \in Incoming(list, t) :
                         e.route = Unconditional /\ e.from \in chosen}
           others == Incoming(list, t) \ group
<1>1. /\ b.source # b.review /\ b.source # b.synthesis /\ b.review # b.synthesis
      /\ Branches(list) = {b} /\ DependsOn(list, b.review) = {b.source}
  BY BranchShape
<1>2. /\ ~ IsReview(list, t) /\ Sources(list, t) = {b.source}
      /\ Preds(list, t) = Plain(list, t) \cup {b.source, b.review}
      /\ Plain(list, t) \cap {b.source, b.review} = {}
      /\ Preds(list, b.review) = {b.source}
  BY PredsShape DEF Plain
<1>3. Incoming(list, t) = {Hop(list, d, t) : d \in Preds(list, t)}
  BY IncomingHops
<1>4. \A d \in Preds(list, t) :
         /\ Hop(list, d, t).from = d
         /\ Hop(list, d, t).route = IF d = b.source THEN DefaultRoute ELSE Unconditional
  BY <1>2, Routes DEF Hop
<1>5. default = {viaSource}
  BY <1>2, <1>3, <1>4 DEF DefaultRoute, Unconditional
<1>6. chosen = {b.review}
  <2>1. \A u : u \in chosen <=>
           \E f \in Edges(list) : /\ u = f.to /\ f.from = b.source
                                   /\ f.route \notin {Unconditional, DefaultRoute}
    BY <1>2, <1>4, <1>5
  <2>2. ASSUME NEW f \in Edges(list), f.from = b.source,
               f.route \notin {Unconditional, DefaultRoute}
        PROVE  f.to = b.review
    <3>1. f.from \in Preds(list, f.to) /\ f.route = Route(list, f.from, f.to)
      BY EdgesAreHops DEF Hop
    <3>2. IsReview(list, f.to)
      BY <2>2, <3>1, Routes
    <3> QED
      BY <1>1, <3>2 DEF IsReview
  <2>3. /\ Hop(list, b.source, b.review) \in Edges(list)
        /\ Hop(list, b.source, b.review).route = MissingData
    BY <1>2, EdgesAreHops, Routes DEF Hop, IsReview
  <2> QED
    BY <2>1, <2>2, <2>3 DEF Hop, MissingData, DefaultRoute, Unconditional
<1>7. group = {viaSource, viaReview}
  <2>1. \A e : e \in Incoming(list, t) /\ e.route = Unconditional /\ e.from = b.review
                <=> e = viaReview
    BY <1>1, <1>2, <1>3, <1>4 DEF DefaultRoute, Unconditional
  <2> HIDE DEF default, chosen, viaSource, viaReview
  <2> QED
    BY <1>5, <1>6, <2>1
<1>8. others = {Hop(list, d, t) : d \in Plain(list, t)}
  BY <1>2, <1>3, <1>4, <1>7
<1>9. \A e \in others : e.route = Unconditional
  BY <1>2, <1>4, <1>8
<1>10. Cardinality(group) > 1
  <2>1. viaSource # viaReview
    BY <1>1, <1>2, <1>4
  <2>2. IsFiniteSet(group)
    <3>1. IsFiniteSet({viaSource})
      BY FS_Singleton
    <3>2. IsFiniteSet({viaSource} \cup {viaReview})
      BY <3>1, FS_AddElement
    <3>3. group = {viaSource} \cup {viaReview}
      BY <1>7
    <3> QED
      BY <3>2, <3>3
  <2> QED
    BY <1>7, <2>1, <2>2, SeveralMembers
<1>11. Merged(list, t) = IF Plain(list, t) # {} THEN group ELSE {}
  <2>1. Merged(list, t) = IF others # {} THEN group ELSE {}
    BY <1>5, <1>9, <1>10 DEF Merged
  <2>2. others # {} <=> Plain(list, t) # {}
    BY <1>8
  <2> HIDE DEF others, group
  <2> QED
    BY <2>1, <2>2
<1>12. CASE Plain(list, t) # {}
  <2>1. Merged(list, t) = group /\ Merged(list, t) # {}
    BY <1>7, <1>11, <1>12
  <2>2. Joined(list, t)
    BY <1>9, <2>1 DEF Joined
  <2>3. {f.from : f \in {g \in Merged(list, t) : g.route = DefaultRoute}} = {b.source}
    BY <1>1, <1>2, <1>4, <1>7, <2>1 DEF DefaultRoute, Unconditional
  <2>4. {e.from : e \in Incoming(list, t) \ Merged(list, t)} = Plain(list, t)
    BY <1>2, <1>4, <1>8, <2>1
  <2>5. Awaited(list, t) = Plain(list, t) \cup {b.source}
    BY <2>3, <2>4 DEF Awaited
  <2> QED
    BY <1>7, <1>12, <2>1, <2>2, <2>3, <2>5
<1>13. CASE Plain(list, t) = {}
  <2>1. Merged(list, t) = {}
    BY <1>11, <1>13
  <2>2. viaSource \in Incoming(list, t) /\ viaSource.route # Unconditional
    BY <1>2, <1>3, <1>4 DEF DefaultRoute, Unconditional
  <2>3. ~ Joined(list, t)
    BY <2>1, <2>2 DEF Joined
  <2> QED
    BY <1>13, <2>3
<1> QED
  BY <1>12, <1>13

-----------------------------------------------------------------------------
(* The execution.                                                          *)

(* One of the alternatives around the review has come to its synthesis.    *)
Side(b) == (b.source \in outputs /\ ~ asked) \/ b.review \in outputs

(* All that a step waits for has come.                                     *)
Opened(u) == /\ Plain(steps, u) \subseteq outputs
             /\ IsReview(steps, u) => asked
             /\ \A b \in Branches(steps) : u = b.synthesis => Side(b)

(* What of it has come.                                                    *)
Heard(u) == (Plain(steps, u) \cap outputs)
            \cup {b.source : b \in {c \in Branches(steps) : u = c.synthesis /\ Side(c)}}

(* A step has been triggered exactly when it is open, and never again.     *)
Counted ==
    /\ \A u \in Ids(steps) :
          /\ requests[u] + triggers[u] = IF Opened(u) THEN 1 ELSE 0
          /\ arrived[u] = IF Joined(steps, u) /\ ~ Opened(u) THEN Heard(u) ELSE {}
    /\ \A u \in StepIds \ Ids(steps) :
          requests[u] = 0 /\ triggers[u] = 0 /\ arrived[u] = {}

(* A requested step is awaited, has answered or has failed.                *)
Answered ==
    /\ \A t \in StepIds : requests[t] > 0 <=> t \in running \cup outputs \cup failed
    /\ running \cap outputs = {}
    /\ failed \cap (running \cup outputs) = {}

(* A step that finishes leads on to u: it precedes u and takes that route. *)
Hits(t, missing, u) == /\ t \in Preds(steps, u)
                       /\ IsReview(steps, u) => missing
                       /\ t \in Sources(steps, u) => ~ missing

(* Nothing has happened yet.                                               *)
Untouched ==
    /\ \A t \in StepIds : requests[t] = 0 /\ triggers[t] = 0 /\ arrived[t] = {}
    /\ running = {} /\ outputs = {} /\ failed = {} /\ asked = FALSE

(* The inductive invariant.                                                *)
GInv ==
    /\ RuntimeTypeOK
    /\ phase = "new" => Untouched
    /\ phase \in {"running", "completed"} => Counted /\ Answered
    /\ asked => \A b \in Branches(steps) : b.source \in outputs
    /\ refused = {}
    /\ \A t \in StepIds : requests[t] <= 1
    /\ phase = "completed" =>
          failed = {} /\ running = {} /\ \A t \in StepIds : triggers[t] = 0

-----------------------------------------------------------------------------
(* A step is open.                                                         *)

(* The plan of an execution is valid, and its ids are step ids.            *)
LEMMA ValidPlan ==
    ASSUME steps \in Workflows
    PROVE  /\ steps \in Seq(Steps) /\ WellFormed(steps)
           /\ Ids(steps) \subseteq StepIds
<1>1. steps \in Seq(Steps) /\ WellFormed(steps)
  BY WorkflowsAssumption
<1>2. \A i \in DOMAIN steps : steps[i] \in Steps
  BY <1>1
<1> QED
  BY <1>1, <1>2 DEF Ids, Steps

(* The same, and whose steps the sets of an execution hold.                *)
LEMMA WorkflowFacts ==
    ASSUME RuntimeTypeOK
    PROVE  /\ steps \in Seq(Steps) /\ WellFormed(steps)
           /\ Ids(steps) \subseteq StepIds
           /\ running \subseteq StepIds /\ outputs \subseteq StepIds
BY ValidPlan DEF RuntimeTypeOK

(* The review has run only if it was asked for, after its source.          *)
LEMMA ReviewAfterSource ==
    ASSUME RuntimeTypeOK, Counted, Answered, NEW b \in Branches(steps),
           b.review \in running \cup outputs
    PROVE  asked /\ b.source \in outputs
<1>1. steps \in Seq(Steps) /\ WellFormed(steps) /\ Ids(steps) \subseteq StepIds
  BY WorkflowFacts
<1>2. b.review \in Ids(steps) /\ DependsOn(steps, b.review) = {b.source}
  BY <1>1, BranchShape
<1>3. requests[b.review] > 0
  BY <1>1, <1>2 DEF Answered
<1>4. requests[b.review] \in Nat /\ triggers[b.review] \in Nat
  BY <1>1, <1>2 DEF RuntimeTypeOK
<1>5. Opened(b.review)
  BY <1>2, <1>3, <1>4 DEF Counted
<1>6. Plain(steps, b.review) = {b.source}
  BY <1>1, <1>2, PredsShape
<1> QED
  BY <1>5, <1>6 DEF Opened, IsReview

(* An open step is ready in the sense of PlanRun.                          *)
LEMMA OpenedIsReady ==
    ASSUME RuntimeTypeOK, Counted, Answered, NEW t \in Ids(steps), Opened(t)
    PROVE  \/ /\ DependsOn(steps, t) \subseteq outputs
              /\ \A b \in Branches(steps) : t = b.review => asked
              /\ \A b \in Branches(steps) : t = b.synthesis => b.review \in outputs
           \/ \E b \in Branches(steps) :
                 /\ t = b.synthesis /\ ~ asked /\ b.review \notin outputs
                 /\ (DependsOn(steps, t) \ {b.review}) \cup {b.source} \subseteq outputs
<1>1. steps \in Seq(Steps) /\ WellFormed(steps)
  BY WorkflowFacts
<1>2. CASE ~ IsSynthesis(steps, t)
  <2>1. DependsOn(steps, t) \subseteq outputs
    BY <1>1, <1>2, PredsShape DEF Opened
  <2> QED
    BY <1>2, <2>1 DEF Opened, IsReview, IsSynthesis
<1>3. ASSUME NEW b \in Branches(steps), t = b.synthesis, b.review \in outputs
      PROVE  /\ DependsOn(steps, t) \subseteq outputs
             /\ \A c \in Branches(steps) : t # c.review /\ c = b
  <2>1. b.source \in outputs
    BY <1>3, ReviewAfterSource
  <2>2. /\ DependsOn(steps, t) \subseteq Plain(steps, t) \cup {b.source, b.review}
        /\ Branches(steps) = {b} /\ b.review # b.synthesis
    BY <1>1, <1>3, PredsShape, BranchShape DEF Preds
  <2> QED
    BY <1>3, <2>1, <2>2 DEF Opened
<1>4. ASSUME NEW b \in Branches(steps), t = b.synthesis, b.review \notin outputs
      PROVE  /\ ~ asked
             /\ (DependsOn(steps, t) \ {b.review}) \cup {b.source} \subseteq outputs
  <2>1. b.source \in outputs /\ ~ asked
    BY <1>4 DEF Opened, Side
  <2>2. DependsOn(steps, t) \subseteq Plain(steps, t) \cup {b.source, b.review}
    BY <1>1, <1>4, PredsShape DEF Preds
  <2> QED
    BY <1>4, <2>1, <2>2 DEF Opened
<1> QED
  BY <1>2, <1>3, <1>4 DEF IsSynthesis

(* The guard accepts what an open step is given: its dependencies, or for  *)
(* the synthesis without review the review's source in its place           *)
(* (require_specialist_call_allowed, _dependency_outputs_for_step).        *)
LEMMA OpenedIsAccepted ==
    ASSUME RuntimeTypeOK, Counted, Answered, NEW t \in Ids(steps), Opened(t)
    PROVE  GuardAccepts(steps, t, DependencyOutputs(steps, t, outputs))
<1>1. steps \in Seq(Steps) /\ WellFormed(steps)
  BY WorkflowFacts
<1>2. CASE /\ DependsOn(steps, t) \subseteq outputs
           /\ \A b \in Branches(steps) : t = b.synthesis => b.review \in outputs
  <2>1. DependencyOutputs(steps, t, outputs) = DependsOn(steps, t)
    BY <1>2 DEF DependencyOutputs
  <2> QED
    BY <2>1 DEF GuardAccepts
<1>3. ASSUME NEW b \in Branches(steps), t = b.synthesis, b.review \notin outputs,
             (DependsOn(steps, t) \ {b.review}) \cup {b.source} \subseteq outputs
      PROVE  GuardAccepts(steps, t, DependencyOutputs(steps, t, outputs))
  <2>1. /\ Branches(steps) = {b}
        /\ \E i \in SynthesisPositions(steps) : steps[i].id = t
        /\ \E j \in ReviewPositions(steps, DependsOn(steps, t)) :
              steps[j].id = b.review /\ steps[j].deps = {b.source}
    BY <1>1, <1>3, BranchShape
  <2>2. DependencyOutputs(steps, t, outputs)
           = (DependsOn(steps, t) \ {b.review}) \cup {b.source}
    BY <1>3, <2>1 DEF DependencyOutputs
  <2> QED
    BY <2>1, <2>2 DEF GuardAccepts
<1> QED
  BY <1>2, <1>3, OpenedIsReady

-----------------------------------------------------------------------------
(* A step finishes.                                                        *)

(* The edges it follows into u: the one hop, or none.                      *)
LEMMA FollowedInto ==
    ASSUME RuntimeTypeOK, NEW t, NEW missing \in BOOLEAN, NEW u
    PROVE  {e \in Followed(t, missing) : e.to = u}
              = IF Hits(t, missing, u) THEN {Hop(steps, t, u)} ELSE {}
<1>1. steps \in Seq(Steps) /\ WellFormed(steps)
  BY WorkflowFacts
<1>2. ASSUME NEW e
      PROVE  e \in Edges(steps) /\ e.from = t /\ e.to = u
                <=> t \in Preds(steps, u) /\ e = Hop(steps, t, u)
  BY <1>1, EdgesAreHops, HopEnds
<1>3. \A e : e \in {f \in Followed(t, missing) : f.to = u} <=>
                /\ e \in Edges(steps) /\ e.from = t /\ e.to = u
                /\ e.route \in {Unconditional, IF missing THEN MissingData
                                                          ELSE DefaultRoute}
  BY DEF Followed, Outgoing
<1>4. CASE t \notin Preds(steps, u)
  BY <1>2, <1>3, <1>4 DEF Hits
<1>5. CASE t \in Preds(steps, u)
  <2>1. Hop(steps, t, u).route = IF IsReview(steps, u) THEN MissingData
                                 ELSE IF t \in Sources(steps, u) THEN DefaultRoute
                                 ELSE Unconditional
    BY <1>1, <1>5, Routes, HopEnds
  <2>2. IsReview(steps, u) => t \notin Sources(steps, u)
    BY <1>1, PredsShape DEF IsReview
  <2>3. Hits(t, missing, u) <=>
           Hop(steps, t, u).route \in {Unconditional, IF missing THEN MissingData
                                                                ELSE DefaultRoute}
    BY <1>5, <2>1, <2>2 DEF Hits, Unconditional, MissingData, DefaultRoute
  <2>4. \A e : e \in {f \in Followed(t, missing) : f.to = u} <=>
                  e = Hop(steps, t, u) /\ Hits(t, missing, u)
    BY <1>2, <1>3, <1>5, <2>3
  <2> QED
    BY <2>4
<1> QED
  BY <1>4, <1>5

(* What a step with a join awaits, and the predecessor a hop stands for.   *)
LEMMA JoinShape ==
    ASSUME steps \in Workflows, NEW u, Joined(steps, u)
    PROVE  /\ ~ IsReview(steps, u)
           /\ Awaited(steps, u) = Plain(steps, u) \cup Sources(steps, u)
           /\ \A d \in Plain(steps, u) : Arrival(steps, Hop(steps, d, u)) = d
           /\ \A b \in Branches(steps) : u = b.synthesis =>
                 /\ Arrival(steps, Hop(steps, b.source, u)) = b.source
                 /\ Arrival(steps, Hop(steps, b.review, u)) = b.source
<1>1. steps \in Seq(Steps) /\ WellFormed(steps)
  BY ValidPlan
<1>2. CASE ~ IsSynthesis(steps, u)
  <2>1. /\ Merged(steps, u) = {} /\ ~ IsReview(steps, u)
        /\ Awaited(steps, u) = DependsOn(steps, u)
        /\ Plain(steps, u) = DependsOn(steps, u) /\ Sources(steps, u) = {}
    BY <1>1, <1>2, OrdinaryJoin, PredsShape
  <2>2. \A d : Arrival(steps, Hop(steps, d, u)) = d
    BY <2>1, HopEnds DEF Arrival
  <2> QED
    BY <1>2, <2>1, <2>2 DEF IsSynthesis
<1>3. ASSUME NEW b \in Branches(steps), u = b.synthesis
      PROVE  /\ ~ IsReview(steps, u)
             /\ Awaited(steps, u) = Plain(steps, u) \cup Sources(steps, u)
             /\ \A d \in Plain(steps, u) : Arrival(steps, Hop(steps, d, u)) = d
             /\ Arrival(steps, Hop(steps, b.source, u)) = b.source
             /\ Arrival(steps, Hop(steps, b.review, u)) = b.source
  <2>1. /\ Awaited(steps, u) = Plain(steps, u) \cup {b.source}
        /\ Merged(steps, u) = {Hop(steps, b.source, u), Hop(steps, b.review, u)}
        /\ {f.from : f \in {g \in Merged(steps, u) : g.route = DefaultRoute}} = {b.source}
    BY <1>1, <1>3, SynthesisJoin
  <2>2. /\ ~ IsReview(steps, u) /\ Sources(steps, u) = {b.source}
        /\ Plain(steps, u) \cap {b.source, b.review} = {}
    BY <1>1, <1>3, PredsShape DEF Plain
  <2>3. \A d \in Plain(steps, u) : Hop(steps, d, u) \notin Merged(steps, u)
    BY <2>1, <2>2, HopEnds
  <2>4. \A d \in Plain(steps, u) : Arrival(steps, Hop(steps, d, u)) = d
    BY <2>3, HopEnds DEF Arrival
  <2>5. \A e \in Merged(steps, u) : e.to = u => Arrival(steps, e) = b.source
    BY <2>1 DEF Arrival
  <2>6. /\ Arrival(steps, Hop(steps, b.source, u)) = b.source
        /\ Arrival(steps, Hop(steps, b.review, u)) = b.source
    BY <2>1, <2>5, HopEnds
  <2> QED
    BY <2>1, <2>2, <2>4, <2>6
<1>4. \A b, c \in Branches(steps) : b = c
  BY <1>1, BranchShape
<1> QED
  BY <1>2, <1>3, <1>4 DEF IsSynthesis

(* A join has heard of everything it awaits exactly when its step is open. *)
JoinsAgree == \A u : Joined(steps, u) =>
                        /\ Heard(u) \subseteq Awaited(steps, u)
                        /\ Opened(u) <=> Heard(u) = Awaited(steps, u)

(* So it is for every valid plan, whatever has run.                        *)
LEMMA HeardAll ==
    steps \in Workflows => JoinsAgree
<1> SUFFICES ASSUME steps \in Workflows, NEW u, Joined(steps, u)
             PROVE  /\ Heard(u) \subseteq Awaited(steps, u)
                    /\ Opened(u) <=> Heard(u) = Awaited(steps, u)
  BY DEF JoinsAgree
<1>1. steps \in Seq(Steps) /\ WellFormed(steps)
  BY ValidPlan
<1>2. ~ IsReview(steps, u) /\ Awaited(steps, u) = Plain(steps, u) \cup Sources(steps, u)
  BY JoinShape
<1>3. CASE ~ IsSynthesis(steps, u)
  BY <1>2, <1>3 DEF IsSynthesis, Opened, Heard, Sources
<1>4. ASSUME NEW b \in Branches(steps), u = b.synthesis
      PROVE  /\ Heard(u) \subseteq Awaited(steps, u)
             /\ Opened(u) <=> Heard(u) = Awaited(steps, u)
  <2>1. /\ Branches(steps) = {b} /\ Sources(steps, u) = {b.source}
        /\ b.source \notin Plain(steps, u)
    BY <1>1, <1>4, BranchShape, PredsShape DEF Plain
  <2>2. Heard(u) = (Plain(steps, u) \cap outputs) \cup (IF Side(b) THEN {b.source} ELSE {})
    BY <1>4, <2>1 DEF Heard
  <2>3. Opened(u) <=> Plain(steps, u) \subseteq outputs /\ Side(b)
    BY <1>2, <1>4, <2>1 DEF Opened
  <2> QED
    BY <1>2, <2>1, <2>2, <2>3
<1> QED
  BY <1>3, <1>4 DEF IsSynthesis

(* And so it stays.                                                        *)
LEMMA HeardAllNext ==
    (steps \in Workflows => JoinsAgree)'
BY HeardAll, PTL

(* What the answer of t changes for u: nothing unless it leads on to u;    *)
(* then u was not open before, and its join hears of t.                    *)
LEMMA AnswerReaches ==
    ASSUME RuntimeTypeOK, Counted, Answered,
           asked => \A b \in Branches(steps) : b.source \in outputs,
           NEW t \in StepIds, NEW missing \in BOOLEAN, FinishStep(t, missing), NEW u
    PROVE  /\ ~ Hits(t, missing, u) =>
                 (Opened(u)' <=> Opened(u)) /\ (Joined(steps, u) => Heard(u)' = Heard(u))
           /\ Hits(t, missing, u) =>
                 /\ ~ Opened(u)
                 /\ Joined(steps, u) => Heard(u)' = Heard(u) \cup
                                            {Arrival(steps, Hop(steps, t, u))}
                 /\ ~ Joined(steps, u) => Opened(u)'
<1>1. steps \in Seq(Steps) /\ WellFormed(steps)
  BY WorkflowFacts
<1> steps \in Workflows
  BY DEF RuntimeTypeOK
<1>2. /\ steps' = steps /\ outputs' = outputs \cup {t} /\ asked' = (asked \/ missing)
      /\ t \in running /\ t \notin outputs
  BY DEF FinishStep, Answered
<1>3. ASSUME NEW b \in Branches(steps)
      PROVE  /\ missing => t = b.source
             /\ t = b.source => ~ asked
             /\ t = b.review => asked
             /\ b.review \in outputs => b.source \in outputs
             /\ Branches(steps) = {b} /\ b.source # b.review
  <2>1. Branches(steps) = {b} /\ b.source # b.review
    BY <1>1, BranchShape
  <2>2. missing => t = b.source
    BY <2>1 DEF FinishStep
  <2>3. /\ t = b.review => asked
        /\ b.review \in outputs => b.source \in outputs
    BY <1>2, ReviewAfterSource
  <2> QED
    BY <1>2, <2>1, <2>2, <2>3
<1>4. CASE ~ IsSynthesis(steps, u)
  <2>1. /\ Preds(steps, u) = Plain(steps, u) /\ Plain(steps, u) = DependsOn(steps, u)
        /\ Sources(steps, u) = {}
        /\ IsReview(steps, u) => \E b \in Branches(steps) : Plain(steps, u) = {b.source}
    BY <1>1, <1>4, PredsShape DEF IsReview
  <2>2. /\ Opened(u) <=> Plain(steps, u) \subseteq outputs /\ (IsReview(steps, u) => asked)
        /\ Heard(u) = Plain(steps, u) \cap outputs
    BY <1>4 DEF Opened, Heard, IsSynthesis
  <2>3. /\ Opened(u)' <=> Plain(steps, u) \subseteq outputs \cup {t}
                          /\ (IsReview(steps, u) => asked \/ missing)
        /\ Heard(u)' = Plain(steps, u) \cap (outputs \cup {t})
    BY <1>2, <1>4 DEF Opened, Heard, IsSynthesis
  <2>4. Hits(t, missing, u) <=> t \in Plain(steps, u) /\ (IsReview(steps, u) => missing)
    BY <2>1 DEF Hits
  <2>5. ASSUME ~ Hits(t, missing, u)
        PROVE  (Opened(u)' <=> Opened(u)) /\ (Joined(steps, u) => Heard(u)' = Heard(u))
    <3>1. t \notin Plain(steps, u) => Heard(u)' = Heard(u)
      BY <2>2, <2>3
    <3>2. Joined(steps, u) => ~ IsReview(steps, u)
      BY JoinShape
    <3>3. Opened(u)' <=> Opened(u)
      <4>1. CASE IsReview(steps, u)
        <5>1. PICK b \in Branches(steps) : Plain(steps, u) = {b.source}
          BY <2>1, <4>1
        <5>2. ~ asked \/ t # b.source
          BY <1>3
        <5> QED
          BY <1>2, <1>3, <2>2, <2>3, <2>4, <2>5, <4>1, <5>1, <5>2
      <4>2. CASE ~ IsReview(steps, u)
        BY <2>2, <2>3, <2>4, <2>5, <4>2
      <4> QED
        BY <4>1, <4>2
    <3> QED
      BY <2>4, <2>5, <3>1, <3>2, <3>3
  <2>6. ASSUME Hits(t, missing, u)
        PROVE  ~ Opened(u) /\ Heard(u)' = Heard(u) \cup {t}
    BY <1>2, <2>2, <2>3, <2>4, <2>6
  <2>7. ASSUME Hits(t, missing, u), Joined(steps, u)
        PROVE  Arrival(steps, Hop(steps, t, u)) = t
    BY <2>4, <2>7, JoinShape
  <2>8. ASSUME Hits(t, missing, u), ~ Joined(steps, u) PROVE Opened(u)'
    <3>1. IsReview(steps, u) \/ ~ \E x, y \in DependsOn(steps, u) : x # y
      BY <1>1, <1>4, <2>8, OrdinaryJoin
    <3> QED
      BY <1>3, <2>1, <2>3, <2>4, <2>8, <3>1
  <2> QED
    BY <2>5, <2>6, <2>7, <2>8
<1>5. ASSUME NEW b \in Branches(steps), u = b.synthesis
      PROVE  /\ ~ Hits(t, missing, u) =>
                 (Opened(u)' <=> Opened(u)) /\ (Joined(steps, u) => Heard(u)' = Heard(u))
             /\ Hits(t, missing, u) =>
                   /\ ~ Opened(u)
                   /\ Joined(steps, u) => Heard(u)' = Heard(u) \cup
                                              {Arrival(steps, Hop(steps, t, u))}
                   /\ ~ Joined(steps, u) => Opened(u)'
  <2>1. /\ Preds(steps, u) = Plain(steps, u) \cup {b.source, b.review}
        /\ Sources(steps, u) = {b.source} /\ ~ IsReview(steps, u)
        /\ Plain(steps, u) \cap {b.source, b.review} = {}
    BY <1>1, <1>5, PredsShape DEF Plain
  <2>2. /\ Opened(u) <=> Plain(steps, u) \subseteq outputs /\ Side(b)
        /\ Heard(u) = (Plain(steps, u) \cap outputs)
                         \cup (IF Side(b) THEN {b.source} ELSE {})
    BY <1>3, <1>5, <2>1 DEF Opened, Heard
  <2>3. /\ Opened(u)' <=> Plain(steps, u) \subseteq outputs \cup {t} /\ Side(b)'
        /\ Heard(u)' = (Plain(steps, u) \cap (outputs \cup {t}))
                         \cup (IF Side(b)' THEN {b.source} ELSE {})
    BY <1>2, <1>3, <1>5, <2>1 DEF Opened, Heard, Side
  <2>4. Side(b)' <=> (b.source \in outputs \cup {t} /\ ~ (asked \/ missing))
                     \/ b.review \in outputs \cup {t}
    BY <1>2 DEF Side
  <2>5. Hits(t, missing, u) <=> t \in Plain(steps, u) \cup {b.source, b.review}
                                /\ (t = b.source => ~ missing)
    BY <2>1 DEF Hits
  <2>6. Joined(steps, u) <=> Plain(steps, u) # {}
    BY <1>1, <1>5, SynthesisJoin
  <2>7. Joined(steps, u) =>
           Arrival(steps, Hop(steps, t, u))
              = IF t \in {b.source, b.review} THEN b.source
                ELSE IF t \in Plain(steps, u) THEN t
                ELSE Arrival(steps, Hop(steps, t, u))
    BY <1>5, <2>1, JoinShape
  <2>8. CASE t \notin Plain(steps, u) \cup {b.source, b.review}
    BY <1>3, <2>2, <2>3, <2>4, <2>5, <2>8 DEF Side
  <2>9. CASE t \in Plain(steps, u)
    <3>1. t # b.source /\ t # b.review /\ ~ missing
      BY <1>3, <2>1, <2>9
    <3>2. Side(b)' <=> Side(b)
      BY <2>4, <3>1 DEF Side
    <3> QED
      BY <1>2, <2>2, <2>3, <2>5, <2>6, <2>7, <2>9, <3>1, <3>2
  <2>10. CASE t \in {b.source, b.review}
    <3>1. ~ Side(b)
      BY <1>2, <1>3, <2>10 DEF Side
    <3>2. Hits(t, missing, u) <=> Side(b)'
      BY <1>2, <1>3, <2>4, <2>5, <2>10
    <3> QED
      BY <1>2, <2>1, <2>2, <2>3, <2>6, <2>7, <2>10, <3>1, <3>2
  <2> QED
    BY <2>1, <2>8, <2>9, <2>10
<1> QED
  BY <1>4, <1>5 DEF IsSynthesis

(* A step that finishes triggers those it makes open, each once.           *)
LEMMA AnswerTriggers ==
    ASSUME RuntimeTypeOK, Counted, Answered,
           asked => \A b \in Branches(steps) : b.source \in outputs,
           NEW t \in StepIds, NEW missing \in BOOLEAN, FinishStep(t, missing),
           NEW u \in Ids(steps)
    PROVE  LET followed == Followed(t, missing)
           IN  /\ triggers[u] + NewTriggers(u, followed) \in Nat
               /\ requests[u] + triggers[u] + NewTriggers(u, followed)
                     = IF Opened(u)' THEN 1 ELSE 0
               /\ (IF Joined(steps, u) /\ ~ Passed(u, followed)
                     THEN Seen(u, followed) ELSE {})
                     = IF Joined(steps, u) /\ ~ Opened(u)' THEN Heard(u)' ELSE {}
<1> DEFINE followed == Followed(t, missing)
<1>1. /\ steps' = steps
      /\ triggers[u] \in Nat /\ requests[u] \in Nat
      /\ requests[u] + triggers[u] = IF Opened(u) THEN 1 ELSE 0
      /\ arrived[u] = IF Joined(steps, u) /\ ~ Opened(u) THEN Heard(u) ELSE {}
  BY WorkflowFacts DEF Counted, RuntimeTypeOK, FinishStep
<1>2. {e \in followed : e.to = u} = IF Hits(t, missing, u) THEN {Hop(steps, t, u)} ELSE {}
  BY FollowedInto
<1> HIDE DEF followed
<1>3. CASE ~ Joined(steps, u)
  <2>1. NewTriggers(u, followed) = IF Hits(t, missing, u) THEN 1 ELSE 0
    BY <1>2, <1>3, FS_EmptySet, FS_Singleton DEF NewTriggers
  <2>2. IF Hits(t, missing, u) THEN ~ Opened(u) /\ Opened(u)' ELSE Opened(u)' <=> Opened(u)
    BY <1>3, AnswerReaches
  <2> QED
    BY <1>1, <1>3, <2>1, <2>2 DEF followed
<1>4. CASE Joined(steps, u)
  <2>1. Opened(u)' <=> Heard(u)' = Awaited(steps, u)
    <3>1. (steps \in Workflows => JoinsAgree)'
      BY HeardAllNext
    <3>2. Joined(steps', u) /\ steps' \in Workflows
      BY <1>1, <1>4 DEF RuntimeTypeOK
    <3> QED
      BY <1>1, <3>1, <3>2 DEF JoinsAgree
  <2>2. Opened(u) <=> Heard(u) = Awaited(steps, u)
    BY <1>4, HeardAll DEF RuntimeTypeOK, JoinsAgree
  <2>3. Seen(u, followed) = arrived[u] \cup {Arrival(steps, e) : e \in
                                IF Hits(t, missing, u) THEN {Hop(steps, t, u)} ELSE {}}
    BY <1>2 DEF Seen
  <2>4. CASE ~ Hits(t, missing, u)
    <3>1. Seen(u, followed) = arrived[u]
      BY <2>3, <2>4
    <3>2. (Opened(u)' <=> Opened(u)) /\ Heard(u)' = Heard(u)
      BY <1>4, <2>4, AnswerReaches
    <3>3. ~ Passed(u, followed) /\ NewTriggers(u, followed) = 0
      BY <1>4, <3>1 DEF Passed, NewTriggers
    <3> QED
      BY <1>1, <1>4, <3>1, <3>2, <3>3 DEF followed
  <2>5. CASE Hits(t, missing, u)
    <3>1. /\ ~ Opened(u)
          /\ Heard(u)' = Heard(u) \cup {Arrival(steps, Hop(steps, t, u))}
      BY <1>4, <2>5, AnswerReaches
    <3>2. Seen(u, followed) = Heard(u)'
      BY <1>1, <1>4, <2>3, <2>5, <3>1
    <3>3. Passed(u, followed) <=> Opened(u)'
      BY <1>1, <1>4, <2>1, <2>2, <3>1, <3>2 DEF Passed
    <3>4. NewTriggers(u, followed) = IF Opened(u)' THEN 1 ELSE 0
      BY <1>4, <3>3 DEF NewTriggers
    <3> QED
      BY <1>1, <1>4, <3>1, <3>2, <3>3, <3>4 DEF followed
  <2> QED
    BY <2>4, <2>5
<1> QED
  BY <1>3, <1>4

-----------------------------------------------------------------------------
(* The invariant.                                                          *)

(* Nothing a step waits for has come before the workflow starts: open are  *)
(* exactly the steps that depend on nothing.                               *)
LEMMA OpenAtStart ==
    ASSUME steps \in Workflows, outputs = {}, ~ asked, NEW u
    PROVE  /\ Opened(u) <=> DependsOn(steps, u) = {}
           /\ Heard(u) = {}
<1>1. steps \in Seq(Steps) /\ WellFormed(steps)
  BY ValidPlan
<1>2. \A b \in Branches(steps) : ~ Side(b)
  BY DEF Side
<1>3. Heard(u) = {}
  BY <1>2 DEF Heard
<1>4. CASE IsSynthesis(steps, u)
  <2>1. DependsOn(steps, u) # {}
    BY <1>1, <1>4, BranchShape DEF IsSynthesis
  <2> QED
    BY <1>2, <1>3, <1>4, <2>1 DEF Opened, IsSynthesis
<1>5. CASE ~ IsSynthesis(steps, u)
  <2>1. \A b \in Branches(steps) : DependsOn(steps, b.review) = {b.source}
    BY <1>1, BranchShape
  <2>2. Plain(steps, u) = DependsOn(steps, u)
    BY <1>1, <1>5, PredsShape
  <2> QED
    BY <1>3, <1>5, <2>1, <2>2 DEF Opened, IsSynthesis, IsReview
<1> QED
  BY <1>4, <1>5

(* What a step waits for does not depend on triggers, joins and requests.  *)
LEMMA OpenUnchanged ==
    ASSUME UNCHANGED <<steps, outputs, asked>>, NEW u
    PROVE  (Opened(u)' <=> Opened(u)) /\ Heard(u)' = Heard(u)
BY DEF Opened, Heard, Side

(* An execution begins with nothing done.                                  *)
LEMMA GInvInit == GInit => GInv
<1> SUFFICES ASSUME GInit PROVE GInv
  OBVIOUS
<1>1. RuntimeTypeOK
  BY DEF GInit, RuntimeTypeOK
<1>2. Untouched /\ phase = "new" /\ refused = {} /\ ~ asked
  BY DEF GInit, Untouched
<1>3. \A t \in StepIds : requests[t] <= 1
  BY DEF GInit
<1> QED
  BY <1>1, <1>2, <1>3 DEF GInv

(* Only a step of the plan that is open and was never requested has a      *)
(* trigger, and the guard accepts what it is given.                        *)
LEMMA TriggeredIsOpen ==
    ASSUME GInv, phase = "running", NEW t \in StepIds, triggers[t] > 0
    PROVE  /\ t \in Ids(steps) /\ Opened(t)
           /\ requests[t] = 0 /\ triggers[t] = 1
           /\ t \notin running \cup outputs \cup failed
           /\ GuardAccepts(steps, t, DependencyOutputs(steps, t, outputs))
<1>1. RuntimeTypeOK /\ Counted /\ Answered
  BY DEF GInv
<1>2. requests[t] \in Nat /\ triggers[t] \in Nat
  BY <1>1 DEF RuntimeTypeOK
<1>3. t \in Ids(steps)
  BY <1>1, <1>2 DEF Counted
<1>4. Opened(t) /\ requests[t] = 0 /\ triggers[t] = 1
  BY <1>1, <1>2, <1>3 DEF Counted
<1> QED
  BY <1>1, <1>3, <1>4, OpenedIsAccepted DEF Answered

(* A request uses up the one trigger of its step, which is accepted.       *)
LEMMA StartStepKeeps ==
    ASSUME GInv, NEW t \in StepIds, StartStep(t)
    PROVE  GInv'
<1>1. RuntimeTypeOK /\ Counted /\ Answered /\ phase = "running"
  BY DEF GInv, StartStep
<1>2. /\ t \in Ids(steps) /\ Opened(t)
      /\ requests[t] = 0 /\ triggers[t] = 1
      /\ t \notin running \cup outputs \cup failed
      /\ GuardAccepts(steps, t, DependencyOutputs(steps, t, outputs))
  BY <1>1, TriggeredIsOpen DEF StartStep
<1>3. /\ triggers' = [triggers EXCEPT ![t] = @ - 1]
      /\ requests' = [requests EXCEPT ![t] = @ + 1]
      /\ running' = running \cup {t} /\ failed' = failed /\ refused' = refused
      /\ UNCHANGED <<steps, handlers, phase, arrived, outputs, asked>>
  BY <1>2 DEF StartStep
<1>4. triggers \in [StepIds -> Nat] /\ requests \in [StepIds -> Nat]
  BY <1>1 DEF RuntimeTypeOK
<1>5. /\ triggers' \in [StepIds -> Nat] /\ requests' \in [StepIds -> Nat]
      /\ \A u \in StepIds : requests'[u] + triggers'[u] = requests[u] + triggers[u]
      /\ \A u \in StepIds \ {t} : requests'[u] = requests[u] /\ triggers'[u] = triggers[u]
      /\ requests'[t] = 1
  BY <1>2, <1>3, <1>4
<1>6. RuntimeTypeOK'
  BY <1>1, <1>2, <1>3, <1>5 DEF RuntimeTypeOK
<1>7. Counted'
  <2>1. Ids(steps') = Ids(steps) /\ Ids(steps) \subseteq StepIds
    BY <1>1, <1>3, WorkflowFacts
  <2>2. ASSUME NEW u \in Ids(steps)
        PROVE  /\ requests'[u] + triggers'[u] = IF Opened(u)' THEN 1 ELSE 0
               /\ arrived'[u] = IF Joined(steps', u) /\ ~ Opened(u)' THEN Heard(u)' ELSE {}
    BY <1>1, <1>3, <1>5, <2>1, OpenUnchanged DEF Counted
  <2>3. ASSUME NEW u \in StepIds \ Ids(steps)
        PROVE  requests'[u] = 0 /\ triggers'[u] = 0 /\ arrived'[u] = {}
    BY <1>1, <1>2, <1>3, <1>5 DEF Counted
  <2> QED
    BY <2>1, <2>2, <2>3 DEF Counted
<1>8. Answered'
  BY <1>1, <1>2, <1>3, <1>5 DEF Answered
<1> QED
  BY <1>1, <1>3, <1>5, <1>6, <1>7, <1>8 DEF GInv

(* An answer triggers the steps it makes open and tells the joins of the   *)
(* others.                                                                 *)
LEMMA FinishStepKeeps ==
    ASSUME GInv, NEW t \in StepIds, NEW missing \in BOOLEAN, FinishStep(t, missing)
    PROVE  GInv'
<1> DEFINE followed == Followed(t, missing)
<1>1. /\ RuntimeTypeOK /\ Counted /\ Answered /\ phase = "running"
      /\ asked => \A b \in Branches(steps) : b.source \in outputs
  BY DEF GInv, FinishStep
<1>2. /\ triggers' = [u \in StepIds |-> triggers[u] + NewTriggers(u, followed)]
      /\ arrived' = [u \in StepIds |-> IF Joined(steps, u) /\ ~ Passed(u, followed)
                                         THEN Seen(u, followed) ELSE {}]
      /\ running' = running \ {t} /\ outputs' = outputs \cup {t}
      /\ asked' = (asked \/ missing) /\ t \in running
      /\ UNCHANGED <<steps, handlers, phase, requests, failed, refused>>
  BY DEF FinishStep
<1> HIDE DEF followed
<1>3. /\ steps \in Seq(Steps) /\ WellFormed(steps) /\ Ids(steps) \subseteq StepIds
      /\ steps \in Workflows /\ steps' \in Workflows
  BY <1>1, <1>2, WorkflowFacts DEF RuntimeTypeOK
<1>4. ASSUME NEW u \in Ids(steps)
      PROVE  /\ triggers'[u] \in Nat
             /\ requests[u] + triggers'[u] = IF Opened(u)' THEN 1 ELSE 0
             /\ arrived'[u] = IF Joined(steps, u) /\ ~ Opened(u)' THEN Heard(u)' ELSE {}
  <2>1. /\ triggers[u] + NewTriggers(u, followed) \in Nat
        /\ requests[u] + triggers[u] + NewTriggers(u, followed)
              = IF Opened(u)' THEN 1 ELSE 0
        /\ (IF Joined(steps, u) /\ ~ Passed(u, followed)
              THEN Seen(u, followed) ELSE {})
              = IF Joined(steps, u) /\ ~ Opened(u)' THEN Heard(u)' ELSE {}
    BY <1>1, AnswerTriggers DEF followed
  <2>2. /\ triggers'[u] = triggers[u] + NewTriggers(u, followed)
        /\ arrived'[u] = IF Joined(steps, u) /\ ~ Passed(u, followed)
                           THEN Seen(u, followed) ELSE {}
    BY <1>2, <1>3
  <2>3. requests[u] \in Nat /\ triggers[u] \in Nat
    BY <1>1, <1>3 DEF RuntimeTypeOK
  <2>4. requests[u] + triggers'[u] = IF Opened(u)' THEN 1 ELSE 0
    <3> DEFINE new == NewTriggers(u, followed)
               open == IF Opened(u)' THEN 1 ELSE 0
    <3>1. triggers[u] + new \in Nat /\ requests[u] + triggers[u] + new = open
      BY <2>1
    <3>2. triggers'[u] = triggers[u] + new
      BY <2>2
    <3>3. new \in {0, 1}
      <4>1. {e \in followed : e.to = u}
               = IF Hits(t, missing, u) THEN {Hop(steps, t, u)} ELSE {}
        BY <1>1, FollowedInto DEF followed
      <4> QED
        BY <4>1, FS_EmptySet, FS_Singleton DEF NewTriggers
    <3> HIDE DEF new, open
    <3> QED
      BY <2>3, <3>1, <3>2, <3>3 DEF open
  <2> QED
    BY <2>1, <2>2, <2>4
<1>5. ASSUME NEW u \in StepIds \ Ids(steps)
      PROVE  triggers'[u] = 0 /\ arrived'[u] = {} /\ requests[u] = 0
  <2>1. Preds(steps, u) = {} /\ ~ IsSynthesis(steps, u) /\ DependsOn(steps, u) = {}
    BY <1>3, PredsShape, BranchShape DEF IsSynthesis, Preds
  <2>2. ~ Joined(steps, u)
    BY <1>3, <2>1, OrdinaryJoin
  <2>3. {e \in followed : e.to = u} = {}
    BY <1>1, <2>1, FollowedInto DEF Hits, followed
  <2>4. NewTriggers(u, followed) = 0
    BY <2>2, <2>3, FS_EmptySet DEF NewTriggers
  <2> QED
    BY <1>1, <1>2, <2>2, <2>4 DEF Counted
<1>6. RuntimeTypeOK'
  <2>1. ASSUME NEW u \in StepIds PROVE arrived'[u] \subseteq Awaited(steps', u)
    <3>1. JoinsAgree'
      BY <1>3, HeardAllNext
    <3> QED
      BY <1>2, <1>4, <1>5, <3>1 DEF JoinsAgree
  <2>2. triggers' \in [StepIds -> Nat]
    <3>1. \A u \in StepIds : triggers'[u] \in Nat
      BY <1>4, <1>5
    <3> QED
      BY <1>2, <3>1
  <2> QED
    BY <1>1, <1>2, <2>1, <2>2 DEF RuntimeTypeOK
<1>7. Counted'
  BY <1>2, <1>4, <1>5 DEF Counted
<1>8. Answered'
  BY <1>1, <1>2 DEF Answered
<1>9. asked' => \A b \in Branches(steps') : b.source \in outputs'
  <2>1. \A b, c \in Branches(steps) : b = c
    BY <1>3, BranchShape
  <2> QED
    BY <1>1, <1>2, <2>1 DEF FinishStep
<1> QED
  BY <1>1, <1>2, <1>6, <1>7, <1>8, <1>9 DEF GInv

(* The workflow starts with a trigger for every step that depends on       *)
(* nothing.                                                                *)
LEMMA StartWorkflowKeeps ==
    ASSUME GInv, StartWorkflow
    PROVE  GInv'
<1>1. RuntimeTypeOK /\ Untouched /\ refused = {}
  BY DEF GInv, StartWorkflow
<1>2. /\ triggers' = [t \in StepIds |-> IF t \in Ids(steps) /\ DependsOn(steps, t) = {}
                                         THEN 1 ELSE 0]
      /\ phase' = "running"
      /\ UNCHANGED <<steps, handlers, arrived, requests, running, outputs, asked,
                     failed, refused>>
  BY DEF StartWorkflow
<1>3. steps \in Workflows /\ Ids(steps) \subseteq StepIds
  BY <1>1, WorkflowFacts DEF RuntimeTypeOK
<1>4. RuntimeTypeOK'
  <2>1. triggers' \in [StepIds -> Nat]
    BY <1>2
  <2> QED
    BY <1>1, <1>2, <2>1 DEF RuntimeTypeOK
<1>5. Counted'
  <2>1. ASSUME NEW u \in Ids(steps)
        PROVE  /\ requests'[u] + triggers'[u] = IF Opened(u)' THEN 1 ELSE 0
               /\ arrived'[u] = IF Joined(steps', u) /\ ~ Opened(u)' THEN Heard(u)' ELSE {}
    <3>1. (Opened(u) <=> DependsOn(steps, u) = {}) /\ Heard(u) = {}
      BY <1>1, <1>3, OpenAtStart DEF Untouched
    <3>2. (Opened(u)' <=> Opened(u)) /\ Heard(u)' = Heard(u)
      BY <1>2, OpenUnchanged
    <3>3. requests'[u] = 0 /\ arrived'[u] = {}
      BY <1>1, <1>2, <1>3 DEF Untouched
    <3>4. triggers'[u] = IF DependsOn(steps, u) = {} THEN 1 ELSE 0
      BY <1>2, <1>3
    <3> QED
      BY <3>1, <3>2, <3>3, <3>4
  <2>2. ASSUME NEW u \in StepIds \ Ids(steps)
        PROVE  requests'[u] = 0 /\ triggers'[u] = 0 /\ arrived'[u] = {}
    BY <1>1, <1>2 DEF Untouched
  <2> QED
    BY <1>2, <2>1, <2>2 DEF Counted
<1>6. Answered'
  BY <1>1, <1>2 DEF Answered, Untouched
<1>7. \A t \in StepIds : requests'[t] <= 1
  BY <1>1, <1>2 DEF Untouched
<1> QED
  BY <1>1, <1>2, <1>4, <1>5, <1>6, <1>7 DEF GInv, Untouched

(* Steps that leave triggers, joins, requests and outputs alone.           *)
LEMMA CountsUnchanged ==
    ASSUME GInv, UNCHANGED <<steps, triggers, arrived, requests, outputs, asked>>
    PROVE  Counted => Counted'
<1> SUFFICES ASSUME Counted PROVE Counted'
  OBVIOUS
<1>1. \A u : (Opened(u)' <=> Opened(u)) /\ Heard(u)' = Heard(u)
  BY OpenUnchanged
<1>2. Ids(steps') = Ids(steps) /\ \A u : Joined(steps', u) = Joined(steps, u)
  OBVIOUS
<1> QED
  BY <1>1, <1>2 DEF Counted

(* Every step of an execution keeps the invariant.                         *)
LEMMA GInvNext == GInv /\ [GNext]_gvars => GInv'
<1> SUFFICES ASSUME GInv, [GNext]_gvars PROVE GInv'
  OBVIOUS
<1>1. CASE MissingHandlers
  <2>1. {steps[i].id : i \in {j \in DOMAIN steps : steps[j].agent \in Unhandled}}
           \subseteq Ids(steps)
    BY DEF Ids
  <2>2. RuntimeTypeOK'
    BY <1>1, <2>1 DEF GInv, RuntimeTypeOK, MissingHandlers
  <2> QED
    BY <1>1, <2>2 DEF GInv, MissingHandlers
<1>2. CASE StartWorkflow
  BY <1>2, StartWorkflowKeeps
<1>3. CASE Abort
  <2>1. RuntimeTypeOK'
    BY <1>3 DEF GInv, RuntimeTypeOK, Abort
  <2> QED
    BY <1>3, <2>1 DEF GInv, Abort
<1>4. CASE Complete
  <2>1. RuntimeTypeOK' /\ Counted /\ Answered
    BY <1>4 DEF GInv, RuntimeTypeOK, Complete
  <2>2. Counted'
    BY <1>4, <2>1, CountsUnchanged DEF Complete
  <2>3. Answered'
    BY <1>4, <2>1 DEF Answered, Complete
  <2> QED
    BY <1>4, <2>1, <2>2, <2>3 DEF GInv, Complete
<1>5. ASSUME NEW t \in StepIds, StartStep(t) PROVE GInv'
  BY <1>5, StartStepKeeps
<1>6. ASSUME NEW t \in StepIds, FailStep(t) PROVE GInv'
  <2>1. RuntimeTypeOK' /\ Counted /\ Answered
    BY <1>6 DEF GInv, RuntimeTypeOK, FailStep
  <2>2. Counted'
    BY <1>6, <2>1, CountsUnchanged DEF FailStep
  <2>3. Answered'
    BY <1>6, <2>1 DEF Answered, FailStep
  <2> QED
    BY <1>6, <2>1, <2>2, <2>3 DEF GInv, FailStep
<1>7. ASSUME NEW t \in StepIds, NEW missing \in BOOLEAN, FinishStep(t, missing)
      PROVE  GInv'
  BY <1>7, FinishStepKeeps
<1>8. CASE UNCHANGED gvars
  <2>1. Counted => Counted'
    BY <1>8, CountsUnchanged DEF gvars
  <2> QED
    BY <1>8, <2>1 DEF gvars, GInv, RuntimeTypeOK, Untouched, Answered
<1> QED
  BY <1>1, <1>2, <1>3, <1>4, <1>5, <1>6, <1>7, <1>8 DEF GNext

(* The invariant holds throughout an execution.                            *)
LEMMA Invariance == GSpec => []GInv
<1> QED
  BY GInvInit, GInvNext, PTL DEF GSpec

(* Type correctness of an execution, for every valid plan and every set of *)
(* handlers.                                                               *)
THEOREM RuntimeTypesCorrect == GSpec => []RuntimeTypeOK
<1>1. GInv => RuntimeTypeOK
  BY DEF GInv
<1> QED
  BY <1>1, Invariance, PTL

(* The guard of request_context.py agrees with the graph of                *)
(* graph_runtime.py on every valid plan: it refuses no request.            *)
THEOREM GuardAlwaysAgrees == GSpec => []GuardNeverRefuses
<1>1. GInv => GuardNeverRefuses
  BY DEF GInv, GuardNeverRefuses
<1> QED
  BY <1>1, Invariance, PTL

(* No join, merge or route of the graph ever starts a step twice, whatever *)
(* the order in which specialists answer.                                  *)
THEOREM RequestedAtMostOnce == GSpec => []RequestedOnce
<1>1. GInv => RequestedOnce
  BY DEF GInv, RequestedOnce
<1> QED
  BY <1>1, Invariance, PTL

-----------------------------------------------------------------------------
(* Completion.                                                             *)

(* A step the execution should have run by now and has not.                *)
Blocked(t) == /\ t \in Ids(steps) \ outputs
              /\ IsReview(steps, t) => asked

(* Behind a blocked step is another: one it depends on, or the source its  *)
(* synthesis would go on with.                                             *)
LEMMA BlockedBehind ==
    ASSUME GInv, phase = "completed", OnlySynthesisAfterReview,
           NEW t, Blocked(t)
    PROVE  \/ \E d \in DependsOn(steps, t) : Blocked(d)
           \/ \E b \in Branches(steps) : t = b.synthesis /\ Blocked(b.source)
<1>1. /\ steps \in Seq(Steps) /\ WellFormed(steps)
      /\ Counted /\ Answered /\ Ids(steps) \subseteq StepIds
      /\ failed = {} /\ running = {} /\ \A u \in StepIds : triggers[u] = 0
  BY WorkflowFacts DEF GInv
<1>2. t \in Ids(steps) /\ requests[t] + triggers[t] = 0 /\ ~ Opened(t)
  <2>1. t \in Ids(steps) /\ t \notin running \cup outputs \cup failed
    BY <1>1 DEF Blocked
  <2>2. requests[t] \in Nat /\ ~ (requests[t] > 0) /\ triggers[t] = 0
    BY <1>1, <2>1 DEF Answered, GInv, RuntimeTypeOK
  <2> QED
    BY <1>1, <2>1, <2>2 DEF Counted
<1>3. CASE ~ Plain(steps, t) \subseteq outputs
  <2>1. PICK d \in Plain(steps, t) : d \notin outputs
    BY <1>3
  <2>2. d \in DependsOn(steps, t) /\ d \in Ids(steps)
    BY <1>1, <2>1, DependenciesAreSteps DEF Plain
  <2>3. ASSUME NEW b \in Branches(steps), d = b.review PROVE FALSE
    <3>1. PICK i \in DOMAIN steps : steps[i].id = t /\ d \in steps[i].deps
      BY <2>2 DEF DependsOn
    <3>2. t = b.synthesis
      BY <2>3, <3>1 DEF OnlySynthesisAfterReview
    <3>3. d \in Alternatives(steps, t)
      BY <1>1, <2>3, <3>2, PredsShape
    <3> QED
      BY <2>1, <3>3 DEF Plain
  <2> QED
    BY <2>1, <2>2, <2>3 DEF Blocked, IsReview
<1>4. CASE Plain(steps, t) \subseteq outputs
  <2>1. PICK b \in Branches(steps) : t = b.synthesis /\ ~ Side(b)
    BY <1>2, <1>4 DEF Blocked, Opened
  <2>2. /\ b.review \in DependsOn(steps, t) /\ b.review \in Ids(steps)
        /\ b.source \in Ids(steps) /\ b.source # b.review /\ Branches(steps) = {b}
    BY <1>1, <2>1, BranchShape
  <2>3. b.review \notin outputs
    BY <2>1 DEF Side
  <2>4. CASE asked
    BY <2>2, <2>3, <2>4 DEF Blocked
  <2>5. CASE ~ asked
    BY <2>1, <2>2, <2>5 DEF Blocked, Side, IsReview
  <2> QED
    BY <2>4, <2>5
<1> QED
  BY <1>3, <1>4

(* No set of steps holds for each of its members one that comes before it: *)
(* the dependencies have no cycle, even with the source of the review      *)
(* counted as one of its synthesis.                                        *)
LEMMA NoneBehind ==
    ASSUME steps \in Seq(Steps), WellFormed(steps), NEW S \in SUBSET Ids(steps),
           \A u \in S : \/ \E d \in DependsOn(steps, u) : d \in S
                       \/ \E b \in Branches(steps) : u = b.synthesis /\ b.source \in S
    PROVE  S = {}
<1>1. UniqueIds(steps) /\ Acyclic(steps)
  BY DEF WellFormed
<1>2. ASSUME NEW T \in SUBSET Ids(steps), T # {}
      PROVE  \E u \in T : DependsOn(steps, u) \cap T = {}
  <2>1. PICK i \in DOMAIN steps : steps[i].id \in T /\ steps[i].deps \cap T = {}
    BY <1>1, <1>2 DEF Acyclic
  <2> QED
    BY <1>1, <2>1, DependsOnDeps
<1> SUFFICES ASSUME S # {} PROVE FALSE
  OBVIOUS
<1>3. CASE \E b \in Branches(steps) : b.source \in S
  <2>1. PICK b \in Branches(steps) : b.source \in S
    BY <1>3
  <2>2. /\ b.review \in Ids(steps) /\ b.review \in DependsOn(steps, b.synthesis)
        /\ DependsOn(steps, b.review) = {b.source} /\ Branches(steps) = {b}
    BY <2>1, BranchShape
  <2>3. PICK u \in S \cup {b.review} : DependsOn(steps, u) \cap (S \cup {b.review}) = {}
    BY <1>2, <2>2
  <2>4. u # b.review
    BY <2>1, <2>2, <2>3
  <2> QED
    BY <2>2, <2>3, <2>4
<1>4. CASE ~ \E b \in Branches(steps) : b.source \in S
  <2>1. PICK u \in S : DependsOn(steps, u) \cap S = {}
    BY <1>2
  <2> QED
    BY <1>4, <2>1
<1> QED
  BY <1>3, <1>4

(* So none is blocked.                                                     *)
LEMMA NoneBlocked ==
    ASSUME GInv, phase = "completed", OnlySynthesisAfterReview, NEW t
    PROVE  ~ Blocked(t)
<1> DEFINE S == {u \in Ids(steps) : Blocked(u)}
<1>1. steps \in Seq(Steps) /\ WellFormed(steps)
  BY WorkflowFacts DEF GInv
<1>2. S \in SUBSET Ids(steps) /\ \A u : Blocked(u) <=> u \in S
  BY DEF Blocked
<1>3. \A u \in S : \/ \E d \in DependsOn(steps, u) : d \in S
                   \/ \E b \in Branches(steps) : u = b.synthesis /\ b.source \in S
  BY <1>2, BlockedBehind
<1> HIDE DEF S
<1>4. S = {}
  BY <1>1, <1>2, <1>3, NoneBehind
<1> QED
  BY <1>2, <1>4

(* When only the synthesis needs the review, an execution that reports     *)
(* completion has run every step, the review exactly when it was asked     *)
(* for: no plan, however large, is cut short unnoticed.                    *)
THEOREM CompletionIsAlwaysFull == GSpec => []CompletionIsFull
<1>1. GInv => CompletionIsFull
  <2> SUFFICES ASSUME GInv, OnlySynthesisAfterReview, phase = "completed",
                      NEW t \in Ids(steps)
               PROVE  requests[t] = IF IsReview(steps, t) /\ ~ asked THEN 0 ELSE 1
    BY DEF CompletionIsFull, CompletedRanAll, IsReview
  <2>1. /\ RuntimeTypeOK /\ Counted /\ Answered /\ Ids(steps) \subseteq StepIds
        /\ failed = {} /\ running = {} /\ \A u \in StepIds : triggers[u] = 0
    BY WorkflowFacts DEF GInv
  <2>2. requests[t] \in Nat /\ triggers[t] = 0 /\ (requests[t] > 0 <=> t \in outputs)
    BY <2>1 DEF RuntimeTypeOK, Answered
  <2>3. requests[t] + triggers[t] = IF Opened(t) THEN 1 ELSE 0
    BY <2>1 DEF Counted
  <2>4. requests[t] = IF t \in outputs THEN 1 ELSE 0
    BY <2>2, <2>3
  <2>5. t \in outputs => (IsReview(steps, t) => asked)
    BY <2>2, <2>3 DEF Opened
  <2>6. t \notin outputs => IsReview(steps, t) /\ ~ asked
    BY NoneBlocked DEF Blocked
  <2> QED
    BY <2>4, <2>5, <2>6
<1> QED
  BY <1>1, Invariance, PTL

-----------------------------------------------------------------------------
(* Refinement.                                                             *)

(* PlanRun reads dependencies and branches as GraphRuntime does.           *)
LEMMA SamePlan ==
    /\ Run!Ids(steps) = Ids(steps)
    /\ \A t : Run!DependsOn(steps, t) = DependsOn(steps, t)
    /\ Run!Branches(steps) = Branches(steps)
<1>1. Run!Ids(steps) = Ids(steps)
  BY DEF Run!Ids, Ids
<1>2. \A t : Run!DependsOn(steps, t) = DependsOn(steps, t)
  BY DEF Run!DependsOn, DependsOn
<1>3. \A S : Run!First(S) = First(S)
  BY DEF Run!First, First
<1>4. Run!SynthesisPositions(steps) = SynthesisPositions(steps)
  BY DEF Run!SynthesisPositions, SynthesisPositions
<1>5. \A D : Run!ReviewPositions(steps, D) = ReviewPositions(steps, D)
  <2>1. \A S : Run!Cardinality(S) = Cardinality(S)
    BY DEF Run!Cardinality, Cardinality
  <2> QED
    BY <2>1 DEF Run!ReviewPositions, ReviewPositions
<1>6. Run!Branches(steps) = Branches(steps)
  BY <1>3, <1>4, <1>5 DEF Run!Branches, Branches
<1> QED
  BY <1>1, <1>2, <1>6

(* An execution begins as PlanRun does.                                    *)
LEMMA RunInit == GInit => Run!RInit
BY DEF GInit, Run!RInit

(* A request is a step's beginning: what it needs has come.                *)
LEMMA StartIsBegin ==
    ASSUME GInv, NEW t \in StepIds, StartStep(t)
    PROVE  t \in Run!Ids(steps) /\ Run!RBegin(t)
<1>1. RuntimeTypeOK /\ Counted /\ Answered /\ phase = "running"
  BY DEF GInv, StartStep
<1>2. /\ t \in Ids(steps) /\ Opened(t) /\ requests[t] = 0
      /\ GuardAccepts(steps, t, DependencyOutputs(steps, t, outputs))
  BY <1>1, TriggeredIsOpen DEF StartStep
<1>3. /\ requests' = [requests EXCEPT ![t] = @ + 1]
      /\ UNCHANGED <<steps, phase, outputs, asked>>
  BY DEF StartStep
<1>4. {u \in StepIds : requests'[u] > 0} = {u \in StepIds : requests[u] > 0} \cup {t}
  BY <1>1, <1>2, <1>3 DEF RuntimeTypeOK
<1>5. t \notin {u \in StepIds : requests[u] > 0}
  BY <1>2
<1>6. Run!Ready(t)
  BY <1>1, <1>2, OpenedIsReady, SamePlan DEF Run!Ready
<1> QED
  BY <1>1, <1>2, <1>3, <1>4, <1>5, <1>6, SamePlan DEF Run!RBegin

(* An answer is a step's end.                                              *)
LEMMA FinishIsFinish ==
    ASSUME GInv, NEW t \in StepIds, NEW missing \in BOOLEAN, FinishStep(t, missing)
    PROVE  t \in Run!Ids(steps) /\ Run!RFinish(t)
<1>1. RuntimeTypeOK /\ Answered /\ phase = "running" /\ t \in running
  BY DEF GInv, FinishStep
<1>2. /\ t \in Ids(steps) /\ t \notin outputs /\ requests[t] > 0
  BY <1>1 DEF RuntimeTypeOK, Answered
<1>3. /\ outputs' = outputs \cup {t} /\ asked' = (asked \/ missing)
      /\ missing => \E b \in Branches(steps) : t = b.source
      /\ UNCHANGED <<steps, phase, requests>>
  BY DEF FinishStep
<1>4. asked \in BOOLEAN
  BY <1>1 DEF RuntimeTypeOK
<1>5. asked' \in IF \E b \in Run!Branches(steps) : t = b.source THEN BOOLEAN ELSE {asked}
  BY <1>3, <1>4, SamePlan
<1> QED
  BY <1>1, <1>2, <1>3, <1>5, SamePlan DEF Run!RFinish

(* Every step of an execution is one of PlanRun, or none.                  *)
LEMMA RunNext == GInv /\ [GNext]_gvars => [Run!RNext]_(Run!rvars)
<1> SUFFICES ASSUME GInv, [GNext]_gvars PROVE [Run!RNext]_(Run!rvars)
  OBVIOUS
<1>1. CASE MissingHandlers
  <2>1. Run!RClose
    BY <1>1 DEF MissingHandlers, Run!RClose
  <2> QED
    BY <2>1 DEF Run!RNext
<1>2. CASE StartWorkflow
  BY <1>2 DEF StartWorkflow, Run!rvars
<1>3. CASE Abort
  <2>1. Run!RClose
    BY <1>3 DEF Abort, Run!RClose
  <2> QED
    BY <2>1 DEF Run!RNext
<1>4. CASE Complete
  <2>1. Answered /\ running = {} /\ failed = {} /\ outputs \subseteq StepIds
    BY <1>4, WorkflowFacts DEF GInv, Complete
  <2>2. {t \in StepIds : requests[t] > 0} = outputs
    BY <2>1 DEF Answered
  <2>3. Run!RClose
    BY <1>4, <2>2 DEF Complete, Run!RClose
  <2> QED
    BY <2>3 DEF Run!RNext
<1>5. ASSUME NEW t \in StepIds, StartStep(t) PROVE Run!RNext
  BY <1>5, StartIsBegin DEF Run!RNext
<1>6. ASSUME NEW t \in StepIds, FailStep(t) PROVE UNCHANGED Run!rvars
  BY <1>6 DEF FailStep, Run!rvars
<1>7. ASSUME NEW t \in StepIds, NEW missing \in BOOLEAN, FinishStep(t, missing)
      PROVE  Run!RNext
  BY <1>7, FinishIsFinish DEF Run!RNext
<1>8. CASE UNCHANGED gvars
  BY <1>8 DEF gvars, Run!rvars
<1> QED
  BY <1>1, <1>2, <1>3, <1>4, <1>5, <1>6, <1>7, <1>8 DEF GNext

(* An execution on the graph keeps what PlanRun promises, for every valid  *)
(* plan: each step at most once and after its dependencies, the review     *)
(* only when asked for, and completion only when every begun step answered.*)
THEOREM ExecutionKeepsItsPromise == GSpec => ImplementsPlanRun
<1> QED
  BY RunInit, RunNext, Invariance, PTL DEF GSpec, ImplementsPlanRun, Run!RSpec

-----------------------------------------------------------------------------
(* The graph of graph_builder.py: the edges followed after as many rounds  *)
(* as there are edges.                                                     *)

(* The builder counts as the runtime does.                                 *)
LEMMA SameCardinality == \A S : Built!Cardinality(S) = Cardinality(S)
BY DEF Built!Cardinality, Cardinality

(* What the edges followed so far lead to.                                 *)
Round(edges, roots, said, stuck, F) ==
    Built!Followed(edges, roots \cup Built!Woken(edges, F), said, stuck)

(* A round never takes back what the round before followed.                *)
LEMMA RoundGrows ==
    ASSUME NEW edges, NEW roots, NEW said, NEW stuck, NEW F, NEW G, F \subseteq G
    PROVE  /\ Round(edges, roots, said, stuck, F) \subseteq
                 Round(edges, roots, said, stuck, G)
           /\ Round(edges, roots, said, stuck, F) \subseteq edges
<1>1. Built!Woken(edges, F) \subseteq Built!Woken(edges, G)
  BY DEF Built!Woken
<1> QED
  BY <1>1 DEF Round, Built!Followed

(* The rounds of the built graph are a function.                           *)
LEMMA RoundsExist ==
    ASSUME NEW edges, IsFiniteSet(edges), NEW roots, NEW said, NEW stuck
    PROVE  \E rounds :
              /\ Built!FollowedEdges(edges, roots, said, stuck) =
                    rounds[Cardinality(edges)]
              /\ rounds[0] = Round(edges, roots, said, stuck, {})
              /\ \A i \in 1..Cardinality(edges) :
                    rounds[i] = Round(edges, roots, said, stuck, rounds[i - 1])
<1> DEFINE n == Cardinality(edges)
           S == SUBSET edges
           s0 == Round(edges, roots, said, stuck, {})
           F == [x \in (1..n) \X S |-> Round(edges, roots, said, stuck, x[2])]
           m == Built!Cardinality(edges)
           Rounds(g) == g = [k \in 0..m |->
                           Built!Followed(edges,
                              roots \cup IF k = 0 THEN {} ELSE Built!Woken(edges, g[k - 1]),
                              said, stuck)]
<1>1. n \in Nat /\ m = n
  BY FS_CardinalityType, SameCardinality
<1>2. F \in [(1..n) \X S -> S] /\ s0 \in S
  BY RoundGrows
<1>3. PICK g \in [0..n -> S] : Iterates(g, n, s0, F)
  <2> HIDE DEF F, S, n, s0
  <2> QED
    BY <1>1, <1>2, RecursionExists
<1>4. ASSUME NEW j \in 1..n PROVE g[j] = Round(edges, roots, said, stuck, g[j - 1])
  <2>1. j - 1 \in 0..n
    BY <1>1
  <2>2. <<j, g[j - 1]>> \in (1..n) \X S
    BY <2>1
  <2> QED
    BY <1>3, <2>2 DEF Iterates
<1>5. g[0] = Built!Followed(edges, roots \cup {}, said, stuck)
  <2>1. Built!Woken(edges, {}) = {}
    BY DEF Built!Woken
  <2> QED
    BY <1>3, <2>1 DEF Iterates, Round
<1>6. Rounds(g)
  <2>1. ASSUME NEW k \in 0..n
        PROVE  g[k] = Built!Followed(edges,
                         roots \cup (IF k = 0 THEN {} ELSE Built!Woken(edges, g[k - 1])),
                         said, stuck)
    <3>1. CASE k = 0
      BY <1>5, <3>1
    <3>2. CASE k # 0
      BY <1>1, <1>4, <3>2 DEF Round
    <3> QED
      BY <3>1, <3>2
  <2> HIDE DEF m, n
  <2> QED
    BY <1>1, <1>3, <2>1
<1>7. Rounds(CHOOSE h : Rounds(h))
  BY <1>6
<1> DEFINE rounds == CHOOSE h : Rounds(h)
<1>8. Built!FollowedEdges(edges, roots, said, stuck) = rounds[m]
  BY DEF Built!FollowedEdges
<1> HIDE DEF rounds
<1>9. Rounds(rounds)
  BY <1>7 DEF rounds
<1>10. rounds[0] = s0
  <2>1. Built!Woken(edges, {}) = {}
    BY DEF Built!Woken
  <2> QED
    BY <1>1, <1>9, <2>1 DEF Round
<1>11. ASSUME NEW i \in 1..n
       PROVE  rounds[i] = Round(edges, roots, said, stuck, rounds[i - 1])
  <2>1. i \in 0..m /\ i # 0
    BY <1>1
  <2> HIDE DEF m, n
  <2> QED
    BY <1>9, <2>1 DEF Round
<1> QED
  BY <1>1, <1>8, <1>10, <1>11

(* As many rounds as there are edges suffice: every round that is not the  *)
(* last follows an edge no round followed before.                          *)
LEMMA FollowedSettles ==
    ASSUME NEW edges, IsFiniteSet(edges), NEW roots, NEW said, NEW stuck
    PROVE  LET F == Built!FollowedEdges(edges, roots, said, stuck)
           IN  F = Round(edges, roots, said, stuck, F)
<1> DEFINE n == Cardinality(edges)
           R(F) == Round(edges, roots, said, stuck, F)
<1>1. n \in Nat
  BY FS_CardinalityType
<1>2. PICK g :
         /\ Built!FollowedEdges(edges, roots, said, stuck) = g[n]
         /\ g[0] = R({})
         /\ \A i \in 1..n : g[i] = R(g[i - 1])
  BY RoundsExist
<1>3. \A F, G : F \subseteq G => R(F) \subseteq R(G)
  BY RoundGrows
<1>4. \A F : R(F) \subseteq edges
  BY RoundGrows
<1> HIDE DEF R
<1> DEFINE K == {i \in 0..n : /\ g[i] \subseteq edges
                              /\ g[i] \subseteq R(g[i])
                              /\ g[i] = R(g[i]) \/ i <= Cardinality(g[i])}
<1>5. ASSUME NEW F, F \subseteq edges
      PROVE  IsFiniteSet(F) /\ Cardinality(F) \in Nat /\ Cardinality(F) <= n
  BY <1>5, FS_Subset, FS_CardinalityType
<1>6. 0 \in K
  <2>1. g[0] \subseteq edges /\ g[0] \subseteq R(g[0])
    BY <1>2, <1>3, <1>4
  <2>2. 0 <= Cardinality(g[0])
    BY <1>5, <2>1
  <2> QED
    BY <1>1, <2>1, <2>2
<1>7. ASSUME NEW i \in 1..n, i - 1 \in K PROVE i \in K
  <2> DEFINE F == g[i - 1]
             G == g[i]
  <2>1. /\ G = R(F) /\ F \subseteq edges /\ F \subseteq R(F)
        /\ F = R(F) \/ i - 1 <= Cardinality(F)
    BY <1>2, <1>7
  <2> HIDE DEF F, G
  <2>2. G \subseteq edges /\ G \subseteq R(G)
    BY <1>3, <1>4, <2>1
  <2>3. CASE G = R(G)
    BY <1>1, <2>2, <2>3 DEF G
  <2>4. CASE G # R(G)
    <3>1. F # G /\ F \subseteq G
      BY <2>1, <2>4
    <3>2. i - 1 <= Cardinality(F)
      BY <2>1, <3>1
    <3>3. /\ Cardinality(F) <= Cardinality(G) /\ Cardinality(F) # Cardinality(G)
          /\ Cardinality(F) \in Nat /\ Cardinality(G) \in Nat
      BY <1>5, <2>1, <2>2, <3>1, FS_Subset
    <3>4. i <= Cardinality(G)
      BY <3>2, <3>3
    <3> QED
      BY <1>1, <2>2, <3>4 DEF G
  <2> QED
    BY <2>3, <2>4
<1>8. n \in K
  <2> HIDE DEF K
  <2> QED
    BY <1>1, <1>6, <1>7, UpTo
<1>9. CASE n <= Cardinality(g[n])
  <2>1. g[n] \subseteq edges /\ g[n] \subseteq R(g[n]) /\ R(g[n]) \subseteq edges
    BY <1>4, <1>8
  <2>2. Cardinality(g[n]) = n
    BY <1>5, <1>9, <2>1, <1>1
  <2>3. g[n] = edges
    BY <2>1, <2>2, FS_Subset
  <2> QED
    BY <1>2, <2>1, <2>3 DEF R
<1> QED
  BY <1>2, <1>8, <1>9 DEF R

-----------------------------------------------------------------------------
(* The plan the builder gets differs in the condition of the review.       *)
LEMMA ConditionedFields ==
    ASSUME steps \in Seq(Steps)
    PROVE  /\ DOMAIN Conditioned = DOMAIN steps
           /\ \A i \in DOMAIN steps :
                 /\ Conditioned[i].id = steps[i].id
                 /\ Conditioned[i].agent = steps[i].agent
                 /\ Conditioned[i].deps = steps[i].deps
                 /\ Conditioned[i].cond = IF IsReview(steps, steps[i].id)
                                            THEN MissingData ELSE Unconditional
<1>1. \A i \in DOMAIN steps : steps[i] \in Steps
  OBVIOUS
<1>2. \A t : t \in {b.review : b \in Branches(steps)} <=> IsReview(steps, t)
  BY DEF IsReview
<1>3. DOMAIN Conditioned = DOMAIN steps
  BY DEF Conditioned
<1>4. ASSUME NEW i \in DOMAIN steps
      PROVE  Conditioned[i] = [steps[i] EXCEPT !.cond = IF IsReview(steps, steps[i].id)
                                                          THEN MissingData ELSE "none"]
  BY <1>2 DEF Conditioned
<1> QED
  BY <1>1, <1>3, <1>4 DEF Steps, Unconditional

(* It has the same steps and the same branch: the condition marks the      *)
(* review the runtime finds without it.                                    *)
LEMMA SameBranches ==
    ASSUME steps \in Seq(Steps), WellFormed(steps)
    PROVE  /\ Built!Ids(Conditioned) = Ids(steps)
           /\ Built!Branches(Conditioned) = Branches(steps)
<1> DEFINE C == Conditioned
           i == First(SynthesisPositions(steps))
           j == First(ReviewPositions(steps, steps[i].deps))
<1>1. /\ DOMAIN C = DOMAIN steps
      /\ \A k \in DOMAIN steps :
            /\ C[k].id = steps[k].id
            /\ C[k].agent = steps[k].agent
            /\ C[k].deps = steps[k].deps
            /\ C[k].cond = IF IsReview(steps, steps[k].id) THEN MissingData ELSE Unconditional
  BY ConditionedFields
<1> HIDE DEF C
<1>2. Built!Ids(C) = Ids(steps)
  BY <1>1 DEF Built!Ids, Ids
<1>3. Built!HasSynthesis(C) <=> SynthesisPositions(steps) # {}
  BY <1>1 DEF Built!HasSynthesis, Built!AgentsOf, SynthesisPositions
<1>4. Built!Earliest({k \in DOMAIN C : C[k].agent = Synthesis}) = i
  <2>1. {k \in DOMAIN C : C[k].agent = Synthesis} = SynthesisPositions(steps)
    BY <1>1 DEF SynthesisPositions
  <2> QED
    BY <2>1 DEF Built!Earliest, First
<1>5. \A k : k \in Built!ReviewsBefore(C, i) <=>
                /\ k \in ReviewPositions(steps, C[i].deps)
                /\ IsReview(steps, steps[k].id)
  BY <1>1, SameCardinality
     DEF Built!ReviewsBefore, ReviewPositions, Built!MissingData, MissingData, Unconditional
<1>6. CASE Branches(steps) = {}
  <2>1. Built!ReviewsBefore(C, i) = {}
    BY <1>5, <1>6 DEF IsReview
  <2> HIDE DEF i
  <2> QED
    BY <1>2, <1>4, <1>6, <2>1 DEF Built!Branches, C
<1>7. CASE Branches(steps) # {}
  <2>1. PICK b \in Branches(steps) : TRUE
    BY <1>7
  <2>2. /\ Branches(steps) = {b} /\ DependsOn(steps, b.review) = {b.source}
        /\ UniqueIds(steps) /\ DOMAIN steps = 1..Len(steps) /\ Len(steps) \in Nat
    BY <2>1, BranchShape DEF WellFormed
  <2>3. /\ SynthesisPositions(steps) # {}
        /\ ReviewPositions(steps, steps[i].deps) # {}
        /\ Branches(steps) = {[source |-> s, review |-> steps[j].id,
                               synthesis |-> steps[i].id] : s \in steps[j].deps}
    BY <1>7 DEF Branches
  <2>4. i \in SynthesisPositions(steps)
    <3>1. SynthesisPositions(steps) \in SUBSET (1..Len(steps))
      BY <2>2 DEF SynthesisPositions
    <3> QED
      BY <2>2, <2>3, <3>1, LeastPosition
  <2>5. j \in ReviewPositions(steps, steps[i].deps)
    <3>1. ReviewPositions(steps, steps[i].deps) \in SUBSET (1..Len(steps))
      BY <2>2 DEF ReviewPositions
    <3> QED
      BY <2>2, <2>3, <3>1, LeastPosition
  <2> HIDE DEF i, j
  <2>6. i \in DOMAIN steps /\ j \in DOMAIN steps
    BY <2>4, <2>5 DEF SynthesisPositions, ReviewPositions
  <2>7. b.review = steps[j].id
    BY <2>2, <2>3
  <2>8. Built!ReviewsBefore(C, i) = {j}
    <3>1. ASSUME NEW k \in DOMAIN steps PROVE IsReview(steps, steps[k].id) <=> k = j
      BY <2>2, <2>6, <2>7 DEF IsReview, UniqueIds
    <3>2. C[i].deps = steps[i].deps
      BY <1>1, <2>6
    <3>3. \A k : k \in ReviewPositions(steps, steps[i].deps) => k \in DOMAIN steps
      BY DEF ReviewPositions
    <3> QED
      BY <1>5, <2>5, <3>1, <3>2, <3>3
  <2>9. Built!Earliest({j}) = j
    <3>1. j \in Nat
      BY <2>2, <2>6
    <3> QED
      BY <3>1 DEF Built!Earliest
  <2>10. Built!Branches(C) = {[source |-> s, review |-> C[j].id,
                               synthesis |-> C[i].id] : s \in C[j].deps}
    BY <1>3, <1>4, <2>3, <2>8, <2>9 DEF Built!Branches
  <2> QED
    BY <1>1, <1>2, <2>3, <2>6, <2>10 DEF C
<1> QED
  BY <1>6, <1>7

-----------------------------------------------------------------------------
(* The builder's edge from d to t.                                         *)
Link(d, t) == [from |-> d, to |-> t, cond |-> Route(steps, d, t)]

Links(W, t) == {Link(d, t) : d \in W}

(* A link is known by its ends.                                            *)
LEMMA LinkEnds ==
    ASSUME NEW d, NEW t
    PROVE  /\ Link(d, t).from = d
           /\ Link(d, t).to = t
           /\ Link(d, t).cond = Route(steps, d, t)
BY DEF Link

(* The builder's edges into a step: one link from every predecessor.       *)
LEMMA BuiltLinks ==
    ASSUME steps \in Seq(Steps), WellFormed(steps), NEW t
    PROVE  Built!EdgesInto(Built!GraphEdges(Conditioned), t) =
              Links(Preds(steps, t), t)
<1> DEFINE C == Conditioned
           edges == Built!GraphEdges(C)
<1>1. /\ DOMAIN C = DOMAIN steps
      /\ \A k \in DOMAIN steps :
            /\ C[k].id = steps[k].id
            /\ C[k].deps = steps[k].deps
            /\ C[k].cond = IF IsReview(steps, steps[k].id) THEN MissingData ELSE Unconditional
      /\ Built!Branches(C) = Branches(steps)
  BY ConditionedFields, SameBranches
<1>2. UniqueIds(steps)
  BY DEF WellFormed
<1>3. ASSUME NEW i \in DOMAIN steps, NEW d \in steps[i].deps
      PROVE  /\ Built!Condition(C, i, d) = Route(steps, d, steps[i].id)
             /\ d \in Preds(steps, steps[i].id)
  <2>1. d \in Preds(steps, steps[i].id)
    BY <1>2, DependsOnDeps DEF Preds
  <2>2. CASE IsReview(steps, steps[i].id)
    <3>1. \E b \in Branches(steps) : d = b.source /\ steps[i].id = b.review
      BY <2>1, <2>2, PredsShape DEF IsReview
    <3>2. ~ \E b \in Branches(steps) : d = b.source /\ steps[i].id = b.synthesis
      BY <2>2, PredsShape DEF IsReview
    <3> HIDE DEF C
    <3> QED
      BY <1>1, <2>1, <3>1, <3>2 DEF Built!Condition, Route, Built!MissingData, MissingData
  <2>3. CASE ~ IsReview(steps, steps[i].id)
    <3>1. C[i].cond = Unconditional
      BY <1>1, <2>3
    <3>2. ~ \E b \in Branches(steps) : d = b.source /\ steps[i].id = b.review
      BY <2>3 DEF IsReview
    <3> HIDE DEF C
    <3>3. Built!Condition(C, i, d) =
             IF \E b \in Branches(steps) : d = b.source /\ steps[i].id = b.synthesis
               THEN DefaultRoute ELSE Unconditional
      BY <1>1, <3>1, <3>2
         DEF Built!Condition, Built!DefaultRoute, DefaultRoute, Built!Unconditional,
             Unconditional
    <3> QED
      BY <2>1, <3>2, <3>3 DEF Route
  <2> QED
    BY <2>1, <2>2, <2>3
<1>4. ASSUME NEW b \in Branches(steps)
      PROVE  /\ Link(b.source, b.synthesis) =
                   [from |-> b.source, to |-> b.synthesis, cond |-> Built!DefaultRoute]
             /\ b.source \in Preds(steps, b.synthesis)
  <2>1. /\ b.source \in Sources(steps, b.synthesis)
        /\ b.source \in Preds(steps, b.synthesis)
        /\ ~ IsReview(steps, b.synthesis)
    BY PredsShape DEF Preds
  <2>2. Route(steps, b.source, b.synthesis) = DefaultRoute
    BY <2>1, Routes
  <2> QED
    BY <2>1, <2>2 DEF Link, Built!DefaultRoute, DefaultRoute
<1> DEFINE direct == UNION {{[from |-> d, to |-> C[i].id, cond |-> Built!Condition(C, i, d)] :
                                d \in C[i].deps} : i \in DOMAIN C}
           around == {[from |-> b.source, to |-> b.synthesis, cond |-> Built!DefaultRoute] :
                         b \in Built!Branches(C)}
<1>5. edges = direct \cup around
  BY DEF Built!GraphEdges
<1>6. ASSUME NEW e
      PROVE  e \in direct <=> \E i \in DOMAIN steps : \E d \in steps[i].deps :
                                  e = Link(d, steps[i].id)
  <2>1. e \in direct <=> \E i \in DOMAIN C : \E d \in C[i].deps :
           e = [from |-> d, to |-> C[i].id, cond |-> Built!Condition(C, i, d)]
    OBVIOUS
  <2> HIDE DEF direct, C
  <2> QED
    BY <1>1, <1>3, <2>1 DEF Link
<1>7. ASSUME NEW e
      PROVE  e \in around <=> \E b \in Branches(steps) : e = Link(b.source, b.synthesis)
  BY <1>1, <1>4
<1> HIDE DEF direct, around, edges
<1>8. ASSUME NEW e \in edges, e.to = t PROVE e \in Links(Preds(steps, t), t)
  <2>1. CASE e \in around
    <3>1. PICK b \in Branches(steps) : e = Link(b.source, b.synthesis)
      BY <1>7, <2>1
    <3>2. t = b.synthesis
      BY <1>8, <3>1, LinkEnds
    <3> QED
      BY <1>4, <3>1, <3>2 DEF Links
  <2>2. CASE e \in direct
    <3>1. PICK i \in DOMAIN steps : \E d \in steps[i].deps : e = Link(d, steps[i].id)
      BY <1>6, <2>2
    <3>2. PICK d \in steps[i].deps : e = Link(d, steps[i].id)
      BY <3>1
    <3> QED
      BY <1>3, <1>8, <3>2, LinkEnds DEF Links
  <2> QED
    BY <1>5, <1>8, <2>1, <2>2
<1>9. ASSUME NEW d \in Preds(steps, t) PROVE Link(d, t) \in edges
  <2>1. CASE d \in DependsOn(steps, t)
    <3>1. PICK i \in DOMAIN steps : steps[i].id = t /\ d \in steps[i].deps
      BY <2>1 DEF DependsOn
    <3> QED
      BY <1>5, <1>6, <3>1
  <2>2. CASE d \in Sources(steps, t)
    <3>1. PICK b \in Branches(steps) : d = b.source /\ t = b.synthesis
      BY <2>2 DEF Sources
    <3> QED
      BY <1>5, <1>7, <3>1
  <2> QED
    BY <1>9, <2>1, <2>2 DEF Preds
<1> QED
  BY <1>8, <1>9, LinkEnds DEF Built!EdgesInto, Links, edges

-----------------------------------------------------------------------------
(* One optional edge: it shares a join with the mandatory ones.            *)
LEMMA OneOption ==
    ASSUME NEW edges, NEW t, NEW e, NEW c,
           Built!Optional(edges, t) = {e}, Built!Decision(edges, e) = {c}
    PROVE  Built!OptionalGroups(edges, t) =
              IF Built!Mandatory(edges, t) # {} THEN {Built!EdgesInto(edges, t)} ELSE {}
<1>1. Built!Decisions(edges, t) = {c}
  BY DEF Built!Decisions
<1>2. Built!HangingOn(edges, t, c) = {e}
  BY DEF Built!HangingOn
<1>3. Built!NeedsJoin(edges, t) <=> Built!Mandatory(edges, t) # {}
  <2>1. {d.source : d \in {c}} = {c.source}
    OBVIOUS
  <2>2. Built!Cardinality({c.source}) = 1 /\ Built!Cardinality({e}) = 1
    BY SameCardinality, FS_Singleton
  <2>3. \A d \in Built!Decisions(edges, t) :
           Built!Cardinality(Built!HangingOn(edges, t, d)) = 1
    BY <1>1, <1>2, <2>2
  <2> QED
    BY <1>1, <2>1, <2>2, <2>3 DEF Built!NeedsJoin
<1>4. Built!Combinations(edges, t) = {{c}}
  <2>1. ASSUME NEW D \in SUBSET {c}
        PROVE  D \in Built!Combinations(edges, t) <=> D = {c}
    <3>1. D = {} \/ D = {c}
      OBVIOUS
    <3>2. {d.source : d \in {c}} # {d.source : d \in {}}
      OBVIOUS
    <3> QED
      BY <1>1, <3>1, <3>2 DEF Built!Combinations
  <2> QED
    BY <1>1, <2>1 DEF Built!Combinations
<1>5. UNION {Built!HangingOn(edges, t, d) : d \in {c}} = {e}
  BY <1>2
<1>6. Built!Mandatory(edges, t) \cup {e} = Built!EdgesInto(edges, t)
  BY DEF Built!Mandatory, Built!Optional
<1>7. {Built!Mandatory(edges, t) \cup UNION {Built!HangingOn(edges, t, d) : d \in D} :
           D \in {{c}}} = {Built!EdgesInto(edges, t)}
  BY <1>5, <1>6
<1> QED
  BY <1>3, <1>4, <1>7 DEF Built!OptionalGroups

(* Two optional edges on two routes of one step: each shares a join with   *)
(* the mandatory ones.                                                     *)
LEMMA TwoOptions ==
    ASSUME NEW edges, NEW t, NEW e, NEW f, NEW c, NEW d, c # d, c.source = d.source,
           Built!Optional(edges, t) = {e, f}, Built!Mandatory(edges, t) # {},
           Built!Decision(edges, e) = {c}, Built!Decision(edges, f) = {d}
    PROVE  Built!OptionalGroups(edges, t) = {Built!Mandatory(edges, t) \cup {e},
                                             Built!Mandatory(edges, t) \cup {f}}
<1>1. Built!Decisions(edges, t) = {c, d}
  BY DEF Built!Decisions
<1>2. Built!HangingOn(edges, t, c) = {e} /\ Built!HangingOn(edges, t, d) = {f}
  BY DEF Built!HangingOn
<1>3. Built!NeedsJoin(edges, t)
  BY DEF Built!NeedsJoin
<1>4. Built!Combinations(edges, t) = {{c}, {d}}
  <2>1. {x.source : x \in {c, d}} = {c.source}
    OBVIOUS
  <2>2. ASSUME NEW D \in SUBSET {c, d}
        PROVE  D \in Built!Combinations(edges, t) <=> D \in {{c}, {d}}
    <3>1. D = {} \/ D = {c} \/ D = {d} \/ D = {c, d}
      OBVIOUS
    <3>2. CASE D = {}
      BY <1>1, <2>1, <3>2 DEF Built!Combinations
    <3>3. CASE D = {c, d}
      BY <3>3 DEF Built!Combinations
    <3>4. CASE D = {c} \/ D = {d}
      <4>1. {x.source : x \in D} = {c.source}
        BY <3>4
      <4> QED
        BY <1>1, <2>1, <3>4, <4>1 DEF Built!Combinations
    <3> QED
      BY <3>1, <3>2, <3>3, <3>4
  <2> QED
    BY <1>1, <2>2 DEF Built!Combinations
<1>5. /\ UNION {Built!HangingOn(edges, t, x) : x \in {c}} = {e}
      /\ UNION {Built!HangingOn(edges, t, x) : x \in {d}} = {f}
  BY <1>2
<1>6. Built!OptionalGroups(edges, t) =
         {Built!Mandatory(edges, t) \cup UNION {Built!HangingOn(edges, t, x) : x \in D} :
             D \in {{c}, {d}}}
  BY <1>3, <1>4 DEF Built!OptionalGroups
<1> QED
  BY <1>5, <1>6

(* The conditional links into a step.                                      *)
LEMMA ConditionalLinks ==
    ASSUME steps \in Seq(Steps), WellFormed(steps), NEW t
    PROVE  LET before == {f \in Links(Preds(steps, t), t) : f.cond # Unconditional}
           IN  /\ \A b \in Branches(steps) :
                     t \in {b.review, b.synthesis} => before = {Link(b.source, t)}
               /\ ~ IsReview(steps, t) /\ ~ IsSynthesis(steps, t) => before = {}
<1> DEFINE before == {f \in Links(Preds(steps, t), t) : f.cond # Unconditional}
<1>1. \A d \in Preds(steps, t) :
         Link(d, t).cond = IF IsReview(steps, t) THEN MissingData
                           ELSE IF d \in Sources(steps, t) THEN DefaultRoute
                           ELSE Unconditional
  BY Routes, LinkEnds
<1>2. ASSUME NEW d \in Preds(steps, t)
      PROVE  Link(d, t) \in before <=> IsReview(steps, t) \/ d \in Sources(steps, t)
  BY <1>1, <1>2 DEF Links, MissingData, DefaultRoute, Unconditional
<1>3. \A f : f \in before => \E d \in Preds(steps, t) : f = Link(d, t)
  BY DEF Links
<1> HIDE DEF before
<1>4. ASSUME NEW b \in Branches(steps), t \in {b.review, b.synthesis}
      PROVE  before = {Link(b.source, t)}
  <2>1. b.source \in Preds(steps, t)
    BY <1>4, PredsShape
  <2>2. \A d \in Preds(steps, t) :
           IsReview(steps, t) \/ d \in Sources(steps, t) <=> d = b.source
    <3>1. CASE t = b.review
      BY <3>1, PredsShape DEF IsReview
    <3>2. CASE t = b.synthesis
      BY <3>2, PredsShape
    <3> QED
      BY <1>4, <3>1, <3>2
  <2> QED
    BY <1>2, <1>3, <2>1, <2>2
<1>5. ASSUME ~ IsReview(steps, t), ~ IsSynthesis(steps, t) PROVE before = {}
  BY <1>2, <1>3, <1>5, PredsShape
<1> QED
  BY <1>4, <1>5 DEF before

(* What a link hangs on: its own condition, that of the review it comes    *)
(* from, or that of the synthesis.                                         *)
LEMMA LinkDecision ==
    ASSUME steps \in Seq(Steps), WellFormed(steps), NEW t, NEW d \in Preds(steps, t)
    PROVE  LET hangs == Built!Decision(Built!GraphEdges(Conditioned), Link(d, t))
           IN  /\ IsReview(steps, t) \/ d \in Sources(steps, t) =>
                     hangs = {[source |-> d, route |-> Route(steps, d, t)]}
               /\ ~ IsReview(steps, t) /\ d \notin Sources(steps, t) =>
                     /\ \A b \in Branches(steps) :
                           /\ d = b.review =>
                                 hangs = {[source |-> b.source, route |-> MissingData]}
                           /\ d = b.synthesis =>
                                 hangs = {[source |-> b.source, route |-> DefaultRoute]}
                     /\ ~ IsReview(steps, d) /\ ~ IsSynthesis(steps, d) => hangs = {}
<1> DEFINE edges == Built!GraphEdges(Conditioned)
           hangs == Built!Decision(edges, Link(d, t))
           before == {f \in Links(Preds(steps, d), d) : f.cond # Unconditional}
<1>1. Route(steps, d, t) = IF IsReview(steps, t) THEN MissingData
                           ELSE IF d \in Sources(steps, t) THEN DefaultRoute
                           ELSE Unconditional
  BY Routes
<1>2. Link(d, t).from = d /\ Link(d, t).cond = Route(steps, d, t)
  BY LinkEnds
<1>3. before = {f \in Built!EdgesInto(edges, d) : f.cond # Unconditional}
  BY BuiltLinks
<1>4. /\ \A b \in Branches(steps) :
            d \in {b.review, b.synthesis} => before = {Link(b.source, d)}
      /\ ~ IsReview(steps, d) /\ ~ IsSynthesis(steps, d) => before = {}
  BY ConditionalLinks
<1> HIDE DEF edges, before
<1>5. hangs = IF Route(steps, d, t) # Unconditional
                THEN {[source |-> d, route |-> Route(steps, d, t)]}
                ELSE {[source |-> f.from, route |-> f.cond] :
                         f \in {g \in before : Cardinality(before) = 1}}
  BY <1>2, <1>3, SameCardinality DEF Built!Decision, Built!Unconditional, Unconditional
<1> HIDE DEF hangs
<1>6. ASSUME IsReview(steps, t) \/ d \in Sources(steps, t)
      PROVE  hangs = {[source |-> d, route |-> Route(steps, d, t)]}
  BY <1>1, <1>5, <1>6 DEF MissingData, DefaultRoute, Unconditional
<1>7. ASSUME ~ IsReview(steps, t), d \notin Sources(steps, t)
      PROVE  hangs = {[source |-> f.from, route |-> f.cond] :
                         f \in {g \in before : Cardinality(before) = 1}}
  BY <1>1, <1>5, <1>7
<1>8. ASSUME ~ IsReview(steps, t), d \notin Sources(steps, t),
             NEW b \in Branches(steps), d \in {b.review, b.synthesis}
      PROVE  hangs = {[source |-> b.source, route |-> Route(steps, b.source, d)]}
  <2>1. before = {Link(b.source, d)} /\ Cardinality({Link(b.source, d)}) = 1
    BY <1>4, <1>8, FS_Singleton
  <2>2. {g \in before : Cardinality(before) = 1} = {Link(b.source, d)}
    BY <2>1
  <2> QED
    BY <1>7, <1>8, <2>2, LinkEnds
<1>9. ASSUME NEW b \in Branches(steps)
      PROVE  /\ Route(steps, b.source, b.review) = MissingData
             /\ Route(steps, b.source, b.synthesis) = DefaultRoute
  <2>1. b.source \in Preds(steps, b.review) /\ b.source \in Preds(steps, b.synthesis)
    BY PredsShape
  <2>2. ~ IsReview(steps, b.synthesis) /\ b.source \in Sources(steps, b.synthesis)
    BY PredsShape
  <2> QED
    BY <2>1, <2>2, Routes DEF IsReview
<1>10. ~ IsReview(steps, t) /\ d \notin Sources(steps, t) =>
          (~ IsReview(steps, d) /\ ~ IsSynthesis(steps, d) => hangs = {})
  BY <1>4, <1>7
<1> QED
  BY <1>6, <1>8, <1>9, <1>10 DEF hangs, edges

-----------------------------------------------------------------------------
Several(W) == \E x, y \in W : x # y

(* The sets of predecessors that start a step when all of a set have       *)
(* finished and sent it on: for the synthesis of a branch, what it depends *)
(* on with one of the two alternatives.                                    *)
Ways(t) == IF IsSynthesis(steps, t)
             THEN {Plain(steps, t) \cup {s} : s \in Alternatives(steps, t)}
             ELSE {W \in {Preds(steps, t)} : W # {}}

(* Two things are two.                                                     *)
LEMMA PairCount ==
    ASSUME NEW e, NEW f, e # f
    PROVE  Cardinality({e, f}) = 2
<1>1. Cardinality({e}) = 1 /\ IsFiniteSet({e})
  BY FS_Singleton
<1>2. Cardinality({e} \cup {f}) = Cardinality({e}) + 1
  BY <1>1, FS_AddElement
<1>3. {e} \cup {f} = {e, f}
  OBVIOUS
<1> QED
  BY <1>1, <1>2, <1>3

(* There are as many links as predecessors.                                *)
LEMMA LinksSeveral ==
    ASSUME steps \in Seq(Steps), NEW t, NEW W, W \subseteq Ids(steps)
    PROVE  /\ IsFiniteSet(Links(W, t))
           /\ Cardinality(Links(W, t)) > 1 <=> Several(W)
           /\ \A d : Link(d, t) \in Links(W, t) <=> d \in W
           /\ \A e : e \in Links(W, t) <=> \E d \in W : e = Link(d, t)
<1>1. IsFiniteSet(W)
  BY FiniteIds, FS_Subset
<1> DEFINE f == [d \in W |-> Link(d, t)]
<1>2. f \in Surjection(W, Links(W, t))
  BY DEF Surjection, Links
<1>3. IsFiniteSet(Links(W, t))
  BY <1>1, <1>2, FS_Surjection
<1>4. \A x, y : Link(x, t) = Link(y, t) <=> x = y
  BY LinkEnds
<1>5. \A e : e \in Links(W, t) <=> \E d \in W : e = Link(d, t)
  BY DEF Links
<1>6. Cardinality(Links(W, t)) > 1 <=> \E e, g \in Links(W, t) : e # g
  BY <1>3, SeveralMembers
<1>7. (\E e, g \in Links(W, t) : e # g) => Several(W)
  BY <1>5 DEF Several
<1>8. ASSUME Several(W) PROVE \E e, g \in Links(W, t) : e # g
  <2>1. PICK x \in W, y \in W : x # y
    BY <1>8 DEF Several
  <2>2. Link(x, t) \in Links(W, t) /\ Link(y, t) \in Links(W, t)
    BY <1>5
  <2> QED
    BY <1>4, <2>1, <2>2
<1> QED
  BY <1>3, <1>4, <1>5, <1>6, <1>7, <1>8

(* The groups the builder forms in front of a step that is no synthesis of *)
(* a branch: all edges into it, if there are several.                      *)
LEMMA OrdinaryGroups ==
    ASSUME steps \in Seq(Steps), WellFormed(steps), OnlySynthesisAfterReview,
           NEW t, ~ IsSynthesis(steps, t)
    PROVE  Built!Groups(Conditioned, Built!GraphEdges(Conditioned), t) =
              IF Several(Preds(steps, t)) THEN {Links(Preds(steps, t), t)} ELSE {}
<1> DEFINE edges == Built!GraphEdges(Conditioned)
           P == Preds(steps, t)
           G == Built!Groups(Conditioned, edges, t)
<1> SUFFICES G = IF Several(P) THEN {Links(P, t)} ELSE {}
  OBVIOUS
<1>1. Built!EdgesInto(edges, t) = Links(P, t)
  BY BuiltLinks
<1>2. ~ Built!IsBranchTarget(Conditioned, t)
  BY SameBranches DEF Built!IsBranchTarget, IsSynthesis
<1>3. /\ P = DependsOn(steps, t) /\ Sources(steps, t) = {} /\ P \subseteq Ids(steps)
  BY PredsShape
<1>4. /\ Cardinality(Links(P, t)) > 1 <=> Several(P)
      /\ \A d : Link(d, t) \in Links(P, t) <=> d \in P
      /\ \A e : e \in Links(P, t) <=> \E d \in P : e = Link(d, t)
  BY <1>3, LinksSeveral
<1>5. ASSUME NEW d \in P
      PROVE  LET hangs == Built!Decision(edges, Link(d, t))
             IN  /\ IsReview(steps, t) =>
                       hangs = {[source |-> d, route |-> Route(steps, d, t)]}
                 /\ ~ IsReview(steps, t) =>
                       /\ \A b \in Branches(steps) : d = b.synthesis =>
                             hangs = {[source |-> b.source, route |-> DefaultRoute]}
                       /\ ~ IsReview(steps, d) /\ ~ IsSynthesis(steps, d) => hangs = {}
  BY <1>3, <1>5, LinkDecision
<1> HIDE DEF edges
<1>6. Built!Optional(edges, t) = {e \in Links(P, t) : Built!Decision(edges, e) # {}}
  BY <1>1 DEF Built!Optional
<1>7. ASSUME NEW d \in P, NEW c, Built!Decision(edges, Link(d, t)) = {c},
             \A x \in P : x # d => Built!Decision(edges, Link(x, t)) = {}
      PROVE  G = IF Several(P) THEN {Links(P, t)} ELSE {}
  <2>1. Built!Optional(edges, t) = {Link(d, t)}
    BY <1>4, <1>6, <1>7
  <2>2. Built!OptionalGroups(edges, t) =
           IF Built!Mandatory(edges, t) # {} THEN {Built!EdgesInto(edges, t)} ELSE {}
    BY <1>7, <2>1, OneOption
  <2>3. Built!Mandatory(edges, t) = Links(P, t) \ {Link(d, t)}
    BY <1>1, <2>1 DEF Built!Mandatory
  <2>4. Built!Mandatory(edges, t) # {} <=> Several(P)
    <3>1. ASSUME NEW x \in P, x # d PROVE Link(x, t) \in Links(P, t) \ {Link(d, t)}
      BY <1>4, <3>1, LinkEnds
    <3>2. ASSUME NEW e \in Links(P, t) \ {Link(d, t)} PROVE \E x \in P : x # d
      BY <1>4
    <3> QED
      BY <2>3, <3>1, <3>2 DEF Several
  <2>5. G = Built!OptionalGroups(edges, t)
    BY <1>2, <2>1 DEF Built!Groups
  <2> QED
    BY <1>1, <2>2, <2>4, <2>5
<1>8. CASE IsReview(steps, t)
  <2>1. PICK b \in Branches(steps) : P = {b.source}
    BY <1>8, PredsShape DEF IsReview
  <2>2. b.source \in P /\ \A x \in P : x = b.source
    BY <2>1
  <2>3. Built!Decision(edges, Link(b.source, t)) =
           {[source |-> b.source, route |-> Route(steps, b.source, t)]}
    BY <1>5, <1>8, <2>2
  <2> HIDE DEF G
  <2> QED
    BY <1>7, <2>2, <2>3
<1>9. CASE ~ IsReview(steps, t) /\ \E b \in Branches(steps) : b.synthesis \in P
  <2>1. PICK b \in Branches(steps) : b.synthesis \in P
    BY <1>9
  <2>2. Branches(steps) = {b}
    BY BranchShape
  <2>3. b.review \notin P
    <3>1. b.review \in DependsOn(steps, t) => t = b.synthesis
      BY DEF DependsOn, OnlySynthesisAfterReview
    <3> QED
      BY <1>3, <3>1 DEF IsSynthesis
  <2>4. \A x \in P : x # b.synthesis => Built!Decision(edges, Link(x, t)) = {}
    BY <1>5, <1>9, <2>2, <2>3 DEF IsReview, IsSynthesis
  <2>5. Built!Decision(edges, Link(b.synthesis, t)) =
           {[source |-> b.source, route |-> DefaultRoute]}
    BY <1>5, <1>9, <2>1
  <2> HIDE DEF G
  <2> QED
    BY <1>7, <2>1, <2>4, <2>5
<1>10. CASE ~ IsReview(steps, t) /\ ~ \E b \in Branches(steps) : b.synthesis \in P
  <2>1. \A b \in Branches(steps) : b.review \notin P
    <3>1. ASSUME NEW b \in Branches(steps), b.review \in DependsOn(steps, t)
          PROVE  t = b.synthesis
      BY <3>1 DEF DependsOn, OnlySynthesisAfterReview
    <3> QED
      BY <1>3, <3>1 DEF IsSynthesis
  <2>2. \A x \in P : Built!Decision(edges, Link(x, t)) = {}
    BY <1>5, <1>10, <2>1 DEF IsReview, IsSynthesis
  <2>3. Built!Optional(edges, t) = {}
    BY <1>4, <1>6, <2>2
  <2>4. G = {g \in {Links(P, t)} : Cardinality(g) > 1}
    BY <1>1, <1>2, <2>3, SameCardinality DEF Built!Groups
  <2>5. CASE Several(P)
    BY <1>4, <2>4, <2>5
  <2>6. CASE ~ Several(P)
    BY <1>4, <2>4, <2>6
  <2> QED
    BY <2>5, <2>6
<1> QED
  BY <1>8, <1>9, <1>10

(* In front of the synthesis of a branch: what it depends on, once with    *)
(* each alternative, if there is more than the alternatives.               *)
LEMMA SynthesisGroups ==
    ASSUME steps \in Seq(Steps), WellFormed(steps), NEW b \in Branches(steps)
    PROVE  LET t == b.synthesis
           IN  Built!Groups(Conditioned, Built!GraphEdges(Conditioned), t) =
                  IF Plain(steps, t) # {}
                    THEN {Links(Plain(steps, t) \cup {b.source}, t),
                          Links(Plain(steps, t) \cup {b.review}, t)}
                    ELSE {}
<1> DEFINE t == b.synthesis
           edges == Built!GraphEdges(Conditioned)
           P == Preds(steps, t)
           Q == Plain(steps, t)
           G == Built!Groups(Conditioned, edges, t)
           e == Link(b.source, t)
           f == Link(b.review, t)
<1>1. Built!EdgesInto(edges, t) = Links(P, t)
  BY BuiltLinks
<1>2. Built!IsBranchTarget(Conditioned, t)
  BY SameBranches DEF Built!IsBranchTarget
<1>3. /\ P = Q \cup {b.source, b.review} /\ P \subseteq Ids(steps)
      /\ Sources(steps, t) = {b.source} /\ ~ IsReview(steps, t) /\ t \notin P
      /\ b.source \notin Q /\ b.review \notin Q
      /\ b.source # b.review /\ Branches(steps) = {b}
  BY PredsShape, BranchShape DEF Plain
<1>4. /\ IsFiniteSet(Links(P, t))
      /\ \A d : Link(d, t) \in Links(P, t) <=> d \in P
      /\ \A g : g \in Links(P, t) <=> \E d \in P : g = Link(d, t)
  BY <1>3, LinksSeveral
<1>5. /\ Built!Decision(edges, e) = {[source |-> b.source, route |-> DefaultRoute]}
      /\ Built!Decision(edges, f) = {[source |-> b.source, route |-> MissingData]}
      /\ \A d \in Q : Built!Decision(edges, Link(d, t)) = {}
  <2>1. Route(steps, b.source, t) = DefaultRoute
    BY <1>3, Routes
  <2>2. \A d \in Q : ~ IsReview(steps, d) /\ ~ IsSynthesis(steps, d)
    BY <1>3 DEF IsReview, IsSynthesis
  <2> QED
    BY <1>3, <2>1, <2>2, LinkDecision
<1> HIDE DEF edges
<1>6. Built!Optional(edges, t) = {e, f}
  <2>1. \A d \in P : Built!Decision(edges, Link(d, t)) # {} <=> d \in {b.source, b.review}
    BY <1>3, <1>5
  <2>2. Built!Optional(edges, t) = {g \in Links(P, t) : Built!Decision(edges, g) # {}}
    BY <1>1 DEF Built!Optional
  <2>3. e \in Links(P, t) /\ f \in Links(P, t)
    BY <1>3, <1>4
  <2> QED
    BY <1>3, <1>4, <2>1, <2>2, <2>3
<1>7. Built!Mandatory(edges, t) = Links(Q, t)
  <2>1. Built!Mandatory(edges, t) = Links(P, t) \ {e, f}
    BY <1>1, <1>6 DEF Built!Mandatory
  <2>2. \A x, y : Link(x, t) = Link(y, t) <=> x = y
    BY LinkEnds
  <2> QED
    BY <1>3, <2>1, <2>2 DEF Links
<1>8. e # f
  BY <1>3, LinkEnds
<1>9. CASE Q = {}
  <2>1. Links(P, t) = {e, f}
    BY <1>3, <1>4, <1>9
  <2>2. Cardinality({e, f}) <= 2
    <3>1. Cardinality({e, f}) = 2
      BY <1>8, PairCount
    <3> QED
      BY <3>1
  <2>3. G = {}
    BY <1>1, <1>2, <2>1, <2>2, SameCardinality DEF Built!Groups
  <2> QED
    BY <1>9, <2>3 DEF edges
<1>10. CASE Q # {}
  <2>1. ~ Cardinality(Links(P, t)) <= 2
    <3>1. PICK d \in Q : TRUE
      BY <1>10
    <3>2. Link(d, t) \in Links(P, t) /\ Link(d, t) # e /\ Link(d, t) # f
      <4>1. d \in P /\ d # b.source /\ d # b.review
        BY <1>3, <3>1
      <4> QED
        BY <1>4, <4>1, LinkEnds
    <3>3. {e, f} \subseteq Links(P, t) /\ {e, f} # Links(P, t)
      BY <1>3, <1>4, <3>2
    <3>4. Cardinality({e, f}) = 2
      BY <1>8, PairCount
    <3>5. /\ Cardinality({e, f}) <= Cardinality(Links(P, t))
          /\ Cardinality({e, f}) # Cardinality(Links(P, t))
          /\ Cardinality(Links(P, t)) \in Nat
      BY <1>4, <3>3, FS_Subset, FS_CardinalityType
    <3> QED
      BY <3>4, <3>5
  <2>2. G = Built!OptionalGroups(edges, t)
    BY <1>1, <1>2, <2>1, SameCardinality DEF Built!Groups
  <2>3. Links(Q, t) # {}
    BY <1>10 DEF Links
  <2>4. DefaultRoute # MissingData
    BY DEF MissingData, DefaultRoute
  <2>5. Built!OptionalGroups(edges, t) = {Links(Q, t) \cup {e}, Links(Q, t) \cup {f}}
    <3> DEFINE c == [source |-> b.source, route |-> DefaultRoute]
               d == [source |-> b.source, route |-> MissingData]
    <3>1. Built!Decision(edges, e) = {c} /\ Built!Decision(edges, f) = {d}
      BY <1>5
    <3>2. Built!Mandatory(edges, t) # {}
      BY <1>7, <2>3
    <3>3. c # d /\ c.source = d.source
      BY <2>4
    <3> HIDE DEF c, d, e, f, t, Q
    <3> QED
      BY <1>6, <1>7, <3>1, <3>2, <3>3, TwoOptions
  <2>6. /\ Links(Q, t) \cup {e} = Links(Q \cup {b.source}, t)
        /\ Links(Q, t) \cup {f} = Links(Q \cup {b.review}, t)
    BY DEF Links
  <2> QED
    BY <1>10, <2>2, <2>5, <2>6 DEF edges
<1> QED
  BY <1>9, <1>10

-----------------------------------------------------------------------------
(* The nodes and edges in front of a step on one of its ways: the          *)
(* predecessor's own edge, or a join of several with its gates.            *)
WayJoin(t, W)    == Built!Join(t, Links(W, t))
WayGate(t, W, d) == Built!Gate(t, Links(W, t), Link(d, t))

Entry(t, W, d) == IF Route(steps, d, t) = Unconditional
                    THEN Built!Edge(Built!Node(d), WayJoin(t, W), Unconditional)
                    ELSE Built!Edge(WayGate(t, W, d), WayJoin(t, W), Unconditional)

ToGate(t, W, d) == Built!Edge(Built!Node(d), WayGate(t, W, d), Route(steps, d, t))

Direct(t, d) == Built!Edge(Built!Node(d), Built!Node(t), Route(steps, d, t))

LastEdge(t, W) == IF Several(W)
                    THEN Built!Edge(WayJoin(t, W), Built!Node(t), Unconditional)
                    ELSE Direct(t, CHOOSE d \in W : TRUE)

WayEdges(t, W) ==
    {LastEdge(t, W)}
    \cup (IF Several(W)
            THEN {Entry(t, W, d) : d \in W}
                 \cup {ToGate(t, W, d) : d \in {x \in W : Route(steps, x, t) # Unconditional}}
            ELSE {})

BuiltGraph == Built!RuntimeEdges(Conditioned)

(* The ways into a step start at its predecessors, and every predecessor   *)
(* is on one.                                                              *)
LEMMA WaysShape ==
    ASSUME steps \in Seq(Steps), WellFormed(steps), NEW t
    PROVE  /\ \A W \in Ways(t) : W \subseteq Preds(steps, t) /\ W \subseteq Ids(steps) /\ W # {}
           /\ \A d \in Preds(steps, t) : \E W \in Ways(t) : d \in W
           /\ \A W \in Ways(t) : ~ Several(W) => \E d \in Preds(steps, t) : W = {d}
           /\ \A b \in Branches(steps) : t = b.synthesis =>
                 /\ Ways(t) = {Plain(steps, t) \cup {b.source}, Plain(steps, t) \cup {b.review}}
                 /\ \A W \in Ways(t) : Several(W) <=> Plain(steps, t) # {}
           /\ ~ IsSynthesis(steps, t) =>
                 Ways(t) = IF Preds(steps, t) = {} THEN {} ELSE {Preds(steps, t)}
<1>1. ASSUME NEW b \in Branches(steps), t = b.synthesis
      PROVE  /\ Ways(t) = {Plain(steps, t) \cup {b.source}, Plain(steps, t) \cup {b.review}}
             /\ \A W \in Ways(t) : Several(W) <=> Plain(steps, t) # {}
             /\ Preds(steps, t) = Plain(steps, t) \cup {b.source, b.review}
  <2>1. /\ Alternatives(steps, t) = {b.source, b.review}
        /\ Preds(steps, t) = Plain(steps, t) \cup {b.source, b.review}
        /\ IsSynthesis(steps, t)
        /\ b.source \notin Plain(steps, t) /\ b.review \notin Plain(steps, t)
    BY <1>1, PredsShape DEF IsSynthesis, Plain
  <2>2. Ways(t) = {Plain(steps, t) \cup {s} : s \in {b.source, b.review}}
    BY <2>1 DEF Ways
  <2>3. ASSUME NEW s, s \notin Plain(steps, t)
        PROVE  Several(Plain(steps, t) \cup {s}) <=> Plain(steps, t) # {}
    BY <2>3 DEF Several
  <2> QED
    BY <2>1, <2>2, <2>3
<1>2. ASSUME ~ IsSynthesis(steps, t)
      PROVE  Ways(t) = IF Preds(steps, t) = {} THEN {} ELSE {Preds(steps, t)}
  BY <1>2 DEF Ways
<1>3. Preds(steps, t) \subseteq Ids(steps)
  BY PredsShape
<1>4. /\ \A W \in Ways(t) : W \subseteq Preds(steps, t) /\ W # {}
      /\ \A d \in Preds(steps, t) : \E W \in Ways(t) : d \in W
  <2>1. CASE IsSynthesis(steps, t)
    <3>1. PICK b \in Branches(steps) : t = b.synthesis
      BY <2>1 DEF IsSynthesis
    <3> DEFINE A == Plain(steps, t) \cup {b.source}
               B == Plain(steps, t) \cup {b.review}
    <3>2. Ways(t) = {A, B}
      BY <1>1, <3>1
    <3>3. Preds(steps, t) = A \cup B /\ A # {} /\ B # {}
      BY <1>1, <3>1
    <3> HIDE DEF A, B
    <3> QED
      BY <3>2, <3>3
  <2>2. CASE ~ IsSynthesis(steps, t)
    BY <1>2, <2>2
  <2> QED
    BY <2>1, <2>2
<1>5. ASSUME NEW W \in Ways(t), ~ Several(W)
      PROVE  \E d \in Preds(steps, t) : W = {d}
  <2>1. PICK d \in W : TRUE
    BY <1>4
  <2>2. W = {d}
    BY <1>5, <2>1 DEF Several
  <2> QED
    BY <1>4, <2>2
<1> QED
  BY <1>1, <1>2, <1>3, <1>4, <1>5

(* A group of links becomes the edges of a way.                            *)
LEMMA GroupIsWay ==
    ASSUME steps \in Seq(Steps), NEW t, NEW W, W \subseteq Ids(steps), Several(W)
    PROVE  Built!GroupEdges(t, Links(W, t)) = WayEdges(t, W)
<1> DEFINE g == Links(W, t)
           Part(e) == IF e.cond # Built!Unconditional /\ Built!Cardinality(g) > 1
                        THEN {Built!Edge(Built!Node(e.from), Built!Gate(t, g, e), e.cond),
                              Built!Edge(Built!Gate(t, g, e), Built!Join(t, g),
                                         Built!Unconditional)}
                        ELSE {Built!Edge(Built!Node(e.from), Built!Join(t, g), e.cond)}
<1>1. Cardinality(g) > 1
  BY LinksSeveral
<1>2. ASSUME NEW d
      PROVE  Part(Link(d, t)) = IF Route(steps, d, t) = Unconditional
                                  THEN {Entry(t, W, d)}
                                  ELSE {ToGate(t, W, d), Entry(t, W, d)}
  <2>1. Link(d, t).from = d /\ Link(d, t).cond = Route(steps, d, t)
    BY LinkEnds
  <2>2. Built!Unconditional = Unconditional
    BY DEF Built!Unconditional, Unconditional
  <2>3. CASE Route(steps, d, t) = Unconditional
    BY <2>1, <2>2, <2>3 DEF Entry, WayJoin
  <2>4. CASE Route(steps, d, t) # Unconditional
    <3>1. Part(Link(d, t)) =
             {Built!Edge(Built!Node(d), Built!Gate(t, g, Link(d, t)), Route(steps, d, t)),
              Built!Edge(Built!Gate(t, g, Link(d, t)), Built!Join(t, g), Unconditional)}
      <4> HIDE DEF g
      <4> QED
        BY <1>1, <2>1, <2>2, <2>4, SameCardinality
    <3> QED
      BY <2>4, <3>1 DEF Entry, ToGate, WayJoin, WayGate
  <2> QED
    BY <2>3, <2>4
<1> DEFINE last == Built!Edge(Built!Join(t, g), Built!Node(t), Built!Unconditional)
<1>3. Built!GroupEdges(t, g) = (UNION {Part(e) : e \in g}) \cup {last}
  BY DEF Built!GroupEdges
<1>4. last = LastEdge(t, W)
  BY DEF LastEdge, WayJoin, Built!Unconditional, Unconditional
<1> HIDE DEF Part, last
<1>5. UNION {Part(e) : e \in g} = UNION {Part(Link(d, t)) : d \in W}
  BY DEF Links
<1>6. ASSUME NEW x
      PROVE  x \in UNION {Part(Link(d, t)) : d \in W} <=>
                \/ x \in {Entry(t, W, d) : d \in W}
                \/ x \in {ToGate(t, W, d) : d \in {y \in W : Route(steps, y, t) # Unconditional}}
  BY <1>2
<1> QED
  BY <1>3, <1>4, <1>5, <1>6 DEF WayEdges

(* The graph GraphBuilder makes is that of the ways.                       *)
LEMMA BuiltWays ==
    ASSUME steps \in Seq(Steps), WellFormed(steps), OnlySynthesisAfterReview
    PROVE  BuiltGraph = UNION {UNION {WayEdges(t, W) : W \in Ways(t)} : t \in Ids(steps)}
<1> DEFINE C == Conditioned
           edges == Built!GraphEdges(C)
           G(t) == Built!Groups(C, edges, t)
<1>1. ASSUME NEW t
      PROVE  Built!RuntimeEdgesInto(edges, G(t), t) = UNION {WayEdges(t, W) : W \in Ways(t)}
  <2> DEFINE P == Preds(steps, t)
  <2>1. Built!EdgesInto(edges, t) = Links(P, t)
    BY BuiltLinks
  <2>2. P \subseteq Ids(steps)
    BY PredsShape
  <2>3. \A d : Built!Edge(Built!Node(Link(d, t).from), Built!Node(t), Link(d, t).cond) =
                  Direct(t, d)
    BY LinkEnds DEF Direct
  <2>4. ASSUME NEW W \in Ways(t), Several(W)
        PROVE  Built!GroupEdges(t, Links(W, t)) = WayEdges(t, W)
    BY <2>4, WaysShape, GroupIsWay
  <2>5. ASSUME NEW d PROVE WayEdges(t, {d}) = {Direct(t, d)}
    BY DEF WayEdges, LastEdge, Several
  <2> HIDE DEF edges
  <2>6. CASE G(t) = {}
    <3>1. Built!RuntimeEdgesInto(edges, G(t), t) = {Direct(t, d) : d \in P}
      <4>1. Built!RuntimeEdgesInto(edges, {}, t) =
               {Built!Edge(Built!Node(e.from), Built!Node(t), e.cond) : e \in Links(P, t)}
        BY <2>1 DEF Built!RuntimeEdgesInto
      <4>2. {Built!Edge(Built!Node(e.from), Built!Node(t), e.cond) : e \in Links(P, t)} =
               {Direct(t, d) : d \in P}
        BY <2>3 DEF Links
      <4> QED
        BY <2>6, <4>1, <4>2
    <3>2. \A W \in Ways(t) : ~ Several(W)
      <4>1. CASE IsSynthesis(steps, t)
        <5>1. PICK b \in Branches(steps) : t = b.synthesis
          BY <4>1 DEF IsSynthesis
        <5>2. Plain(steps, t) = {}
          BY <2>6, <5>1, SynthesisGroups DEF edges
        <5> QED
          BY <5>1, <5>2, WaysShape
      <4>2. CASE ~ IsSynthesis(steps, t)
        <5>1. ~ Several(P)
          BY <2>6, <4>2, OrdinaryGroups DEF edges
        <5> QED
          BY <4>2, <5>1, WaysShape
      <4> QED
        BY <4>1, <4>2
    <3>3. \A W \in Ways(t) : \E d \in P : W = {d}
      BY <3>2, WaysShape
    <3>4. ASSUME NEW d \in P PROVE {d} \in Ways(t)
      <4>1. PICK W \in Ways(t) : d \in W
        BY WaysShape
      <4>2. PICK x \in P : W = {x}
        BY <3>3
      <4> QED
        BY <4>1, <4>2
    <3>5. ASSUME NEW e
          PROVE  (\E W \in Ways(t) : e \in WayEdges(t, W)) <=> \E d \in P : e = Direct(t, d)
      <4>1. ASSUME NEW W \in Ways(t), e \in WayEdges(t, W)
            PROVE  \E d \in P : e = Direct(t, d)
        BY <2>5, <3>3, <4>1
      <4>2. ASSUME NEW d \in P, e = Direct(t, d)
            PROVE  e \in WayEdges(t, {d})
        BY <2>5, <4>2
      <4> QED
        BY <3>4, <4>1, <4>2
    <3>6. UNION {WayEdges(t, W) : W \in Ways(t)} = {Direct(t, d) : d \in P}
      BY <3>5
    <3> QED
      BY <3>1, <3>6
  <2>7. CASE G(t) # {}
    <3>1. /\ G(t) = {Links(W, t) : W \in Ways(t)}
          /\ \A W \in Ways(t) : Several(W)
      <4>1. CASE IsSynthesis(steps, t)
        <5>1. PICK b \in Branches(steps) : t = b.synthesis
          BY <4>1 DEF IsSynthesis
        <5>2. /\ Plain(steps, t) # {}
              /\ G(t) = {Links(Plain(steps, t) \cup {b.source}, t),
                         Links(Plain(steps, t) \cup {b.review}, t)}
          BY <2>7, <5>1, SynthesisGroups DEF edges
        <5>3. Ways(t) = {Plain(steps, t) \cup {b.source}, Plain(steps, t) \cup {b.review}}
          BY <5>1, WaysShape
        <5> QED
          BY <5>1, <5>2, <5>3, WaysShape
      <4>2. CASE ~ IsSynthesis(steps, t)
        <5>1. Several(P) /\ G(t) = {Links(P, t)}
          BY <2>7, <4>2, OrdinaryGroups DEF edges
        <5>2. Ways(t) = {P}
          BY <4>2, <5>1, WaysShape DEF Several
        <5> QED
          BY <5>1, <5>2
      <4> QED
        BY <4>1, <4>2
    <3>2. Links(P, t) \subseteq UNION G(t)
      BY <3>1, WaysShape DEF Links
    <3>3. Built!RuntimeEdgesInto(edges, G(t), t) =
             UNION {Built!GroupEdges(t, g) : g \in G(t)}
      <4> HIDE DEF G
      <4> QED
        BY <2>1, <3>2 DEF Built!RuntimeEdgesInto
    <3>4. UNION {Built!GroupEdges(t, g) : g \in G(t)} =
             UNION {Built!GroupEdges(t, Links(W, t)) : W \in Ways(t)}
      BY <3>1
    <3> QED
      BY <2>4, <3>1, <3>3, <3>4
  <2> QED
    BY <2>6, <2>7
<1>2. BuiltGraph = UNION {Built!RuntimeEdgesInto(edges, G(t), t) : t \in Ids(steps)}
  BY SameBranches DEF BuiltGraph, Built!RuntimeEdges, Built!RuntimeEdgesOf
<1> QED
  BY <1>1, <1>2

-----------------------------------------------------------------------------
(* Nodes of different kinds or of different ways are different.            *)
LEMMA NodesApart ==
    ASSUME steps \in Seq(Steps), WellFormed(steps), NEW t, NEW W \in Ways(t), NEW d
    PROVE  /\ \A u : WayJoin(t, W) # Built!Node(u) /\ WayGate(t, W, d) # Built!Node(u)
           /\ \A u, x : \A X \in Ways(u) :
                 /\ WayJoin(t, W) = WayJoin(u, X) <=> t = u /\ W = X
                 /\ WayGate(t, W, d) = WayGate(u, X, x) <=> t = u /\ W = X /\ d = x
                 /\ WayGate(t, W, d) # WayJoin(u, X)
           /\ WayJoin(t, W).group # {} /\ WayGate(t, W, d).group # {}
<1>1. W \subseteq Ids(steps) /\ W # {}
  BY WaysShape
<1>2. Links(W, t) # {}
  BY <1>1 DEF Links
<1>3. ASSUME NEW X \in Ways(t), Links(W, t) = Links(X, t) PROVE W = X
  <2>1. X \subseteq Ids(steps)
    BY WaysShape
  <2>2. \A x : x \in W <=> x \in X
    BY <1>1, <1>3, <2>1, LinksSeveral
  <2> QED
    BY <2>2
<1>4. \A u, x : Link(d, t) = Link(x, u) => d = x
  BY LinkEnds
<1>5. \A u : \A X \in Ways(u) : t = u /\ Links(W, t) = Links(X, u) => W = X
  BY <1>3
<1> QED
  BY <1>2, <1>4, <1>5 DEF Built!Node, Built!Join, Built!Gate, WayJoin, WayGate

(* A step's node is no join, and known by the step.                        *)
LEMMA StepNodes ==
    /\ \A t, u : Built!Node(t) = Built!Node(u) <=> t = u
    /\ \A t : Built!Node(t).group = {}
BY DEF Built!Node

(* Where the edges of a way come from and lead to.                         *)
LEMMA WayEnds ==
    ASSUME NEW t, NEW W, NEW d
    PROVE  /\ LastEdge(t, W).to = Built!Node(t)
           /\ Several(W) => LastEdge(t, W).from = WayJoin(t, W)
                            /\ LastEdge(t, W).route = Unconditional
           /\ Entry(t, W, d).to = WayJoin(t, W)
           /\ Entry(t, W, d).route = Unconditional
           /\ Entry(t, W, d).from = IF Route(steps, d, t) = Unconditional
                                      THEN Built!Node(d) ELSE WayGate(t, W, d)
           /\ ToGate(t, W, d).to = WayGate(t, W, d)
           /\ ToGate(t, W, d).from = Built!Node(d)
           /\ ToGate(t, W, d).route = Route(steps, d, t)
BY DEF LastEdge, Entry, ToGate, Direct, Built!Edge

(* The same of a predecessor's own edge.                                   *)
LEMMA DirectEnds ==
    ASSUME NEW t, NEW d
    PROVE  /\ Direct(t, d).from = Built!Node(d)
           /\ Direct(t, d).route = Route(steps, d, t)
BY DEF Direct, Built!Edge

(* The edges of the built graph, and those into each kind of node.         *)
LEMMA IntoNodes ==
    ASSUME steps \in Seq(Steps), WellFormed(steps), OnlySynthesisAfterReview,
           NEW t \in Ids(steps)
    PROVE  /\ Built!EdgesInto(BuiltGraph, Built!Node(t)) = {LastEdge(t, W) : W \in Ways(t)}
           /\ \A W \in Ways(t) : Several(W) =>
                 /\ Built!EdgesInto(BuiltGraph, WayJoin(t, W)) = {Entry(t, W, d) : d \in W}
                 /\ \A d \in W : Route(steps, d, t) # Unconditional =>
                       Built!EdgesInto(BuiltGraph, WayGate(t, W, d)) = {ToGate(t, W, d)}
<1>1. BuiltGraph = UNION {UNION {WayEdges(u, X) : X \in Ways(u)} : u \in Ids(steps)}
  BY BuiltWays
<1> DEFINE Kind(e, u, X) == \/ e = LastEdge(u, X)
                            \/ \E x \in X : e = Entry(u, X, x)
                            \/ \E x \in X : e = ToGate(u, X, x)
<1>2. ASSUME NEW e \in BuiltGraph
      PROVE  \E u, X : u \in Ids(steps) /\ X \in Ways(u) /\ Kind(e, u, X)
  <2>1. PICK u \in Ids(steps) : e \in UNION {WayEdges(u, X) : X \in Ways(u)}
    BY <1>1
  <2>2. PICK X \in Ways(u) : e \in WayEdges(u, X)
    BY <2>1
  <2> QED
    BY <2>2 DEF WayEdges
<1>3. ASSUME NEW W \in Ways(t)
      PROVE  /\ LastEdge(t, W) \in BuiltGraph
             /\ Several(W) => \A d \in W :
                   /\ Entry(t, W, d) \in BuiltGraph
                   /\ Route(steps, d, t) # Unconditional => ToGate(t, W, d) \in BuiltGraph
  <2>1. WayEdges(t, W) \subseteq BuiltGraph
    BY <1>1
  <2> QED
    BY <2>1 DEF WayEdges
<1> HIDE DEF Kind
<1>4. Built!EdgesInto(BuiltGraph, Built!Node(t)) = {LastEdge(t, W) : W \in Ways(t)}
  <2>1. ASSUME NEW e \in BuiltGraph, e.to = Built!Node(t)
        PROVE  \E W \in Ways(t) : e = LastEdge(t, W)
    <3>1. PICK u, X : u \in Ids(steps) /\ X \in Ways(u) /\ Kind(e, u, X)
      BY <1>2
    <3>2. e = LastEdge(u, X)
      BY <2>1, <3>1, WayEnds, NodesApart DEF Kind
    <3>3. e.to = Built!Node(u)
      BY <3>2, WayEnds
    <3> QED
      BY <2>1, <3>1, <3>2, <3>3, StepNodes
  <2>2. \A W \in Ways(t) : LastEdge(t, W) \in BuiltGraph
    BY <1>3
  <2>3. \A W : LastEdge(t, W).to = Built!Node(t)
    BY WayEnds
  <2> QED
    BY <2>1, <2>2, <2>3 DEF Built!EdgesInto
<1>5. ASSUME NEW W \in Ways(t), Several(W)
      PROVE  Built!EdgesInto(BuiltGraph, WayJoin(t, W)) = {Entry(t, W, d) : d \in W}
  <2>1. ASSUME NEW e \in BuiltGraph, e.to = WayJoin(t, W)
        PROVE  \E d \in W : e = Entry(t, W, d)
    <3>1. PICK u, X : u \in Ids(steps) /\ X \in Ways(u) /\ Kind(e, u, X)
      BY <1>2
    <3>2. PICK x \in X : e = Entry(u, X, x)
      BY <2>1, <3>1, WayEnds, NodesApart DEF Kind
    <3>3. e.to = WayJoin(u, X)
      BY <3>2, WayEnds
    <3>4. WayJoin(t, W) = WayJoin(u, X) <=> t = u /\ W = X
      BY <3>1, NodesApart
    <3> QED
      BY <2>1, <3>2, <3>3, <3>4
  <2> QED
    BY <1>3, <1>5, <2>1, WayEnds DEF Built!EdgesInto
<1>6. ASSUME NEW W \in Ways(t), Several(W), NEW d \in W,
             Route(steps, d, t) # Unconditional
      PROVE  Built!EdgesInto(BuiltGraph, WayGate(t, W, d)) = {ToGate(t, W, d)}
  <2>1. ASSUME NEW e \in BuiltGraph, e.to = WayGate(t, W, d)
        PROVE  e = ToGate(t, W, d)
    <3>1. PICK u, X : u \in Ids(steps) /\ X \in Ways(u) /\ Kind(e, u, X)
      BY <1>2
    <3>2. PICK x \in X : e = ToGate(u, X, x)
      BY <2>1, <3>1, WayEnds, NodesApart DEF Kind
    <3>3. e.to = WayGate(u, X, x)
      BY <3>2, WayEnds
    <3>4. WayGate(t, W, d) = WayGate(u, X, x) <=> t = u /\ W = X /\ d = x
      BY <3>1, NodesApart
    <3> QED
      BY <2>1, <3>2, <3>3, <3>4
  <2> QED
    BY <1>3, <1>6, <2>1, WayEnds DEF Built!EdgesInto
<1> QED
  BY <1>4, <1>5, <1>6

(* A family of finite sets over a finite set has a finite union.           *)
LEMMA FiniteFamily ==
    ASSUME NEW S, IsFiniteSet(S), NEW f, \A s \in S : IsFiniteSet(f[s])
    PROVE  IsFiniteSet(UNION {f[s] : s \in S})
<1> DEFINE g == [s \in S |-> f[s]]
<1>1. g \in Surjection(S, {f[s] : s \in S})
  BY DEF Surjection
<1>2. IsFiniteSet({f[s] : s \in S})
  BY <1>1, FS_Surjection
<1> QED
  BY <1>2, FS_UNION

(* The built graph is finite.                                              *)
LEMMA BuiltFinite ==
    ASSUME steps \in Seq(Steps), WellFormed(steps), OnlySynthesisAfterReview
    PROVE  IsFiniteSet(BuiltGraph)
<1>1. ASSUME NEW t, NEW W, W \subseteq Ids(steps) PROVE IsFiniteSet(WayEdges(t, W))
  <2> DEFINE part == [d \in W |-> {Entry(t, W, d), ToGate(t, W, d)}]
             all == UNION {part[d] : d \in W}
  <2>1. IsFiniteSet(W)
    BY <1>1, FiniteIds, FS_Subset
  <2>2. \A d \in W : IsFiniteSet(part[d])
    <3>1. \A a, b : IsFiniteSet({a, b})
      <4> TAKE a, b
      <4>1. IsFiniteSet({a} \cup {b}) /\ {a} \cup {b} = {a, b}
        BY FS_Singleton, FS_AddElement
      <4> QED
        BY <4>1
    <3> QED
      BY <3>1
  <2>3. IsFiniteSet(all)
    <3> HIDE DEF part
    <3> QED
      BY <2>1, <2>2, FiniteFamily
  <2>4. IsFiniteSet(all \cup {LastEdge(t, W)})
    <3> HIDE DEF all
    <3> QED
      BY <2>3, FS_AddElement
  <2>5. WayEdges(t, W) \subseteq all \cup {LastEdge(t, W)}
    BY DEF WayEdges
  <2> HIDE DEF all
  <2> QED
    BY <2>4, <2>5, FS_Subset
<1>2. ASSUME NEW t \in Ids(steps)
      PROVE  IsFiniteSet(UNION {WayEdges(t, W) : W \in Ways(t)})
  <2> DEFINE f == [W \in Ways(t) |-> WayEdges(t, W)]
  <2>1. IsFiniteSet(Ways(t))
    <3>1. IsFiniteSet(SUBSET Ids(steps))
      BY FiniteIds, FS_SUBSET
    <3>2. Ways(t) \subseteq SUBSET Ids(steps)
      BY WaysShape
    <3> QED
      BY <3>1, <3>2, FS_Subset
  <2>2. \A W \in Ways(t) : IsFiniteSet(f[W])
    BY <1>1, WaysShape
  <2>3. {f[W] : W \in Ways(t)} = {WayEdges(t, W) : W \in Ways(t)}
    OBVIOUS
  <2> HIDE DEF f
  <2>4. IsFiniteSet(UNION {f[W] : W \in Ways(t)})
    BY <2>1, <2>2, FiniteFamily
  <2> QED
    BY <2>3, <2>4
<1> DEFINE f == [t \in Ids(steps) |-> UNION {WayEdges(t, W) : W \in Ways(t)}]
<1>3. \A t \in Ids(steps) : IsFiniteSet(f[t])
  BY <1>2
<1>4. {f[t] : t \in Ids(steps)} = {UNION {WayEdges(t, W) : W \in Ways(t)} : t \in Ids(steps)}
  OBVIOUS
<1> HIDE DEF f
<1>5. IsFiniteSet(UNION {f[t] : t \in Ids(steps)})
  BY <1>3, FiniteIds, FiniteFamily
<1> QED
  BY <1>4, <1>5, BuiltWays

-----------------------------------------------------------------------------
(* What the built graph does when every step but the stuck ones finishes:  *)
(* the edges followed, the nodes that run, and the predecessors that send  *)
(* a step on.                                                              *)
RootNodes == {Built!Node(Conditioned[i].id) : i \in Built!Roots(Conditioned)}

BuiltEdges(stuck) == Built!FollowedEdges(BuiltGraph, RootNodes, Said, stuck)

Alive(stuck) == RootNodes \cup Built!Woken(BuiltGraph, BuiltEdges(stuck))

Chosen(d) == Built!RouteTaken(BuiltGraph, Built!Node(d), Said)

Sent(stuck, d, t) == /\ Built!Node(d) \in Alive(stuck)
                     /\ d \notin stuck
                     /\ Route(steps, d, t) \in {Unconditional, Chosen(d)}

(* The edges followed are those of the nodes that run.                     *)
LEMMA BuiltSettled ==
    ASSUME steps \in Seq(Steps), WellFormed(steps), OnlySynthesisAfterReview,
           NEW stuck, NEW e
    PROVE  e \in BuiltEdges(stuck) <=>
              /\ e \in BuiltGraph /\ e.from \in Alive(stuck)
              /\ \A s \in stuck : e.from # Built!Node(s)
              /\ e.route \in {Unconditional, Built!RouteTaken(BuiltGraph, e.from, Said)}
<1>1. IsFiniteSet(BuiltGraph)
  BY BuiltFinite
<1>2. BuiltEdges(stuck) = Round(BuiltGraph, RootNodes, Said, stuck, BuiltEdges(stuck))
  BY <1>1, FollowedSettles DEF BuiltEdges
<1>3. BuiltEdges(stuck) = Built!Followed(BuiltGraph, Alive(stuck), Said, stuck)
  BY <1>2 DEF Round, Alive
<1> QED
  BY <1>3 DEF Built!Followed, Built!Unconditional, Unconditional

(* A join or a gate runs when all edges into it are followed.              *)
LEMMA InnerAlive ==
    ASSUME NEW stuck, NEW n, n.group # {}, \A u : n # Built!Node(u),
           Built!EdgesInto(BuiltGraph, n) # {}
    PROVE  n \in Alive(stuck) <=> Built!EdgesInto(BuiltGraph, n) \subseteq BuiltEdges(stuck)
<1>1. n \notin RootNodes
  BY DEF RootNodes
<1>2. \A e \in Built!EdgesInto(BuiltGraph, n) : e.to = n
  BY DEF Built!EdgesInto
<1> QED
  BY <1>1, <1>2 DEF Alive, Built!Woken

(* The last edge of a way is followed when every predecessor on it has     *)
(* sent the step on.                                                       *)
LEMMA WayTaken ==
    ASSUME steps \in Seq(Steps), WellFormed(steps), OnlySynthesisAfterReview,
           NEW stuck, NEW t \in Ids(steps), NEW W \in Ways(t)
    PROVE  LastEdge(t, W) \in BuiltEdges(stuck) <=> \A d \in W : Sent(stuck, d, t)
<1>1. W # {} /\ Built!EdgesInto(BuiltGraph, Built!Node(t)) = {LastEdge(t, X) : X \in Ways(t)}
  BY WaysShape, IntoNodes
<1>2. LastEdge(t, W) \in BuiltGraph
  BY <1>1 DEF Built!EdgesInto
<1>3. CASE ~ Several(W)
  <2>1. PICK d \in Preds(steps, t) : W = {d}
    BY <1>3, WaysShape
  <2>2. LastEdge(t, W) = Direct(t, d)
    BY <1>3, <2>1 DEF LastEdge
  <2>3. /\ Direct(t, d).from = Built!Node(d)
        /\ Direct(t, d).route = Route(steps, d, t)
    BY DirectEnds
  <2>4. (\A s \in stuck : Built!Node(d) # Built!Node(s)) <=> d \notin stuck
    BY StepNodes
  <2> QED
    BY <1>2, <2>1, <2>2, <2>3, <2>4, BuiltSettled DEF Sent, Chosen
<1>4. CASE Several(W)
  <2> DEFINE n == WayJoin(t, W)
  <2>1. /\ Built!EdgesInto(BuiltGraph, n) = {Entry(t, W, d) : d \in W}
        /\ \A d \in W : Route(steps, d, t) # Unconditional =>
              Built!EdgesInto(BuiltGraph, WayGate(t, W, d)) = {ToGate(t, W, d)}
    BY <1>4, IntoNodes
  <2>2. n.group # {} /\ \A u : n # Built!Node(u)
    BY NodesApart
  <2>3. \A d : /\ WayGate(t, W, d).group # {}
               /\ \A u : WayGate(t, W, d) # Built!Node(u)
    BY NodesApart
  <2>4. n \in Alive(stuck) <=> \A d \in W : Entry(t, W, d) \in BuiltEdges(stuck)
    <3>1. Built!EdgesInto(BuiltGraph, n) # {}
      BY <1>1, <2>1
    <3> HIDE DEF n
    <3> QED
      BY <2>1, <2>2, <3>1, InnerAlive
  <2>5. ASSUME NEW d \in W
        PROVE  Entry(t, W, d) \in BuiltEdges(stuck) <=> Sent(stuck, d, t)
    <3>1. Entry(t, W, d) \in BuiltGraph
      BY <2>1 DEF Built!EdgesInto
    <3>2. Entry(t, W, d).route = Unconditional
      BY WayEnds
    <3>3. (\A s \in stuck : Built!Node(d) # Built!Node(s)) <=> d \notin stuck
      BY StepNodes
    <3>4. CASE Route(steps, d, t) = Unconditional
      <4>1. Entry(t, W, d).from = Built!Node(d)
        BY <3>4, WayEnds
      <4> QED
        BY <3>1, <3>2, <3>3, <3>4, <4>1, BuiltSettled DEF Sent
    <3>5. CASE Route(steps, d, t) # Unconditional
      <4>1. Entry(t, W, d).from = WayGate(t, W, d)
        BY <3>5, WayEnds
      <4>2. Built!EdgesInto(BuiltGraph, WayGate(t, W, d)) = {ToGate(t, W, d)}
        BY <2>1, <3>5
      <4>3. Entry(t, W, d) \in BuiltEdges(stuck) <=> WayGate(t, W, d) \in Alive(stuck)
        BY <2>3, <3>1, <3>2, <4>1, BuiltSettled
      <4>4. WayGate(t, W, d) \in Alive(stuck) <=> ToGate(t, W, d) \in BuiltEdges(stuck)
        BY <2>3, <4>2, InnerAlive
      <4>5. ToGate(t, W, d) \in BuiltGraph
        BY <4>2 DEF Built!EdgesInto
      <4>6. /\ ToGate(t, W, d).from = Built!Node(d)
            /\ ToGate(t, W, d).route = Route(steps, d, t)
        BY WayEnds
      <4>7. ToGate(t, W, d) \in BuiltEdges(stuck) <=> Sent(stuck, d, t)
        BY <3>3, <4>5, <4>6, BuiltSettled DEF Sent, Chosen
      <4> QED
        BY <4>3, <4>4, <4>7
    <3> QED
      BY <3>4, <3>5
  <2>6. LastEdge(t, W).from = n /\ LastEdge(t, W).route = Unconditional
    BY <1>4, WayEnds
  <2>7. LastEdge(t, W) \in BuiltEdges(stuck) <=> n \in Alive(stuck)
    BY <1>2, <2>2, <2>6, BuiltSettled
  <2> QED
    BY <2>4, <2>5, <2>7
<1> QED
  BY <1>3, <1>4

(* A step runs when it depends on nothing or one of its ways is taken.     *)
LEMMA StepAlive ==
    ASSUME steps \in Seq(Steps), WellFormed(steps), OnlySynthesisAfterReview,
           NEW stuck, NEW t \in Ids(steps)
    PROVE  Built!Node(t) \in Alive(stuck) <=>
              \/ Preds(steps, t) = {}
              \/ \E W \in Ways(t) : \A d \in W : Sent(stuck, d, t)
<1>1. Built!Node(t) \in RootNodes <=> Preds(steps, t) = {}
  <2>1. Built!Node(t) \in RootNodes <=>
           \E i \in DOMAIN steps : steps[i].deps = {} /\ steps[i].id = t
    BY ConditionedFields, StepNodes DEF RootNodes, Built!Roots
  <2>2. PICK i \in DOMAIN steps : steps[i].id = t
    BY DEF Ids
  <2>3. DependsOn(steps, t) = steps[i].deps /\ UniqueIds(steps)
    BY <2>2, DependsOnDeps DEF WellFormed
  <2>4. Preds(steps, t) = {} <=> DependsOn(steps, t) = {}
    <3>1. \A b \in Branches(steps) : b.review \in DependsOn(steps, b.synthesis)
      BY BranchShape
    <3> QED
      BY <3>1 DEF Preds, Sources
  <2> QED
    BY <2>1, <2>2, <2>3, <2>4 DEF UniqueIds
<1>2. Built!Node(t) \in Built!Woken(BuiltGraph, BuiltEdges(stuck)) <=>
         \E W \in Ways(t) : LastEdge(t, W) \in BuiltEdges(stuck)
  <2>1. Built!EdgesInto(BuiltGraph, Built!Node(t)) = {LastEdge(t, W) : W \in Ways(t)}
    BY IntoNodes
  <2>2. BuiltEdges(stuck) \subseteq BuiltGraph
    BY BuiltSettled
  <2>3. Built!Node(t) \in Built!Woken(BuiltGraph, BuiltEdges(stuck)) <=>
           \E e \in BuiltEdges(stuck) : e.to = Built!Node(t)
    BY StepNodes DEF Built!Woken
  <2>4. \A e \in BuiltEdges(stuck) : e.to = Built!Node(t) <=>
           \E W \in Ways(t) : e = LastEdge(t, W)
    BY <2>1, <2>2 DEF Built!EdgesInto
  <2> QED
    BY <2>3, <2>4
<1>3. \A W \in Ways(t) : LastEdge(t, W) \in BuiltEdges(stuck) <=>
                            \A d \in W : Sent(stuck, d, t)
  BY WayTaken
<1> QED
  BY <1>1, <1>2, <1>3 DEF Alive

-----------------------------------------------------------------------------
(* The source of the branch has both routes and chooses by what it said.   *)
LEMMA SourceChooses ==
    ASSUME steps \in Seq(Steps), WellFormed(steps), OnlySynthesisAfterReview,
           NEW b \in Branches(steps)
    PROVE  Chosen(b.source) = IF asked THEN MissingData ELSE DefaultRoute
<1> DEFINE n == Built!Node(b.source)
           routes == {e.route : e \in {f \in BuiltGraph : f.from = n}} \ {Unconditional}
<1>1. /\ b.review \in Ids(steps) /\ b.synthesis \in Ids(steps)
      /\ Preds(steps, b.review) = {b.source} /\ ~ IsSynthesis(steps, b.review)
      /\ b.source \in Sources(steps, b.synthesis) /\ ~ IsReview(steps, b.synthesis)
      /\ b.source \in Preds(steps, b.synthesis)
  BY BranchShape, PredsShape
<1>2. /\ Route(steps, b.source, b.review) = MissingData
      /\ Route(steps, b.source, b.synthesis) = DefaultRoute
  BY <1>1, Routes DEF IsReview
<1>3. MissingData \in routes
  <2>1. Ways(b.review) = {{b.source}}
    BY <1>1, WaysShape
  <2>2. LastEdge(b.review, {b.source}) = Direct(b.review, b.source)
    BY DEF LastEdge, Several
  <2>3. Direct(b.review, b.source) \in BuiltGraph
    BY <1>1, <2>1, <2>2, IntoNodes DEF Built!EdgesInto
  <2>4. /\ Direct(b.review, b.source).from = n
        /\ Direct(b.review, b.source).route = MissingData
    BY <1>2, DirectEnds
  <2> QED
    BY <2>3, <2>4 DEF MissingData, Unconditional
<1>4. DefaultRoute \in routes
  <2> DEFINE t == b.synthesis
             W == Plain(steps, t) \cup {b.source}
  <2>1. W \in Ways(t) /\ b.source \in W
    BY WaysShape
  <2> HIDE DEF W
  <2>2. \E e \in BuiltGraph : e.from = n /\ e.route = DefaultRoute
    <3>1. CASE Several(W)
      <4>1. ToGate(t, W, b.source) \in BuiltGraph
        BY <1>1, <1>2, <2>1, <3>1, IntoNodes
           DEF Built!EdgesInto, DefaultRoute, Unconditional
      <4> QED
        BY <1>2, <4>1, WayEnds
    <3>2. CASE ~ Several(W)
      <4>1. W = {b.source}
        BY <2>1, <3>2 DEF Several
      <4>2. LastEdge(t, W) = Direct(t, b.source)
        BY <3>2, <4>1 DEF LastEdge
      <4>3. Direct(t, b.source) \in BuiltGraph
        BY <1>1, <2>1, <4>2, IntoNodes DEF Built!EdgesInto
      <4> QED
        BY <1>2, <4>3, DirectEnds
    <3> QED
      BY <3>1, <3>2
  <2> QED
    BY <2>2 DEF DefaultRoute, Unconditional
<1>5. Chosen(b.source) = IF Said \in routes THEN Said
                         ELSE IF DefaultRoute \in routes THEN DefaultRoute ELSE Unconditional
  BY DEF Chosen, Built!RouteTaken, Built!Unconditional, Unconditional,
         Built!DefaultRoute, DefaultRoute
<1>6. Unconditional \notin routes
  OBVIOUS
<1> HIDE DEF routes
<1> QED
  BY <1>3, <1>4, <1>5, <1>6 DEF Said

(* The two ways into a synthesis exclude each other: the source sends it   *)
(* on only when it did not ask for the review, and the review runs only    *)
(* when it did.                                                            *)
LEMMA OneWayTaken ==
    ASSUME steps \in Seq(Steps), WellFormed(steps), OnlySynthesisAfterReview,
           NEW stuck, NEW t \in Ids(steps)
    PROVE  /\ \A b \in Branches(steps) :
                 /\ t = b.synthesis /\ Sent(stuck, b.source, t) => ~ asked
                 /\ Built!Node(b.review) \in Alive(stuck) => asked /\ b.source \notin stuck
           /\ \A W, X \in Ways(t) :
                 (\A d \in W : Sent(stuck, d, t)) /\ (\A d \in X : Sent(stuck, d, t)) => W = X
<1>1. ASSUME NEW b \in Branches(steps)
      PROVE  /\ b.review \in Ids(steps) /\ b.synthesis \in Ids(steps)
             /\ Preds(steps, b.review) = {b.source} /\ ~ IsSynthesis(steps, b.review)
             /\ Route(steps, b.source, b.review) = MissingData
             /\ Route(steps, b.source, b.synthesis) = DefaultRoute
  <2>1. /\ b.review \in Ids(steps) /\ b.synthesis \in Ids(steps)
        /\ Preds(steps, b.review) = {b.source} /\ ~ IsSynthesis(steps, b.review)
        /\ b.source \in Sources(steps, b.synthesis) /\ ~ IsReview(steps, b.synthesis)
        /\ b.source \in Preds(steps, b.synthesis)
    BY BranchShape, PredsShape
  <2> QED
    BY <2>1, Routes DEF IsReview
<1>2. ASSUME NEW b \in Branches(steps), t = b.synthesis, Sent(stuck, b.source, t)
      PROVE  ~ asked
  BY <1>1, <1>2, SourceChooses DEF Sent, MissingData, DefaultRoute, Unconditional
<1>3. ASSUME NEW b \in Branches(steps), Built!Node(b.review) \in Alive(stuck)
      PROVE  asked /\ b.source \notin stuck
  <2>1. Ways(b.review) = {{b.source}}
    BY <1>1, WaysShape
  <2>2. Sent(stuck, b.source, b.review)
    BY <1>1, <1>3, <2>1, StepAlive
  <2> QED
    BY <1>1, <2>2, SourceChooses DEF Sent, MissingData, DefaultRoute, Unconditional
<1>4. ASSUME NEW W \in Ways(t), NEW X \in Ways(t),
             \A d \in W : Sent(stuck, d, t), \A d \in X : Sent(stuck, d, t)
      PROVE  W = X
  <2>1. CASE IsSynthesis(steps, t)
    <3>1. PICK b \in Branches(steps) : t = b.synthesis
      BY <2>1 DEF IsSynthesis
    <3>2. Ways(t) = {Plain(steps, t) \cup {b.source}, Plain(steps, t) \cup {b.review}}
      BY <3>1, WaysShape
    <3>3. ~ (Sent(stuck, b.source, t) /\ Sent(stuck, b.review, t))
      BY <1>2, <1>3, <3>1 DEF Sent
    <3> QED
      BY <1>4, <3>2, <3>3
  <2>2. CASE ~ IsSynthesis(steps, t)
    BY <2>2, WaysShape
  <2> QED
    BY <2>1, <2>2
<1> QED
  BY <1>2, <1>3, <1>4

(* A step that runs is started once, any other never.                      *)
LEMMA StartsOnce ==
    ASSUME steps \in Seq(Steps), WellFormed(steps), OnlySynthesisAfterReview,
           NEW stuck, NEW t \in Ids(steps)
    PROVE  Built!Starts(Conditioned, Said, stuck)[t] =
              IF Built!Node(t) \in Alive(stuck) THEN 1 ELSE 0
<1> DEFINE F == BuiltEdges(stuck)
           into == {e \in F : e.to = Built!Node(t)}
           roots == {i \in Built!Roots(Conditioned) : Conditioned[i].id = t}
<1>1. Built!Starts(Conditioned, Said, stuck)[t] = Cardinality(into) + Cardinality(roots)
  BY SameBranches, SameCardinality
     DEF Built!Starts, Built!StartsAfter, BuiltEdges, BuiltGraph, RootNodes
<1>2. \A e : e \in into <=> \E W \in Ways(t) : e = LastEdge(t, W)
                                        /\ \A d \in W : Sent(stuck, d, t)
  <2>1. Built!EdgesInto(BuiltGraph, Built!Node(t)) = {LastEdge(t, W) : W \in Ways(t)}
    BY IntoNodes
  <2>2. F \subseteq BuiltGraph
    BY BuiltSettled
  <2>3. \A e : e \in into <=> \E W \in Ways(t) : e = LastEdge(t, W) /\ e \in F
    BY <2>1, <2>2 DEF Built!EdgesInto
  <2> HIDE DEF into, F
  <2> QED
    BY <2>3, WayTaken DEF F
<1>3. PICK i \in DOMAIN steps : steps[i].id = t
  BY DEF Ids
<1>4. roots = IF Preds(steps, t) = {} THEN {i} ELSE {}
  <2>1. DependsOn(steps, t) = steps[i].deps /\ UniqueIds(steps)
    BY <1>3, DependsOnDeps DEF WellFormed
  <2>2. Preds(steps, t) = {} <=> DependsOn(steps, t) = {}
    <3>1. \A b \in Branches(steps) : b.review \in DependsOn(steps, b.synthesis)
      BY BranchShape
    <3> QED
      BY <3>1 DEF Preds, Sources
  <2>3. \A k : k \in roots <=> k \in DOMAIN steps /\ steps[k].deps = {} /\ steps[k].id = t
    BY ConditionedFields DEF Built!Roots
  <2> HIDE DEF roots
  <2> QED
    BY <1>3, <2>1, <2>2, <2>3 DEF UniqueIds
<1>5. /\ Cardinality({}) = 0
      /\ Cardinality({i}) = 1
      /\ \A W : Cardinality({LastEdge(t, W)}) = 1
  BY FS_EmptySet, FS_Singleton
<1>6. CASE Preds(steps, t) = {}
  <2>1. Ways(t) = {}
    <3>1. ASSUME NEW W \in Ways(t) PROVE FALSE
      BY <1>6, WaysShape
    <3> QED
      BY <3>1
  <2>2. into = {}
    BY <1>2, <2>1
  <2>3. Built!Node(t) \in Alive(stuck)
    BY <1>6, StepAlive
  <2> HIDE DEF into, roots
  <2> QED
    BY <1>1, <1>4, <1>5, <1>6, <2>2, <2>3
<1>7. CASE Preds(steps, t) # {} /\ Built!Node(t) \in Alive(stuck)
  <2>1. PICK W \in Ways(t) : \A d \in W : Sent(stuck, d, t)
    BY <1>7, StepAlive
  <2>2. into = {LastEdge(t, W)}
    <3>1. \A X \in Ways(t) : (\A d \in X : Sent(stuck, d, t)) => X = W
      BY <2>1, OneWayTaken
    <3> HIDE DEF into
    <3> QED
      BY <1>2, <2>1, <3>1
  <2> HIDE DEF into, roots
  <2> QED
    BY <1>1, <1>4, <1>5, <1>7, <2>2
<1>8. CASE Preds(steps, t) # {} /\ Built!Node(t) \notin Alive(stuck)
  <2>1. \A W \in Ways(t) : ~ \A d \in W : Sent(stuck, d, t)
    BY <1>8, StepAlive
  <2>2. into = {}
    BY <1>2, <2>1
  <2> HIDE DEF into, roots
  <2> QED
    BY <1>1, <1>4, <1>5, <1>8, <2>2
<1> QED
  BY <1>6, <1>7, <1>8

-----------------------------------------------------------------------------
(* With nothing stuck every step runs but a review nobody asked for.       *)
LEMMA AllRun ==
    ASSUME steps \in Seq(Steps), WellFormed(steps), OnlySynthesisAfterReview,
           NEW t \in Ids(steps)
    PROVE  Built!Node(t) \in Alive({}) <=> (IsReview(steps, t) => asked)
<1> DEFINE Late == {u \in Ids(steps) : /\ IsReview(steps, u) => asked
                                       /\ Built!Node(u) \notin Alive({})}
<1>1. ASSUME NEW u \in Late
      PROVE  \/ \E d \in DependsOn(steps, u) : d \in Late
             \/ \E b \in Branches(steps) : u = b.synthesis /\ b.source \in Late
  <2>1. /\ u \in Ids(steps) /\ Preds(steps, u) # {} /\ Preds(steps, u) \subseteq Ids(steps)
        /\ \A W \in Ways(u) : \E d \in W : ~ Sent({}, d, u)
    BY StepAlive, PredsShape
  <2>2. ASSUME NEW d \in Preds(steps, u), d \notin Late, IsReview(steps, d) => asked,
               Route(steps, d, u) \in {Unconditional, Chosen(d)}
        PROVE  Sent({}, d, u)
    BY <2>1, <2>2 DEF Sent
  <2>3. CASE IsSynthesis(steps, u)
    <3>1. PICK b \in Branches(steps) : u = b.synthesis
      BY <2>3 DEF IsSynthesis
    <3>2. /\ Branches(steps) = {b} /\ b.source # b.review
          /\ b.review \in DependsOn(steps, u)
          /\ Sources(steps, u) = {b.source} /\ ~ IsReview(steps, u)
          /\ Preds(steps, u) = Plain(steps, u) \cup {b.source, b.review}
          /\ b.source \notin Plain(steps, u) /\ b.review \notin Plain(steps, u)
          /\ Ways(u) = {Plain(steps, u) \cup {b.source}, Plain(steps, u) \cup {b.review}}
      BY <3>1, BranchShape, PredsShape, WaysShape DEF Plain
    <3>3. \A d \in Preds(steps, u) :
             Route(steps, d, u) = IF d = b.source THEN DefaultRoute ELSE Unconditional
      BY <3>2, Routes
    <3>4. Plain(steps, u) \subseteq DependsOn(steps, u)
      BY DEF Plain
    <3>5. SUFFICES ASSUME \A d \in DependsOn(steps, u) : d \notin Late, b.source \notin Late
                   PROVE  FALSE
      BY <3>1
    <3>6. \A d \in Plain(steps, u) : Sent({}, d, u)
      <4> TAKE d \in Plain(steps, u)
      <4>1. d \in Preds(steps, u) /\ d \notin Late /\ ~ IsReview(steps, d) /\ d # b.source
        BY <3>2, <3>4, <3>5 DEF IsReview
      <4> HIDE DEF Late
      <4> QED
        BY <2>2, <3>3, <4>1
    <3>7. asked => Sent({}, b.review, u)
      <4>1. b.review \in Preds(steps, u) /\ b.review \notin Late
        BY <3>2, <3>5
      <4> HIDE DEF Late
      <4> QED
        BY <2>2, <3>2, <3>3, <4>1
    <3>8. ~ asked => Sent({}, b.source, u)
      <4>1. b.source \in Preds(steps, u) /\ b.source \notin Late /\ ~ IsReview(steps, b.source)
        BY <3>2, <3>5 DEF IsReview
      <4>2. ~ asked => Chosen(b.source) = DefaultRoute
        BY SourceChooses
      <4> HIDE DEF Late
      <4> QED
        BY <2>2, <3>3, <4>1, <4>2
    <3> QED
      BY <2>1, <3>2, <3>6, <3>7, <3>8
  <2>4. CASE ~ IsSynthesis(steps, u)
    <3>1. /\ Preds(steps, u) = DependsOn(steps, u) /\ Sources(steps, u) = {}
          /\ Ways(u) = {Preds(steps, u)}
      BY <2>1, <2>4, PredsShape, WaysShape
    <3>2. PICK d \in Preds(steps, u) : ~ Sent({}, d, u)
      BY <2>1, <3>1
    <3>3. ~ IsReview(steps, d)
      <4>1. ASSUME NEW b \in Branches(steps), d = b.review PROVE FALSE
        <5>1. u = b.synthesis
          BY <3>1, <4>1 DEF DependsOn, OnlySynthesisAfterReview
        <5> QED
          BY <2>4, <5>1 DEF IsSynthesis
      <4> QED
        BY <4>1 DEF IsReview
    <3>4. Route(steps, d, u) \in {Unconditional, Chosen(d)}
      <4>1. CASE IsReview(steps, u)
        <5>1. PICK b \in Branches(steps) : u = b.review
          BY <4>1 DEF IsReview
        <5>2. d = b.source /\ asked
          BY <3>2, <4>1, <5>1, PredsShape
        <5> QED
          BY <4>1, <5>2, Routes, SourceChooses
      <4>2. CASE ~ IsReview(steps, u)
        BY <3>1, <4>2, Routes
      <4> QED
        BY <4>1, <4>2
    <3> HIDE DEF Late
    <3> QED
      BY <2>2, <3>1, <3>2, <3>3, <3>4
  <2> QED
    BY <2>3, <2>4
<1>2. Late = {}
  <2>1. Late \subseteq Ids(steps)
    OBVIOUS
  <2> HIDE DEF Late
  <2> QED
    BY <1>1, <2>1, NoneBehind
<1>3. ASSUME IsReview(steps, t), Built!Node(t) \in Alive({}) PROVE asked
  BY <1>3, OneWayTaken DEF IsReview
<1> QED
  BY <1>2, <1>3

(* Nothing starts behind a stuck step it depends on, if both would have    *)
(* run.                                                                    *)
LEMMA NoneBehindStuck ==
    ASSUME steps \in Seq(Steps), WellFormed(steps), OnlySynthesisAfterReview,
           NEW t \in Ids(steps), NEW d \in DependsOn(steps, t),
           IsReview(steps, d) => asked
    PROVE  Built!Node(t) \notin Alive({d})
<1> SUFFICES ASSUME Built!Node(t) \in Alive({d}) PROVE FALSE
  OBVIOUS
<1>1. ~ Sent({d}, d, t) /\ d \in Preds(steps, t)
  BY DEF Sent, Preds
<1>2. PICK W \in Ways(t) : \A x \in W : Sent({d}, x, t)
  BY <1>1, StepAlive
<1>3. d \notin W
  BY <1>1, <1>2
<1>4. CASE ~ IsSynthesis(steps, t)
  BY <1>1, <1>2, <1>3, <1>4, WaysShape
<1>5. CASE IsSynthesis(steps, t)
  <2>1. PICK b \in Branches(steps) : t = b.synthesis
    BY <1>5 DEF IsSynthesis
  <2>2. /\ W = Plain(steps, t) \cup {b.source} \/ W = Plain(steps, t) \cup {b.review}
        /\ Preds(steps, t) = Plain(steps, t) \cup {b.source, b.review}
    BY <2>1, WaysShape, PredsShape
  <2>3. CASE d = b.source
    <3>1. Sent({d}, b.review, t)
      BY <1>2, <1>3, <2>2, <2>3
    <3>2. b.source \notin {d}
      BY <3>1, OneWayTaken DEF Sent
    <3> QED
      BY <2>3, <3>2
  <2>4. CASE d = b.review
    <3>1. Sent({d}, b.source, t)
      BY <1>2, <1>3, <2>2, <2>4
    <3>2. asked
      BY <2>4 DEF IsReview
    <3> QED
      BY <2>1, <3>1, <3>2, OneWayTaken
  <2> QED
    BY <1>1, <1>3, <2>2, <2>3, <2>4
<1> QED
  BY <1>4, <1>5

(* The graph GraphBuilder makes of a plan of any size agrees with the      *)
(* execution by AdkGraphRuntime: it starts the same steps, each once, and  *)
(* none of them before those it depends on.                                *)
THEOREM BuiltGraphAlwaysAgrees == GSpec => []BuiltGraphAgrees
<1>1. GInv /\ CompletionIsFull => BuiltGraphAgrees
  <2> DEFINE starts == Built!Starts(Conditioned, Said, {})
  <2> SUFFICES ASSUME GInv, CompletionIsFull, phase = "completed", OnlySynthesisAfterReview
               PROVE  SameRun(starts, Conditioned)
    BY DEF BuiltGraphAgrees
  <2>1. steps \in Seq(Steps) /\ WellFormed(steps)
    BY WorkflowFacts DEF GInv
  <2>2. \A u \in Ids(steps) : Built!Starts(Conditioned, Said, {})[u] =
                                 IF IsReview(steps, u) => asked THEN 1 ELSE 0
    BY <2>1, StartsOnce, AllRun
  <2>3. \A t \in Ids(steps) : requests[t] = IF IsReview(steps, t) /\ ~ asked THEN 0 ELSE 1
    BY DEF CompletionIsFull, CompletedRanAll, IsReview
  <2>4. ASSUME NEW t PROVE DependsOn(Conditioned, t) = DependsOn(steps, t)
    BY <2>1, ConditionedFields DEF DependsOn
  <2>5. ASSUME NEW t \in Ids(steps), NEW d \in DependsOn(steps, t), starts[d] > 0
        PROVE  Built!Starts(Conditioned, Said, {d})[t] = 0
    <3>1. d \in Ids(steps)
      BY <2>1, DependenciesAreSteps
    <3>2. IsReview(steps, d) => asked
      BY <2>2, <2>5, <3>1
    <3> QED
      BY <2>1, <3>2, StartsOnce, NoneBehindStuck
  <2>6. \A t \in Ids(steps) : starts[t] = requests[t]
    BY <2>2, <2>3
  <2> HIDE DEF starts
  <2> QED
    BY <2>4, <2>5, <2>6 DEF SameRun
<1> QED
  BY <1>1, Invariance, CompletionIsAlwaysFull, PTL
=============================================================================
