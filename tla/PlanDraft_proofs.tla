-------------------------- MODULE PlanDraft_proofs --------------------------
(***************************************************************************)
(* Lemmas about the edits of a draft: each returns a plan, and removing a  *)
(* step of a valid plan leaves a valid plan.                               *)
(***************************************************************************)
EXTENDS PlanDraft, TLAPS, FiniteSetTheorems, FunctionTheorems

(* A version step of a plan is a plan (_with_next_version).                *)
LEMMA NextVersionType ==
    ASSUME NEW plan \in Plans
    PROVE  /\ NextVersion(plan) \in Plans
           /\ NextVersion(plan).version = plan.version + 1
BY DEF NextVersion, Plans

(* A function from the positions of a list is a list.                      *)
LEMMA SequenceOf ==
    ASSUME NEW S, NEW n \in Nat, NEW f \in [1..n -> S]
    PROVE  f \in Seq(S)
OBVIOUS

(* The agents of a list of steps are agents.                               *)
LEMMA AgentsOfSteps ==
    ASSUME NEW steps \in Seq(Steps)
    PROVE  AgentsOf(steps) \in SUBSET Agents
<1>1. \A i \in DOMAIN steps : steps[i] \in Steps
  OBVIOUS
<1>2. \A i \in DOMAIN steps : steps[i].agent \in Agents
  BY <1>1 DEF Steps
<1> QED
  BY <1>2 DEF AgentsOf

(* Rewiring a step yields a step (_rewired_dependencies).                  *)
LEMMA RewiredType ==
    ASSUME NEW step \in Steps, NEW gone \in Steps
    PROVE  Rewired(step, gone) \in Steps
BY DEF Rewired, Steps

(* The list without one of its steps is a list of steps, one shorter.      *)
LEMMA WithoutStepType ==
    ASSUME NEW steps \in Seq(Steps), NEW i \in DOMAIN steps
    PROVE  /\ WithoutStep(steps, i) \in Seq(Steps)
           /\ Len(WithoutStep(steps, i)) = Len(steps) - 1
           /\ DOMAIN WithoutStep(steps, i) = 1..(Len(steps) - 1)
<1> DEFINE n == Len(steps) - 1
<1>1. n \in Nat
  OBVIOUS
<1>2. \A j \in 1..n : (IF j < i THEN steps[j] ELSE steps[j + 1]) \in Steps
  OBVIOUS
<1>3. WithoutStep(steps, i) \in [1..n -> Steps]
  BY <1>2, RewiredType DEF WithoutStep
<1> QED
  BY <1>1, <1>3

(* _remove_step returns a plan and leaves the version to                   *)
(* _with_next_version.                                                     *)
LEMMA RemoveStepType ==
    ASSUME NEW plan \in Plans, NEW i \in DOMAIN plan.steps
    PROVE  /\ RemoveStep(plan, i) \in Plans
           /\ RemoveStep(plan, i).version = plan.version
<1>1. plan.steps \in Seq(Steps)
  BY DEF Plans
<1>2. WithoutStep(plan.steps, i) \in Seq(Steps)
  BY <1>1, WithoutStepType
<1>3. AgentsOf(WithoutStep(plan.steps, i)) \in SUBSET Agents
  BY <1>2, AgentsOfSteps
<1> QED
  BY <1>2, <1>3 DEF RemoveStep, Plans

(* _replace_agent returns a plan of the same version.                      *)
LEMMA ReplaceAgentType ==
    ASSUME NEW plan \in Plans, NEW i \in DOMAIN plan.steps, NEW agent \in Agents
    PROVE  /\ ReplaceAgent(plan, i, agent) \in Plans
           /\ ReplaceAgent(plan, i, agent).version = plan.version
<1> DEFINE new == [plan.steps EXCEPT ![i].agent = agent, ![i].added = <<>>]
<1>1. plan.steps \in Seq(Steps)
  BY DEF Plans
<1>2. <<>> \in Seq(Texts)
  OBVIOUS
<1> DEFINE n == Len(plan.steps)
<1>10. n \in Nat /\ DOMAIN plan.steps = 1..n
  BY <1>1
<1>11. \A k \in 1..n : plan.steps[k] \in Steps
  BY <1>1
<1>12. [plan.steps[i] EXCEPT !.agent = agent, !.added = <<>>] \in Steps
  BY <1>10, <1>11, <1>2 DEF Steps
<1>13. new \in [1..n -> Steps]
  BY <1>1, <1>10, <1>11, <1>12
<1>3. new \in Seq(Steps)
  BY <1>10, <1>13, SequenceOf
<1>4. AgentsOf(new) \in SUBSET Agents
  BY <1>3, AgentsOfSteps
<1> HIDE DEF new
<1>5. ReplaceAgent(plan, i, agent) = [plan EXCEPT !.steps = new,
                                                  !.selected = AgentsOf(new)]
  BY DEF ReplaceAgent, new
<1> QED
  BY <1>3, <1>4, <1>5 DEF Plans

(* _reorder_steps returns a plan of the same version.                      *)
LEMMA ReorderStepsType ==
    ASSUME NEW plan \in Plans, NEW order \in Orders(plan)
    PROVE  /\ ReorderSteps(plan, order) \in Plans
           /\ ReorderSteps(plan, order).version = plan.version
<1> DEFINE new == [k \in DOMAIN plan.steps |-> plan.steps[order[k]]]
<1>1. plan.steps \in Seq(Steps)
  BY DEF Plans
<1>2. \A k \in DOMAIN plan.steps : order[k] \in DOMAIN plan.steps
  BY DEF Orders
<1> DEFINE n == Len(plan.steps)
<1>10. n \in Nat /\ DOMAIN plan.steps = 1..n
  BY <1>1
<1>11. \A k \in 1..n : plan.steps[order[k]] \in Steps
  BY <1>1, <1>2, <1>10
<1>12. new \in [1..n -> Steps]
  BY <1>10, <1>11
<1>3. new \in Seq(Steps)
  BY <1>10, <1>12, SequenceOf
<1> HIDE DEF new
<1>4. ReorderSteps(plan, order) = [plan EXCEPT !.steps = new]
  BY DEF ReorderSteps, new
<1> QED
  BY <1>3, <1>4 DEF Plans

(* _add_instruction returns a plan of the same version.                    *)
LEMMA AddInstructionType ==
    ASSUME NEW plan \in Plans, NEW i \in DOMAIN plan.steps, NEW text \in Texts
    PROVE  /\ AddInstruction(plan, i, text) \in Plans
           /\ AddInstruction(plan, i, text).version = plan.version
<1> DEFINE new == [plan.steps EXCEPT ![i].added = Append(@, text)]
<1>1. plan.steps \in Seq(Steps)
  BY DEF Plans
<1>2. plan.steps[i] \in Steps
  BY <1>1
<1>3. Append(plan.steps[i].added, text) \in Seq(Texts)
  BY <1>2 DEF Steps
<1> DEFINE n == Len(plan.steps)
<1>10. n \in Nat /\ DOMAIN plan.steps = 1..n
  BY <1>1
<1>11. \A k \in 1..n : plan.steps[k] \in Steps
  BY <1>1
<1>12. [plan.steps[i] EXCEPT !.added = Append(@, text)] \in Steps
  BY <1>2, <1>3 DEF Steps
<1>13. new \in [1..n -> Steps]
  BY <1>1, <1>10, <1>11, <1>12
<1>4. new \in Seq(Steps)
  BY <1>10, <1>13, SequenceOf
<1> HIDE DEF new
<1>5. AddInstruction(plan, i, text) = [plan EXCEPT !.steps = new]
  BY DEF AddInstruction, new
<1> QED
  BY <1>4, <1>5 DEF Plans
-----------------------------------------------------------------------------
(* Position j of the list without step i holds what was at Source(i, j).   *)
Source(i, j) == IF j < i THEN j ELSE j + 1

(* Each position of the shortened list holds the rewired step of its       *)
(* source, and every step but the removed one is the source of a position. *)
LEMMA WithoutStepSource ==
    ASSUME NEW steps \in Seq(Steps), NEW i \in DOMAIN steps
    PROVE  /\ \A j \in DOMAIN WithoutStep(steps, i) :
                 /\ Source(i, j) \in DOMAIN steps \ {i}
                 /\ WithoutStep(steps, i)[j] = Rewired(steps[Source(i, j)], steps[i])
           /\ \A k \in DOMAIN steps \ {i} :
                 \E j \in DOMAIN WithoutStep(steps, i) : Source(i, j) = k
<1>1. /\ Len(steps) \in Nat
      /\ DOMAIN steps = 1..Len(steps)
      /\ DOMAIN WithoutStep(steps, i) = 1..(Len(steps) - 1)
  BY WithoutStepType
<1>2. ASSUME NEW j \in DOMAIN WithoutStep(steps, i)
      PROVE  /\ Source(i, j) \in DOMAIN steps \ {i}
             /\ WithoutStep(steps, i)[j] = Rewired(steps[Source(i, j)], steps[i])
  BY <1>1 DEF Source, WithoutStep
<1>3. ASSUME NEW k \in DOMAIN steps \ {i}
      PROVE  \E j \in DOMAIN WithoutStep(steps, i) : Source(i, j) = k
  <2> DEFINE j == IF k < i THEN k ELSE k - 1
  <2>1. j \in DOMAIN WithoutStep(steps, i) /\ Source(i, j) = k
    BY <1>1 DEF Source
  <2> QED
    BY <2>1
<1> QED
  BY <1>2, <1>3

(* What rewiring does to one step.                                         *)
LEMMA RewiredFields ==
    ASSUME NEW step \in Steps, NEW gone \in Steps
    PROVE  /\ Rewired(step, gone).id = step.id
           /\ Rewired(step, gone).agent = step.agent
           /\ gone.id \notin step.deps => Rewired(step, gone).deps = step.deps
           /\ Rewired(step, gone).deps \subseteq
                 (step.deps \ {gone.id}) \cup gone.deps
BY DEF Rewired, Steps

(* No valid plan has a step that depends on itself.                        *)
LEMMA NoSelfDependency ==
    ASSUME NEW steps \in Seq(Steps), Acyclic(steps), UniqueIds(steps),
           NEW i \in DOMAIN steps
    PROVE  steps[i].id \notin steps[i].deps
<1>1. {steps[i].id} \in SUBSET Ids(steps)
  BY DEF Ids
<1>2. PICK j \in DOMAIN steps : /\ steps[j].id \in {steps[i].id}
                                /\ steps[j].deps \cap {steps[i].id} = {}
  BY <1>1 DEF Acyclic
<1>3. j = i
  BY <1>2 DEF UniqueIds
<1> QED
  BY <1>2, <1>3

(* Removing a step of a valid plan that has others leaves a valid plan:    *)
(* the rewired dependencies name remaining steps and form no cycle, so     *)
(* the contract's validation of the copy never refuses a removal           *)
(* (_remove_step, _rewired_dependencies, _validate_dependency_topology).   *)
THEOREM RemovalKeepsPlanValid ==
    ASSUME NEW steps \in Seq(Steps), NEW i \in DOMAIN steps,
           WellFormed(steps), Len(steps) > 1
    PROVE  WellFormed(WithoutStep(steps, i))
<1> DEFINE left == WithoutStep(steps, i)
           gone == steps[i]
<1>1. /\ UniqueIds(steps)
      /\ DeclaredDependencies(steps)
      /\ Acyclic(steps)
  BY DEF WellFormed
<1>2. /\ left \in Seq(Steps)
      /\ Len(left) = Len(steps) - 1
      /\ \A k \in DOMAIN steps : steps[k] \in Steps
  BY WithoutStepType
<1>3. \A j \in DOMAIN left : /\ Source(i, j) \in DOMAIN steps \ {i}
                             /\ left[j] = Rewired(steps[Source(i, j)], gone)
  BY WithoutStepSource
<1>4. \A k \in DOMAIN steps \ {i} : \E j \in DOMAIN left : Source(i, j) = k
  BY WithoutStepSource
<1> HIDE DEF left
<1>5. \A j \in DOMAIN left :
         LET old == steps[Source(i, j)]
         IN  /\ left[j].id = old.id
             /\ gone.id \notin old.deps => left[j].deps = old.deps
             /\ left[j].deps \subseteq (old.deps \ {gone.id}) \cup gone.deps
  BY <1>2, <1>3, RewiredFields
<1> HIDE DEF gone
<1>6. left # <<>>
  BY <1>2
<1>7. UniqueIds(left)
  <2> SUFFICES ASSUME NEW j \in DOMAIN left, NEW k \in DOMAIN left,
                      left[j].id = left[k].id
               PROVE  j = k
    BY DEF UniqueIds
  <2>1. Source(i, j) = Source(i, k)
    BY <1>1, <1>3, <1>5 DEF UniqueIds
  <2>2. i \in Int /\ j \in Int /\ k \in Int
    BY <1>2
  <2> QED
    BY <2>1, <2>2 DEF Source
<1>8. Ids(left) = Ids(steps) \ {gone.id}
  <2>1. \A x \in Ids(left) : x \in Ids(steps) \ {gone.id}
    BY <1>1, <1>3, <1>5 DEF Ids, UniqueIds, gone
  <2>2. ASSUME NEW x \in Ids(steps), x # gone.id
        PROVE  x \in Ids(left)
    <3>1. PICK k \in DOMAIN steps : x = steps[k].id
      BY DEF Ids
    <3>2. k # i
      BY <2>2, <3>1 DEF gone
    <3>3. PICK j \in DOMAIN left : Source(i, j) = k
      BY <1>4, <3>2
    <3> QED
      BY <1>5, <3>1, <3>3 DEF Ids
  <2> QED
    BY <2>1, <2>2
<1>9. gone.id \notin gone.deps
  BY <1>1, NoSelfDependency DEF gone
<1>10. DeclaredDependencies(left)
  <2> SUFFICES ASSUME NEW j \in DOMAIN left
               PROVE  left[j].deps \subseteq Ids(left)
    BY DEF DeclaredDependencies
  <2>1. /\ steps[Source(i, j)].deps \subseteq Ids(steps)
        /\ gone.deps \subseteq Ids(steps)
    BY <1>1, <1>3 DEF DeclaredDependencies, gone
  <2> QED
    BY <1>5, <1>8, <1>9, <2>1
<1>11. Acyclic(left)
  <2> SUFFICES ASSUME NEW S \in SUBSET Ids(left), S # {}
               PROVE  \E j \in DOMAIN left :
                         left[j].id \in S /\ left[j].deps \cap S = {}
    BY DEF Acyclic
  <2>1. S \in SUBSET Ids(steps) /\ gone.id \notin S
    BY <1>8
  <2>2. gone.id \in Ids(steps)
    BY DEF Ids, gone
  <2>3. CASE gone.deps \cap S = {}
    <3>1. PICK k \in DOMAIN steps : steps[k].id \in S /\ steps[k].deps \cap S = {}
      BY <1>1, <2>1 DEF Acyclic
    <3>2. k # i
      BY <2>1, <3>1 DEF gone
    <3>3. PICK j \in DOMAIN left : Source(i, j) = k
      BY <1>4, <3>2
    <3>4. left[j].id \in S /\ left[j].deps \cap S = {}
      BY <1>5, <2>3, <3>1, <3>3
    <3> QED
      BY <3>4
  <2>4. CASE gone.deps \cap S # {}
    <3> DEFINE T == S \cup {gone.id}
    <3>1. T \in SUBSET Ids(steps) /\ T # {}
      BY <2>1, <2>2
    <3>2. PICK k \in DOMAIN steps : steps[k].id \in T /\ steps[k].deps \cap T = {}
      BY <1>1, <3>1 DEF Acyclic
    <3>3. k # i
      BY <2>4, <3>2 DEF gone
    <3>4. steps[k].id \in S
      BY <1>1, <3>2, <3>3 DEF UniqueIds, gone
    <3>5. PICK j \in DOMAIN left : Source(i, j) = k
      BY <1>4, <3>3
    <3>6. left[j].id \in S /\ left[j].deps \cap S = {}
      BY <1>5, <3>2, <3>4, <3>5
    <3> QED
      BY <3>6
  <2> QED
    BY <2>3, <2>4
<1> QED
  BY <1>6, <1>7, <1>10, <1>11 DEF WellFormed, left

-----------------------------------------------------------------------------
(* Precedence.                                                             *)

KeepsPrecedence(old, new) ==
    \A a, b \in Ids(old) \cap Ids(new) : Precedes(old, a, b) <=> Precedes(new, a, b)

(* Every step of one list is in the other, with the same dependencies.     *)
Within(old, new) ==
    \A i \in DOMAIN old : \E j \in DOMAIN new :
       new[j].id = old[i].id /\ new[j].deps = old[i].deps

(* Precedence depends on ids and dependencies alone.                       *)
LEMMA SameGraphSamePrecedence ==
    ASSUME NEW old, NEW new, Within(old, new), Within(new, old),
           UniqueIds(old), UniqueIds(new)
    PROVE  Ids(old) = Ids(new) /\ KeepsPrecedence(old, new)
<1>1. Ids(old) = Ids(new)
  BY DEF Ids, Within
<1>2. ASSUME NEW S PROVE Closed(old, S) <=> Closed(new, S)
  BY DEF Closed, Within
<1> QED
  BY <1>1, <1>2 DEF KeepsPrecedence, Precedes

(* The steps of a shortened list, in terms of the original one.            *)
LEMMA LeftSteps ==
    ASSUME NEW steps \in Seq(Steps), NEW i \in DOMAIN steps, UniqueIds(steps)
    PROVE  /\ \A j \in DOMAIN WithoutStep(steps, i) : \E k \in DOMAIN steps \ {i} :
                 WithoutStep(steps, i)[j] = Rewired(steps[k], steps[i])
           /\ \A k \in DOMAIN steps \ {i} : \E j \in DOMAIN WithoutStep(steps, i) :
                 WithoutStep(steps, i)[j] = Rewired(steps[k], steps[i])
           /\ Ids(WithoutStep(steps, i)) = Ids(steps) \ {steps[i].id}
<1> DEFINE left == WithoutStep(steps, i)
<1>1. \A k \in DOMAIN steps : steps[k] \in Steps
  BY WithoutStepType
<1>2. \A j \in DOMAIN left : \E k \in DOMAIN steps \ {i} :
         left[j] = Rewired(steps[k], steps[i])
  BY WithoutStepSource
<1>3. \A k \in DOMAIN steps \ {i} : \E j \in DOMAIN left :
         left[j] = Rewired(steps[k], steps[i])
  BY WithoutStepSource
<1>4. \A k \in DOMAIN steps : Rewired(steps[k], steps[i]).id = steps[k].id
  BY <1>1, RewiredFields
<1> HIDE DEF left
<1>5. ASSUME NEW x PROVE x \in Ids(left) <=> x \in Ids(steps) \ {steps[i].id}
  BY <1>2, <1>3, <1>4 DEF Ids, UniqueIds
<1> QED
  BY <1>2, <1>3, <1>5 DEF left

(* Removing a step neither loses nor adds an order between two others: a   *)
(* closed set of the shortened plan is one of the original, without the    *)
(* removed step or with it when a member depended on it.                   *)
LEMMA RemovalKeepsPrecedence ==
    ASSUME NEW steps \in Seq(Steps), NEW i \in DOMAIN steps, WellFormed(steps)
    PROVE  KeepsPrecedence(steps, WithoutStep(steps, i))
<1> DEFINE left == WithoutStep(steps, i)
           gone == steps[i]
<1>1. UniqueIds(steps) /\ Acyclic(steps)
  BY DEF WellFormed
<1>2. \A k \in DOMAIN steps : steps[k] \in Steps
  BY WithoutStepType
<1>3. \A j \in DOMAIN left : \E k \in DOMAIN steps \ {i} :
         left[j] = Rewired(steps[k], gone)
  BY <1>1, LeftSteps
<1>4. \A k \in DOMAIN steps \ {i} : \E j \in DOMAIN left :
         left[j] = Rewired(steps[k], gone)
  BY <1>1, LeftSteps
<1>5. Ids(left) = Ids(steps) \ {gone.id}
  BY <1>1, LeftSteps
<1>6. \A k \in DOMAIN steps :
         /\ Rewired(steps[k], gone).id = steps[k].id
         /\ gone.id \notin steps[k].deps => Rewired(steps[k], gone).deps = steps[k].deps
         /\ gone.id \in steps[k].deps =>
               Rewired(steps[k], gone).deps
                  = ((steps[k].deps \ {gone.id}) \cup gone.deps) \ {steps[k].id}
  BY <1>2 DEF Rewired, Steps
<1>7. gone.id \notin gone.deps
  BY <1>1, NoSelfDependency
<1>8. \A k \in DOMAIN steps \ {i} : steps[k].id # gone.id
  BY <1>1 DEF UniqueIds
<1>9. gone.id \in Ids(steps)
  BY DEF Ids
<1> HIDE DEF left
<1>10. ASSUME NEW a \in Ids(left), NEW b \in Ids(left), Precedes(steps, a, b)
       PROVE  Precedes(left, a, b)
  <2> SUFFICES ASSUME NEW S \in SUBSET Ids(left), Closed(left, S), b \in S
               PROVE  a \in S
    BY DEF Precedes
  <2>1. ASSUME NEW k \in DOMAIN steps \ {i}, steps[k].id \in S
        PROVE  Rewired(steps[k], gone).deps \subseteq S
    BY <1>4, <1>6, <2>1 DEF Closed
  <2>2. CASE \A k \in DOMAIN steps \ {i} :
                steps[k].id \in S => gone.id \notin steps[k].deps
    <3>1. Closed(steps, S)
      <4> SUFFICES ASSUME NEW k \in DOMAIN steps, steps[k].id \in S
                   PROVE  steps[k].deps \subseteq S
        BY DEF Closed
      <4>1. k # i
        BY <1>5
      <4> QED
        BY <1>6, <2>1, <2>2, <4>1
    <3> QED
      BY <1>5, <1>10, <3>1 DEF Precedes
  <2>3. CASE \E k \in DOMAIN steps \ {i} :
                steps[k].id \in S /\ gone.id \in steps[k].deps
    <3> DEFINE T == S \cup {gone.id}
    <3>1. gone.deps \subseteq S
      <4>1. PICK k \in DOMAIN steps \ {i} :
               steps[k].id \in S /\ gone.id \in steps[k].deps
        BY <2>3
      <4>2. Rewired(steps[k], gone).deps \subseteq S
        BY <2>1, <4>1
      <4> QED
        BY <1>6, <4>1, <4>2
    <3>2. Closed(steps, T)
      <4> SUFFICES ASSUME NEW k \in DOMAIN steps, steps[k].id \in T
                   PROVE  steps[k].deps \subseteq T
        BY DEF Closed
      <4>1. CASE k = i
        BY <3>1, <4>1
      <4>2. CASE k # i
        <5>1. steps[k].id \in S
          BY <1>8, <4>2
        <5>2. Rewired(steps[k], gone).deps \subseteq S
          BY <2>1, <4>2, <5>1
        <5> QED
          BY <1>6, <5>1, <5>2
      <4> QED
        BY <4>1, <4>2
    <3>3. T \in SUBSET Ids(steps)
      BY <1>5, <1>9
    <3>4. a \in T
      BY <1>10, <3>2, <3>3 DEF Precedes
    <3> QED
      BY <1>5, <3>4
  <2> QED
    BY <2>2, <2>3
<1>11. ASSUME NEW a \in Ids(left), NEW b \in Ids(left), Precedes(left, a, b)
       PROVE  Precedes(steps, a, b)
  <2> SUFFICES ASSUME NEW T \in SUBSET Ids(steps), Closed(steps, T), b \in T
               PROVE  a \in T
    BY DEF Precedes
  <2> DEFINE S == T \ {gone.id}
  <2>1. Closed(left, S)
    <3> SUFFICES ASSUME NEW j \in DOMAIN left, left[j].id \in S
                 PROVE  left[j].deps \subseteq S
      BY DEF Closed
    <3>1. PICK k \in DOMAIN steps \ {i} : left[j] = Rewired(steps[k], gone)
      BY <1>3
    <3>2. steps[k].id \in T /\ steps[k].deps \subseteq T
      BY <1>6, <3>1 DEF Closed
    <3>3. gone.id \in T => gone.deps \subseteq T
      BY DEF Closed
    <3> QED
      BY <1>6, <1>7, <3>1, <3>2, <3>3
  <2>2. S \in SUBSET Ids(left) /\ b \in S
    BY <1>5
  <2> QED
    BY <1>11, <2>1, <2>2 DEF Precedes
<1>12. \A a, b \in Ids(steps) \cap Ids(left) : Precedes(steps, a, b) <=> Precedes(left, a, b)
  BY <1>10, <1>11
<1> QED
  BY <1>12 DEF KeepsPrecedence, left
=============================================================================
