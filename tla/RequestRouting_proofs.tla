------------------------ MODULE RequestRouting_proofs ------------------------
(***************************************************************************)
(* Routing and planning for every set of agents, every registry and every  *)
(* opinion of a language model: a draft is a plan the approval store and   *)
(* the runtime can rely on, none replaces another, the guardrail agents    *)
(* stay in.                                                                *)
(***************************************************************************)
EXTENDS RequestRouting, PlanDraft_proofs, RecursionLemmas

-----------------------------------------------------------------------------
(* Lists of agents and of steps.                                           *)

(* A finite set has an enumeration without repetitions, and SetToSeq is    *)
(* one.                                                                    *)
LEMMA Enumeration ==
    ASSUME NEW S, IsFiniteSet(S)
    PROVE  /\ SetToSeq(S) \in [1..Cardinality(S) -> S]
           /\ \A i, j \in 1..Cardinality(S) : SetToSeq(S)[i] = SetToSeq(S)[j] => i = j
           /\ \A s \in S : \E i \in 1..Cardinality(S) : SetToSeq(S)[i] = s
           /\ Cardinality(S) \in Nat
<1>1. Cardinality(S) \in Nat /\ ExistsBijection(1..Cardinality(S), S)
  BY FS_CardinalityType
<1>2. \E f \in [1..Cardinality(S) -> S] : IsInjective(f)
  BY <1>1 DEF ExistsBijection, Bijection, Injection, IsInjective
<1>3. SetToSeq(S) \in [1..Cardinality(S) -> S] /\ IsInjective(SetToSeq(S))
  BY <1>2 DEF SetToSeq
<1>4. SetToSeq(S) \in Injection(1..Cardinality(S), S)
  BY <1>3 DEF Injection, IsInjective
<1>5. Cardinality(1..Cardinality(S)) = Cardinality(S)
  BY <1>1, FS_Interval
<1>6. SetToSeq(S) \in Surjection(1..Cardinality(S), S)
  BY <1>1, <1>4, <1>5, FS_Injection
<1> QED
  BY <1>1, <1>3, <1>6 DEF IsInjective, Surjection

Lists(agents, S) == \A x \in S : \E i \in DOMAIN agents : agents[i] = x

(* The agents of a draft: the workstreams in some order, and the synthesis *)
(* at the end when the plan needs one.                                     *)
LEMMA SelectedAgents ==
    ASSUME NEW a, NEW known \in SUBSET Agents
    PROVE  LET agents == Selected(a, known)
               size   == Cardinality(Workstreams(a.agents, known))
           IN  /\ agents \in Seq(Agents)
               /\ size \in Nat
               /\ Len(agents) = IF NeedsSynthesis(a, known) THEN size + 1 ELSE size
               /\ \A i \in 1..size : agents[i] \in known \ {Synthesis}
               /\ NeedsSynthesis(a, known) => agents[size + 1] = Synthesis
               /\ \A i, j \in DOMAIN agents : agents[i] = agents[j] => i = j
               /\ Lists(agents, Workstreams(a.agents, known))
<1> DEFINE S == Workstreams(a.agents, known)
           first == SetToSeq(S)
           size == Cardinality(S)
           agents == Selected(a, known)
<1>1. S \subseteq known \ {Synthesis} /\ IsFiniteSet(S)
  <2>1. S \subseteq Agents /\ S \subseteq known \ {Synthesis}
    BY DEF Workstreams
  <2> QED
    BY <2>1, RoutingAssumption, FS_Subset
<1> HIDE DEF S
<1>2. /\ first \in [1..size -> S] /\ size \in Nat
      /\ \A i, j \in 1..size : first[i] = first[j] => i = j
      /\ \A s \in S : \E i \in 1..size : first[i] = s
  BY <1>1, Enumeration
<1>3. S \subseteq Agents /\ Synthesis \in Agents
  BY <1>1, AgentsAssumption
<1>4. first \in Seq(Agents) /\ Len(first) = size /\ DOMAIN first = 1..size
  BY <1>2, <1>3
<1>5. CASE ~ NeedsSynthesis(a, known)
  <2>1. agents = first \o <<>>
    BY <1>5 DEF Selected, S
  <2>2. agents = first
    BY <1>4, <2>1
  <2> QED
    BY <1>1, <1>2, <1>4, <1>5, <2>2 DEF S, Lists
<1>6. CASE NeedsSynthesis(a, known)
  <2>1. agents = first \o <<Synthesis>>
    BY <1>6 DEF Selected, S
  <2> HIDE DEF agents, first, size
  <2>2. /\ agents \in Seq(Agents) /\ Len(agents) = size + 1
        /\ DOMAIN agents = 1..(size + 1)
        /\ \A i \in 1..size : agents[i] = first[i]
        /\ agents[size + 1] = Synthesis
    BY <1>2, <1>3, <1>4, <2>1
  <2>3. \A i \in 1..size : agents[i] \in known \ {Synthesis}
    BY <1>1, <1>2, <2>2
  <2>4. \A i, j \in DOMAIN agents : agents[i] = agents[j] => i = j
    <3> SUFFICES ASSUME NEW i \in 1..(size + 1), NEW j \in 1..(size + 1),
                        agents[i] = agents[j]
                 PROVE  i = j
      BY <2>2
    <3>1. CASE i \in 1..size /\ j \in 1..size
      BY <1>2, <2>2, <3>1
    <3>2. CASE i = size + 1 /\ j \in 1..size
      BY <2>2, <2>3, <3>2
    <3>3. CASE i \in 1..size /\ j = size + 1
      BY <2>2, <2>3, <3>3
    <3>4. CASE i = size + 1 /\ j = size + 1
      BY <3>4
    <3> QED
      BY <1>2, <3>1, <3>2, <3>3, <3>4
  <2>5. Lists(agents, S)
    BY <1>2, <2>2 DEF Lists
  <2> QED
    BY <1>2, <1>6, <2>2, <2>3, <2>4, <2>5 DEF agents, size, S
<1> QED
  BY <1>5, <1>6

(* A sequence has finitely many elements.                                  *)
LEMMA FiniteRange ==
    ASSUME NEW V, NEW s \in Seq(V)
    PROVE  IsFiniteSet(Range(s)) /\ Cardinality(Range(s)) \in Nat
<1>1. Len(s) \in Nat /\ DOMAIN s = 1..Len(s)
  OBVIOUS
<1>2. s \in Surjection(1..Len(s), Range(s))
  <2>1. s \in [1..Len(s) -> Range(s)]
    BY <1>1 DEF Range
  <2>2. \A x \in Range(s) : \E i \in 1..Len(s) : s[i] = x
    BY <1>1 DEF Range
  <2> QED
    BY <2>1, <2>2 DEF Surjection
<1>3. IsFiniteSet(1..Len(s))
  BY <1>1, FS_Interval
<1> QED
  BY <1>2, <1>3, FS_Surjection, FS_CardinalityType

(* The elements after one more is appended.                                *)
LEMMA RangeOfAppend ==
    ASSUME NEW V, NEW s \in Seq(V), NEW x
    PROVE  Range(Append(s, x)) = Range(s) \cup {x}
<1>1. /\ Len(s) \in Nat /\ DOMAIN s = 1..Len(s)
      /\ DOMAIN Append(s, x) = 1..(Len(s) + 1)
      /\ \A i \in 1..Len(s) : Append(s, x)[i] = s[i]
      /\ Append(s, x)[Len(s) + 1] = x
  OBVIOUS
<1>2. \A i \in 1..(Len(s) + 1) : i \in 1..Len(s) \/ i = Len(s) + 1
  BY <1>1
<1>3. \A i \in 1..Len(s) : i \in 1..(Len(s) + 1)
  BY <1>1
<1>4. Len(s) + 1 \in 1..(Len(s) + 1)
  BY <1>1
<1> QED
  BY <1>1, <1>2, <1>3, <1>4 DEF Range

(* The first number found is a number, if any is found.                    *)
LEMMA LeastIn ==
    ASSUME NEW T \in SUBSET Nat, T # {}
    PROVE  Min(T) \in T
<1>1. \E m \in T : \A k \in T : m <= k
  BY LeastNumber
<1> QED
  BY <1>1 DEF Min

(* The numbers by which an id of the stem is free.                         *)
FreeNumbers(stem, used) ==
    {n \in 1..(Cardinality(used) + 1) : Numbered[<<stem, n>>] \notin used}

(* Fewer ids in use than there are agents leave one of every stem, and it  *)
(* is found (_step_ids_by_agent_id).                                       *)
LEMMA FirstFreeIsFree ==
    ASSUME NEW a \in Agents, NEW used, IsFiniteSet(used),
           Cardinality(used) < Cardinality(Agents)
    PROVE  /\ FirstFree(Slug[a], used) \in StepIds
           /\ FirstFree(Slug[a], used) \notin used
<1> DEFINE size == Cardinality(used)
           numbered == [n \in 1..(size + 1) |-> Numbered[<<Slug[a], n>>]]
           free == FreeNumbers(Slug[a], used)
<1>1. size \in Nat /\ Cardinality(Agents) \in Nat /\ size < Cardinality(Agents)
  BY RoutingAssumption, FS_CardinalityType
<1> HIDE DEF size
<1>2. ASSUME free = {} PROVE FALSE
  <2>1. \A n \in 1..(size + 1) : Numbered[<<Slug[a], n>>] \in used
    BY <1>2 DEF FreeNumbers, size
  <2>2. numbered \in [1..(size + 1) -> used]
    BY <2>1
  <2>3. IsFiniteSet(1..(size + 1)) /\ Cardinality(1..(size + 1)) = size + 1
    BY <1>1, FS_Interval
  <2>4. \A m \in 1..(size + 1) : m \in 1..Cardinality(Agents)
    BY <1>1
  <2>5. \A m, n \in 1..(size + 1) : numbered[m] = numbered[n] => m = n
    BY <2>4, RoutingAssumption
  <2> HIDE DEF numbered
  <2>6. numbered \in Injection(1..(size + 1), used)
    BY <2>2, <2>5 DEF Injection, IsInjective
  <2>7. size + 1 <= size
    BY <2>3, <2>6, FS_Injection DEF size
  <2> QED
    BY <1>1, <2>7
<1>3. free \in SUBSET Nat
  BY <1>1 DEF FreeNumbers, size
<1> HIDE DEF free
<1>4. Min(free) \in free
  BY <1>2, <1>3, LeastIn
<1>5. /\ Min(free) \in 1..Cardinality(Agents)
      /\ Numbered[<<Slug[a], Min(free)>>] \notin used
  BY <1>1, <1>4 DEF free, FreeNumbers, size
<1>6. FirstFree(Slug[a], used) = Numbered[<<Slug[a], Min(free)>>]
  BY DEF FirstFree, free, FreeNumbers
<1> QED
  BY <1>5, <1>6, RoutingAssumption

(* The ids are given out one by one.                                       *)
LEMMA IdsOneByOne ==
    ASSUME NEW agents \in Seq(Agents)
    PROVE  \E ids :
              /\ StepIdsOf(agents) = ids[Len(agents)]
              /\ ids[0] = <<>>
              /\ \A i \in 1..Len(agents) :
                    ids[i] = Append(ids[i - 1],
                                    FirstFree(Slug[agents[i]], Range(ids[i - 1])))
<1> DEFINE n == Len(agents)
           M == Nat \cup {Min({})}
           V == {Numbered[x] : x \in {Slug[a] : a \in Agents} \X M}
           S == Seq(V)
           More(i, s) == Append(s, FirstFree(Slug[agents[i]], Range(s)))
           F == [x \in (1..n) \X S |-> More(x[1], x[2])]
           Given(g) == g = [i \in 0..n |->
                          IF i = 0 THEN <<>>
                          ELSE Append(g[i - 1], FirstFree(Slug[agents[i]], Range(g[i - 1])))]
           ids == CHOOSE h : Given(h)
<1>1. n \in Nat /\ \A i \in 1..n : agents[i] \in Agents
  OBVIOUS
<1>2. ASSUME NEW a \in Agents, NEW s \in S
      PROVE  FirstFree(Slug[a], Range(s)) \in V
  <2> DEFINE free == FreeNumbers(Slug[a], Range(s))
  <2> HIDE DEF V
  <2>1. Cardinality(Range(s)) \in Nat
    BY FiniteRange
  <2>2. free \in SUBSET Nat
    BY <2>1 DEF FreeNumbers
  <2>3. FirstFree(Slug[a], Range(s)) = Numbered[<<Slug[a], Min(free)>>]
    BY DEF FirstFree, FreeNumbers
  <2> HIDE DEF free
  <2>4. Min(free) \in M
    BY <2>2, LeastIn
  <2> HIDE DEF M
  <2>5. <<Slug[a], Min(free)>> \in {Slug[b] : b \in Agents} \X M
    BY <2>4
  <2> QED
    BY <2>3, <2>5 DEF V
<1> HIDE DEF V
<1>3. ASSUME NEW i \in 1..n, NEW s \in S
      PROVE  More(i, s) \in S
  <2> DEFINE id == FirstFree(Slug[agents[i]], Range(s))
  <2>1. id \in V
    BY <1>1, <1>2
  <2> HIDE DEF id
  <2>2. Append(s, id) \in S
    BY <2>1
  <2> QED
    BY <2>2 DEF id
<1>4. <<>> \in S
  OBVIOUS
<1> HIDE DEF S, More, n
<1>5. F \in [(1..n) \X S -> S] /\ \A i \in 1..n, s \in S : F[<<i, s>>] = More(i, s)
  BY <1>3
<1> HIDE DEF F
<1>6. PICK g \in [0..n -> S] : Iterates(g, n, <<>>, F)
  BY <1>1, <1>4, <1>5, RecursionExists
<1>7. g[0] = <<>> /\ \A j \in 1..n : g[j] = More(j, g[j - 1])
  <2>1. \A j \in 1..n : j - 1 \in 0..n
    BY <1>1
  <2> QED
    BY <1>5, <1>6, <2>1 DEF Iterates
<1>8. Given(g)
  BY <1>1, <1>6, <1>7 DEF More
<1>9. StepIdsOf(agents) = ids[n]
  BY DEF StepIdsOf, n
<1> HIDE DEF Given
<1>10. Given(ids)
  BY <1>8
<1> HIDE DEF ids
<1>11. ids[0] = <<>>
  BY <1>1, <1>10 DEF Given
<1>12. ASSUME NEW i \in 1..n
       PROVE  ids[i] = Append(ids[i - 1], FirstFree(Slug[agents[i]], Range(ids[i - 1])))
  <2>1. i \in 0..n /\ i # 0
    BY <1>1
  <2> QED
    BY <1>10, <2>1 DEF Given
<1> QED
  BY <1>9, <1>11, <1>12 DEF n

(* No two steps get the same id, also those of agents with equal stems or  *)
(* with the stem that another one's number makes (_step_ids_by_agent_id).  *)
LEMMA StepIdsDiffer ==
    ASSUME NEW agents \in Seq(Agents),
           \A i, j \in DOMAIN agents : agents[i] = agents[j] => i = j
    PROVE  LET ids == StepIdsOf(agents)
           IN  /\ \A i \in DOMAIN agents : ids[i] \in StepIds
               /\ \A i, j \in DOMAIN agents : ids[i] = ids[j] => i = j
<1> DEFINE n == Len(agents)
           Distinct(s) == \A i, j \in 1..Len(s) : s[i] = s[j] => i = j
<1>1. n \in Nat /\ DOMAIN agents = 1..n /\ \A i \in 1..n : agents[i] \in Agents
  OBVIOUS
<1>2. n <= Cardinality(Agents)
  <2>1. agents \in Injection(1..n, Agents)
    BY <1>1 DEF Injection, IsInjective
  <2>2. Cardinality(1..n) = n
    BY <1>1, FS_Interval
  <2> QED
    BY <2>1, <2>2, RoutingAssumption, FS_Injection
<1>3. PICK ids :
         /\ StepIdsOf(agents) = ids[n]
         /\ ids[0] = <<>>
         /\ \A i \in 1..n :
               ids[i] = Append(ids[i - 1], FirstFree(Slug[agents[i]], Range(ids[i - 1])))
  BY IdsOneByOne
<1> DEFINE K == {i \in 0..n : /\ ids[i] \in Seq(StepIds) /\ Len(ids[i]) = i
                              /\ Distinct(ids[i])
                              /\ Cardinality(Range(ids[i])) = i}
<1>4. 0 \in K
  <2>1. ids[0] \in Seq(StepIds) /\ Len(ids[0]) = 0 /\ Range(ids[0]) = {}
    BY <1>3 DEF Range
  <2>2. Distinct(ids[0])
    BY <2>1
  <2>3. Cardinality(Range(ids[0])) = 0
    BY <2>1, FS_EmptySet
  <2>4. 0 \in 0..n
    BY <1>1
  <2> HIDE DEF Distinct
  <2> QED
    BY <2>1, <2>2, <2>3, <2>4
<1>5. ASSUME NEW i \in 1..n, i - 1 \in K PROVE i \in K
  <2> DEFINE s == ids[i - 1]
             x == FirstFree(Slug[agents[i]], Range(s))
  <2>1. /\ s \in Seq(StepIds) /\ Len(s) = i - 1 /\ Distinct(s)
        /\ Cardinality(Range(s)) = i - 1 /\ ids[i] = Append(s, x)
    BY <1>3, <1>5
  <2>2. Cardinality(Agents) \in Nat /\ i - 1 \in Nat /\ i - 1 < Cardinality(Agents)
    BY <1>1, <1>2, RoutingAssumption, FS_CardinalityType
  <2>3. IsFiniteSet(Range(s))
    BY <2>1, FiniteRange
  <2>4. x \in StepIds /\ x \notin Range(s)
    BY <1>1, <2>1, <2>2, <2>3, FirstFreeIsFree
  <2> HIDE DEF s, x
  <2>5. /\ Append(s, x) \in Seq(StepIds) /\ Len(Append(s, x)) = i
        /\ \A j \in 1..(i - 1) : Append(s, x)[j] = s[j]
        /\ Append(s, x)[i] = x
    BY <2>1, <2>4
  <2>6. \A j \in 1..(i - 1) : s[j] # x
    BY <2>1, <2>4 DEF Range
  <2>7. Distinct(Append(s, x))
    <3> SUFFICES ASSUME NEW j \in 1..i, NEW k \in 1..i,
                        Append(s, x)[j] = Append(s, x)[k]
                 PROVE  j = k
      BY <2>5
    <3>1. (j \in 1..(i - 1) \/ j = i) /\ (k \in 1..(i - 1) \/ k = i)
      OBVIOUS
    <3> QED
      BY <2>1, <2>5, <2>6, <3>1
  <2>8. Cardinality(Range(Append(s, x))) = i
    <3>1. Range(Append(s, x)) = Range(s) \cup {x}
      BY <2>1, RangeOfAppend
    <3>2. Cardinality(Range(s) \cup {x}) = Cardinality(Range(s)) + 1
      BY <2>3, <2>4, FS_AddElement
    <3> QED
      BY <2>1, <3>1, <3>2
  <2>9. i \in 0..n /\ ids[i] = Append(s, x)
    BY <1>1, <2>1
  <2> HIDE DEF Distinct
  <2> QED
    BY <2>5, <2>7, <2>8, <2>9
<1> HIDE DEF K
<1>6. n \in K
  <2>1. 0..n \subseteq K
    BY <1>1, <1>4, <1>5, UpTo
  <2> QED
    BY <1>1, <2>1
<1>7. /\ StepIdsOf(agents) \in Seq(StepIds) /\ Len(StepIdsOf(agents)) = n
      /\ Distinct(StepIdsOf(agents))
  BY <1>3, <1>6 DEF K
<1> QED
  BY <1>1, <1>7

(* The synthesis of a plan waits for all other steps, which wait for none. *)
LEMMA PlannedStepsShape ==
    ASSUME NEW a, NEW known \in SUBSET Agents
    PROVE  LET agents == Selected(a, known)
               steps  == PlannedSteps(agents)
           IN  /\ steps \in Seq(Steps)
               /\ Len(steps) = Len(agents)
               /\ \A i, j \in DOMAIN steps : steps[i].id = steps[j].id => i = j
               /\ \A i \in DOMAIN steps :
                     /\ steps[i].id \in StepIds /\ steps[i].agent = agents[i]
                     /\ steps[i].deps = IF agents[i] = Synthesis
                                          THEN {steps[j].id : j \in 1..(i - 1)} ELSE {}
                     /\ agents[i] = Synthesis <=> NeedsSynthesis(a, known) /\ i = Len(steps)
<1> DEFINE agents == Selected(a, known)
           steps  == PlannedSteps(agents)
           ids    == StepIdsOf(agents)
           n      == Len(agents)
<1>1. /\ agents \in Seq(Agents)
      /\ \A i, j \in DOMAIN agents : agents[i] = agents[j] => i = j
      /\ \A i \in 1..n : agents[i] = Synthesis <=> NeedsSynthesis(a, known) /\ i = n
  BY SelectedAgents
<1> HIDE DEF agents
<1>2. n \in Nat /\ DOMAIN agents = 1..n /\ \A i \in 1..n : agents[i] \in Agents
  <2> HIDE DEF steps
  <2> QED
    BY <1>1
<1>3. /\ \A i \in 1..n : ids[i] \in StepIds
      /\ \A i, j \in 1..n : ids[i] = ids[j] => i = j
  BY <1>1, <1>2, StepIdsDiffer
<1> HIDE DEF ids
<1>4. /\ steps = [i \in 1..n |-> steps[i]]
      /\ DOMAIN steps = 1..n
      /\ \A i \in 1..n : steps[i].id = ids[i] /\ steps[i].agent = agents[i]
  BY <1>2 DEF PlannedSteps, ids
<1>5. \A i \in 1..n :
          steps[i].deps = IF agents[i] = Synthesis
                            THEN {ids[j] : j \in 1..(i - 1)} ELSE {}
  BY <1>2 DEF PlannedSteps, ids
<1>6. \A i \in 1..n : steps[i] \in Steps
  <2> SUFFICES ASSUME NEW i \in 1..n
               PROVE  steps[i] \in Steps
    OBVIOUS
  <2>1. \A j \in 1..(i - 1) : ids[j] \in StepIds
    BY <1>2, <1>3
  <2>2. <<>> \in Seq(Texts)
    OBVIOUS
  <2>3. agents[i] \in Agents
    BY <1>2
  <2> QED
    BY <1>2, <1>3, <2>1, <2>2, <2>3 DEF PlannedSteps, ids, Steps, Conditions
<1>7. steps \in Seq(Steps) /\ Len(steps) = n
  BY <1>2, <1>4, <1>6
<1> HIDE DEF steps
<1>8. \A i \in 1..n : {ids[j] : j \in 1..(i - 1)} = {steps[j].id : j \in 1..(i - 1)}
  <2> SUFFICES ASSUME NEW i \in 1..n
               PROVE  {ids[j] : j \in 1..(i - 1)} = {steps[j].id : j \in 1..(i - 1)}
    OBVIOUS
  <2>1. \A j \in 1..(i - 1) : steps[j].id = ids[j]
    BY <1>2, <1>4
  <2> QED
    BY <2>1
<1>9. \A i \in 1..n :
         steps[i].deps = IF agents[i] = Synthesis
                           THEN {steps[j].id : j \in 1..(i - 1)} ELSE {}
  BY <1>8, <1>5
<1>10. \A i, j \in DOMAIN steps : steps[i].id = steps[j].id => i = j
  BY <1>3, <1>4
<1>11. \A i \in DOMAIN steps :
          /\ steps[i].id \in StepIds /\ steps[i].agent = agents[i]
          /\ steps[i].deps = IF agents[i] = Synthesis
                               THEN {steps[j].id : j \in 1..(i - 1)} ELSE {}
          /\ agents[i] = Synthesis <=> NeedsSynthesis(a, known) /\ i = Len(steps)
  BY <1>1, <1>3, <1>4, <1>7, <1>9
<1> QED
  BY <1>7, <1>10, <1>11 DEF agents, steps

(* Whatever is asked and registered, the planner's draft is well formed:   *)
(* unique ids, declared dependencies, no cycle, a workstream, and several  *)
(* steps end in a synthesis that waits for all others (create_plan).       *)
LEMMA DraftPlanSound ==
    ASSUME NEW a, NEW known \in SUBSET Agents, CanFormPartialPlan(a, known)
    PROVE  LET steps == DraftPlan(a, known).steps
           IN  /\ DraftPlan(a, known) \in Plans
               /\ WellFormed(steps) /\ HasWorkstream(steps)
               /\ Len(steps) > 1 =>
                     /\ SynthesisIsFinal(steps)
                     /\ steps[Len(steps)].deps = Ids(steps) \ {steps[Len(steps)].id}
               /\ AgentsOf(steps) \subseteq known
               /\ Workstreams(a.agents, known) \subseteq AgentsOf(steps)
<1> DEFINE agents == Selected(a, known)
           steps  == PlannedSteps(agents)
           S      == Workstreams(a.agents, known)
           size   == Cardinality(S)
           needed == NeedsSynthesis(a, known)
           n      == Len(steps)
<1>1. /\ agents \in Seq(Agents) /\ size \in Nat
      /\ Len(agents) = IF needed THEN size + 1 ELSE size
  BY SelectedAgents
<1>2. \A i \in 1..size : agents[i] \in known \ {Synthesis}
  BY SelectedAgents
<1>3. needed => agents[size + 1] = Synthesis
  BY SelectedAgents
<1>4. Lists(agents, S)
  BY SelectedAgents
<1>5. steps \in Seq(Steps) /\ n = Len(agents)
  BY PlannedStepsShape
<1>6. \A i, j \in DOMAIN steps : steps[i].id = steps[j].id => i = j
  BY PlannedStepsShape
<1>7. \A i \in DOMAIN steps : /\ steps[i].agent = agents[i]
                              /\ agents[i] = Synthesis <=> needed /\ i = n
  BY PlannedStepsShape
<1>8. \A i \in DOMAIN steps :
         steps[i].deps = IF agents[i] = Synthesis
                           THEN {steps[j].id : j \in 1..(i - 1)} ELSE {}
  BY PlannedStepsShape
<1>9. size > 0 /\ (needed => Synthesis \in known) /\ (size > 1 => needed)
  <2>1. S # {} /\ (needed => Synthesis \in known) /\ (size > 1 => needed)
    BY DEF CanFormPartialPlan, NeedsSynthesis
  <2>2. IsFiniteSet(S)
    <3>1. S \subseteq Agents
      BY DEF Workstreams
    <3> QED
      BY <3>1, RoutingAssumption, FS_Subset
  <2> QED
    BY <1>1, <2>1, <2>2, FS_EmptySet
<1>10. DraftPlan(a, known).steps = steps /\ DraftPlan(a, known) \in Plans
  BY <1>5 DEF DraftPlan, Plans
<1> HIDE DEF agents, steps, size, needed, S
<1>11. /\ n \in Nat \ {0} /\ DOMAIN steps = 1..n /\ DOMAIN agents = 1..n
       /\ n = IF needed THEN size + 1 ELSE size
  BY <1>1, <1>5, <1>9
<1> HIDE DEF n
<1>12. /\ 1 \in 1..n /\ \A j \in 1..(n - 1) : j \in 1..n /\ j # n
       /\ \A j \in 1..n : j \in 1..(n - 1) \/ j = n
  BY <1>11
<1>13. steps[1].agent # Synthesis /\ (n > 1 => needed)
  BY <1>1, <1>2, <1>7, <1>9, <1>11, <1>12
<1>14. /\ \A i \in 1..n : ~ (needed /\ i = n) => steps[i].deps = {}
       /\ needed => steps[n].deps = {steps[j].id : j \in 1..(n - 1)}
  <2>1. \A i \in 1..n : agents[i] = Synthesis <=> needed /\ i = n
    BY <1>7, <1>11 DEF n
  <2>2. n \in 1..n
    BY <1>11
  <2> QED
    BY <1>8, <1>11, <2>1, <2>2
<1>15. DeclaredDependencies(steps)
  BY <1>11, <1>12, <1>14 DEF DeclaredDependencies, Ids
<1>16. Acyclic(steps)
  <2> SUFFICES ASSUME NEW T \in SUBSET Ids(steps), T # {}
               PROVE  \E i \in 1..n : steps[i].id \in T /\ steps[i].deps \cap T = {}
    BY <1>11 DEF Acyclic
  <2>1. PICK k \in 1..n : steps[k].id \in T
    BY <1>11 DEF Ids
  <2>2. CASE \E i \in 1..n : steps[i].id \in T /\ ~ (needed /\ i = n)
    BY <1>14, <2>2
  <2>3. CASE \A i \in 1..n : steps[i].id \in T => needed /\ i = n
    <3>1. k = n /\ \A j \in 1..(n - 1) : steps[j].id \notin T
      BY <1>12, <2>1, <2>3
    <3>2. steps[n].deps = {steps[j].id : j \in 1..(n - 1)}
      BY <1>14, <2>1, <2>3
    <3> QED
      BY <2>1, <3>1, <3>2
  <2> QED
    BY <2>2, <2>3
<1>17. WellFormed(steps) /\ HasWorkstream(steps)
  <2>1. steps # <<>>
    BY <1>11
  <2> QED
    BY <1>6, <1>11, <1>12, <1>13, <1>15, <1>16, <2>1 DEF WellFormed, UniqueIds, HasWorkstream
<1>18. n > 1 => SynthesisIsFinal(steps)
  BY <1>7, <1>11, <1>13 DEF SynthesisIsFinal, n
<1>19. ASSUME n > 1
       PROVE  steps[n].deps = Ids(steps) \ {steps[n].id}
  <2>1. steps[n].deps = {steps[j].id : j \in 1..(n - 1)}
    BY <1>13, <1>14, <1>19
  <2>2. \A j \in 1..(n - 1) : steps[j].id # steps[n].id
    BY <1>6, <1>11, <1>12
  <2> QED
    BY <1>11, <1>12, <2>1, <2>2 DEF Ids
<1>20. AgentsOf(steps) \subseteq known
  <2>1. \A i \in 1..n : agents[i] \in known
    <3> SUFFICES ASSUME NEW i \in 1..n
                 PROVE  agents[i] \in known
      OBVIOUS
    <3>1. i \in 1..size \/ (needed /\ i = size + 1)
      BY <1>1, <1>11
    <3> QED
      BY <1>2, <1>3, <1>9, <3>1
  <2> QED
    BY <1>7, <1>11, <2>1 DEF AgentsOf
<1>21. S \subseteq AgentsOf(steps)
  BY <1>4, <1>7, <1>11 DEF AgentsOf, Lists
<1> QED
  BY <1>10, <1>17, <1>18, <1>19, <1>20, <1>21 DEF n, S

-----------------------------------------------------------------------------
(* Types.                                                                  *)

(* A request nobody has made yet is a request state.                       *)
LEMMA NoRequestType == NoRequest \in RequestStates /\ NoRequest.text = {}
<1>1. NoPlan \in Plans
  <2>1. <<>> \in Seq(Steps)
    OBVIOUS
  <2> QED
    BY <2>1 DEF NoPlan, Plans
<1>2. Unclear \in AllAssessments
  BY DEF AllAssessments
<1> QED
  BY <1>1, <1>2 DEF NoRequest, RequestStates, Phases, AllTexts

(* What a request may be assessed as.                                      *)
LEMMA AssessmentsType ==
    ASSUME RoutingTypeOK, NEW r \in Requests
    PROVE  Assessments(r) \subseteq AllAssessments
BY DEF Assessments, AllAssessments, RoutingTypeOK, RequestStates

(* Before any request, everything has its type.                            *)
LEMMA RoutingTypesInit == QInit => RoutingTypeOK
BY NoRequestType, RoutingAssumption DEF QInit, RoutingTypeOK

(* One step per action; each leaves a request in a request state.          *)
LEMMA RoutingTypesNext == RoutingTypeOK /\ [QNext]_qvars => RoutingTypeOK'
<1> SUFFICES ASSUME RoutingTypeOK, [QNext]_qvars
             PROVE  RoutingTypeOK'
  OBVIOUS
<1>0. /\ registry \subseteq Agents
      /\ requests \in [Requests -> RequestStates]
      /\ drafts \subseteq [id : PlanNames, request : Requests, plan : Plans]
  BY DEF RoutingTypeOK
<1>1. ASSUME NEW r \in Requests, NEW changed \in RequestStates, Update(r, changed),
             UNCHANGED <<registry, drafts>>
      PROVE  RoutingTypeOK'
  BY <1>0, <1>1 DEF Update, RoutingTypeOK
<1>2. ASSUME NEW r \in Requests, Ask(r)
      PROVE  RoutingTypeOK'
  <2>1. PICK text \in Inputs :
          Update(r, [requests[r] EXCEPT !.phase = "asked", !.text = text, !.seen = registry])
    BY <1>2 DEF Ask
  <2>2. [requests[r] EXCEPT !.phase = "asked", !.text = text, !.seen = registry]
           \in RequestStates
    BY <1>0 DEF RequestStates, Phases, AllTexts
  <2> QED
    BY <1>1, <1>2, <2>1, <2>2 DEF Ask
<1>3. ASSUME NEW r \in Requests, ClassifierFails(r)
      PROVE  RoutingTypeOK'
  <2>1. [requests[r] EXCEPT !.phase = "failed"] \in RequestStates
    BY <1>0 DEF RequestStates, Phases
  <2> QED
    BY <1>1, <1>3, <2>1 DEF ClassifierFails
<1>4. ASSUME NEW r \in Requests, Clarify(r)
      PROVE  RoutingTypeOK'
  <2>1. PICK a \in Assessments(r) :
          Update(r, [requests[r] EXCEPT !.phase = "clarified", !.assessment = a])
    BY <1>4 DEF Clarify
  <2>2. [requests[r] EXCEPT !.phase = "clarified", !.assessment = a] \in RequestStates
    BY <1>0, AssessmentsType DEF RequestStates, Phases
  <2> QED
    BY <1>1, <1>4, <2>1, <2>2 DEF Clarify
<1>5. ASSUME NEW r \in Requests, CallDirectly(r)
      PROVE  RoutingTypeOK'
  <2>1. PICK a \in Assessments(r) :
          /\ a.agents \subseteq Handlers
          /\ Update(r, [requests[r] EXCEPT !.phase = "calling", !.assessment = a,
                                           !.called = a.agents])
    BY <1>5 DEF CallDirectly
  <2>2. [requests[r] EXCEPT !.phase = "calling", !.assessment = a, !.called = a.agents]
           \in RequestStates
    BY <1>0, <2>1, AssessmentsType DEF RequestStates, Phases
  <2> QED
    BY <1>1, <1>5, <2>1, <2>2 DEF CallDirectly
<1>6. ASSUME NEW r \in Requests, ProposePlan(r)
      PROVE  RoutingTypeOK'
  <2>1. PICK a \in Assessments(r), scope \in Scopes, n \in Tries :
          /\ CanPlan(a, registry)
          /\ drafts' = Entered([id |-> <<a.topic, scope, n>>, request |-> r,
                                plan |-> DraftPlan(a, registry)])
          /\ Update(r, [requests[r] EXCEPT !.phase = "planned", !.assessment = a,
                                           !.plan = DraftPlan(a, registry),
                                           !.id = <<a.topic, scope, n>>,
                                           !.among = registry])
    BY <1>6 DEF ProposePlan
  <2>2. a \in AllAssessments
    BY AssessmentsType
  <2>3. <<a.topic, scope, n>> \in PlanNames /\ DraftPlan(a, registry) \in Plans
    BY <1>0, <2>1, <2>2, DraftPlanSound DEF PlanNames, CanPlan
  <2>4. [requests[r] EXCEPT !.phase = "planned", !.assessment = a,
                            !.plan = DraftPlan(a, registry),
                            !.id = <<a.topic, scope, n>>, !.among = registry]
           \in RequestStates
    BY <1>0, <2>2, <2>3 DEF RequestStates, Phases
  <2>5. drafts' \subseteq [id : PlanNames, request : Requests, plan : Plans]
    BY <1>0, <2>1, <2>3 DEF Entered
  <2> QED
    BY <1>0, <1>6, <2>1, <2>4, <2>5 DEF ProposePlan, Update, RoutingTypeOK
<1>7. ASSUME NEW r \in Requests, SpecialistAnswers(r)
      PROVE  RoutingTypeOK'
  <2>1. PICK phase \in {"answered", "failed"} :
          Update(r, [requests[r] EXCEPT !.phase = phase])
    BY <1>7 DEF SpecialistAnswers
  <2>2. [requests[r] EXCEPT !.phase = phase] \in RequestStates
    BY <1>0 DEF RequestStates, Phases
  <2> QED
    BY <1>1, <1>7, <2>1, <2>2 DEF SpecialistAnswers
<1>8. CASE Reload
  BY <1>0, <1>8, RoutingAssumption DEF Reload, RoutingTypeOK
<1>9. CASE UNCHANGED qvars
  BY <1>9 DEF qvars, RoutingTypeOK
<1> QED
  BY <1>2, <1>3, <1>4, <1>5, <1>6, <1>7, <1>8, <1>9 DEF QNext

(* Every operation of the router, the planner and the registry keeps the   *)
(* types; each draft is a plan value the approval store can take in.       *)
THEOREM RoutingTypeCorrect == QSpec => []RoutingTypeOK
BY RoutingTypesInit, RoutingTypesNext, PTL DEF QSpec

-----------------------------------------------------------------------------
(* Plan ids.                                                               *)

(* Without plans no id has two owners.                                     *)
LEMMA PlanIdsInit == QInit => PlanIdsOwned
BY DEF QInit, NoRequest, PlanIdsOwned

(* Only a new draft touches the drafts, and its id is free; a planned      *)
(* request changes no more.                                                *)
LEMMA PlanIdsNext == RoutingTypeOK /\ PlanIdsOwned /\ [QNext]_qvars => PlanIdsOwned'
<1> SUFFICES ASSUME RoutingTypeOK, PlanIdsOwned, [QNext]_qvars
             PROVE  PlanIdsOwned'
  OBVIOUS
<1>0. requests \in [Requests -> RequestStates]
  BY DEF RoutingTypeOK
<1>1. ASSUME NEW r \in Requests, NEW changed, Update(r, changed),
             changed.phase # "planned", UNCHANGED drafts
      PROVE  PlanIdsOwned'
  BY <1>0, <1>1 DEF Update, PlanIdsOwned
<1>2. ASSUME NEW r \in Requests,
             Ask(r) \/ ClassifierFails(r) \/ Clarify(r) \/ CallDirectly(r) \/ SpecialistAnswers(r)
      PROVE  PlanIdsOwned'
  <2>1. PICK changed : Update(r, changed) /\ changed.phase # "planned" /\ UNCHANGED drafts
    BY <1>0, <1>2 DEF Ask, ClassifierFails, Clarify, CallDirectly, SpecialistAnswers,
       RequestStates
  <2> QED
    BY <1>1, <2>1
<1>3. ASSUME NEW r \in Requests, ProposePlan(r)
      PROVE  PlanIdsOwned'
  <2>1. PICK a \in Assessments(r), scope \in Scopes, n \in Tries :
          /\ FreeId(a.topic, scope, n)
          /\ drafts' = Entered([id |-> <<a.topic, scope, n>>, request |-> r,
                                plan |-> DraftPlan(a, registry)])
          /\ Update(r, [requests[r] EXCEPT !.phase = "planned", !.assessment = a,
                                           !.plan = DraftPlan(a, registry),
                                           !.id = <<a.topic, scope, n>>,
                                           !.among = registry])
    BY <1>3 DEF ProposePlan
  <2> DEFINE new == [id |-> <<a.topic, scope, n>>, request |-> r,
                     plan |-> DraftPlan(a, registry)]
  <2>2. \A d \in drafts : d.id # new.id
    BY <2>1 DEF FreeId, Taken
  <2>3. drafts' = drafts \cup {new}
    BY <2>1, <2>2 DEF Entered
  <2>4. /\ requests'[r].id = new.id /\ requests'[r].plan = new.plan
        /\ \A q \in Requests \ {r} : requests'[q] = requests[q]
    BY <1>0, <2>1 DEF Update, RequestStates
  <2>5. new = [id |-> new.id, request |-> r, plan |-> new.plan]
    OBVIOUS
  <2> HIDE DEF new
  <2>6. {d \in drafts' : d.id = new.id} = {new}
    BY <2>2, <2>3
  <2>7. ASSUME NEW q \in Requests \ {r}, requests'[q].phase = "planned"
        PROVE  {d \in drafts' : d.id = requests'[q].id}
                 = {[id |-> requests'[q].id, request |-> q, plan |-> requests'[q].plan]}
    <3> DEFINE old == [id |-> requests[q].id, request |-> q, plan |-> requests[q].plan]
    <3>1. {d \in drafts : d.id = requests[q].id} = {old}
      BY <2>4, <2>7 DEF PlanIdsOwned
    <3>2. old \in drafts /\ old.id = requests[q].id
      BY <3>1
    <3> HIDE DEF old
    <3>3. new.id # requests[q].id
      BY <2>2, <3>2
    <3>4. {d \in drafts' : d.id = requests[q].id} = {d \in drafts : d.id = requests[q].id}
      BY <2>3, <3>3
    <3> QED
      BY <2>4, <3>1, <3>4 DEF old
  <2>8. {d \in drafts' : d.id = requests'[r].id}
          = {[id |-> requests'[r].id, request |-> r, plan |-> requests'[r].plan]}
    BY <2>4, <2>5, <2>6
  <2> QED
    BY <2>7, <2>8 DEF PlanIdsOwned
<1>4. CASE Reload \/ UNCHANGED qvars
  BY <1>4 DEF Reload, qvars, PlanIdsOwned
<1> QED
  BY <1>2, <1>3, <1>4 DEF QNext

(* No draft takes the place of another, and a request's context names the  *)
(* plan that was stored for it (_add_draft_with_unique_plan_id).           *)
THEOREM PlanIdsUnique == QSpec => []PlanIdsOwned
BY RoutingTypeCorrect, PlanIdsInit, PlanIdsNext, PTL DEF QSpec

-----------------------------------------------------------------------------
(* The guardrail agents.                                                   *)

(* The first four rules are the only ones that a sensitive request can     *)
(* fall under, and each of them brings the guardrails in (assess).         *)
LEMMA SensitiveAssessed ==
    ASSUME NEW text, IsSensitiveText(text)
    PROVE  Sensitive \subseteq Assessed(text).agents
<1> DEFINE rules == Rules(text)
           Chosen(i) == rules[i].fits /\ \A j \in 1..(i - 1) : ~ rules[j].fits
           first == CHOOSE i \in DOMAIN rules : Chosen(i)
<1>1. DOMAIN rules = 1..12
  BY DEF Rules
<1>2. rules[4].fits
  BY DEF Rules
<1>3. \A i \in 1..4 : Sensitive \subseteq rules[i].says.agents
  <2>1. Sensitive \subseteq rules[1].says.agents
    BY DEF Rules, ProspectResearch, Assessment, WithGuardrails, Sensitive, Guardrails
  <2>2. Sensitive \subseteq rules[2].says.agents
    BY DEF Rules, Comparison, Assessment, WithGuardrails, Sensitive, Guardrails
  <2>3. Sensitive \subseteq rules[3].says.agents
    BY DEF Rules, MeetingPrep, Assessment, WithGuardrails, Sensitive, Guardrails
  <2>4. Sensitive \subseteq rules[4].says.agents
    BY DEF Rules, SensitiveReview, Assessment, Sensitive, Guardrails
  <2> QED
    BY <2>1, <2>2, <2>3, <2>4
<1>4. Assessed(text) = rules[first].says
  BY DEF Assessed, First
<1> HIDE DEF rules
<1>5. \E i \in DOMAIN rules : Chosen(i)
  <2>1. CASE rules[1].fits
    BY <1>1, <2>1
  <2>2. CASE ~ rules[1].fits /\ rules[2].fits
    BY <1>1, <2>2
  <2>3. CASE ~ rules[1].fits /\ ~ rules[2].fits /\ rules[3].fits
    BY <1>1, <2>3
  <2>4. CASE ~ rules[1].fits /\ ~ rules[2].fits /\ ~ rules[3].fits
    BY <1>1, <1>2, <2>4
  <2> QED
    BY <2>1, <2>2, <2>3, <2>4
<1>6. first \in 1..12 /\ Chosen(first)
  BY <1>1, <1>5
<1>7. first \in 1..4
  BY <1>2, <1>6
<1> QED
  BY <1>3, <1>4, <1>7

(* Nobody is called before the request is assessed, and the guardrails are *)
(* kept: together this is inductive.                                       *)
GuardInv ==
    /\ GuardrailsKept
    /\ \A r \in Requests : requests[r].phase \in {"new", "asked"} => requests[r].called = {}

(* A directly called agent is none of the guardrails.                      *)
LEMMA DirectIsHarmless ==
    ASSUME NEW text, NEW a, NEW known, Path(text, a, known) = "direct"
    PROVE  a.agents \cap Sensitive = {}
<1>1. IsDirect(text, a)
  BY DEF Path
<1> QED
  BY <1>1 DEF IsDirect, IsSensitive

(* A plan for an assessment that names both guardrails is made only when   *)
(* the router has seen both.                                               *)
LEMMA PlannedWhenSeen ==
    ASSUME NEW text, NEW a, NEW known, Path(text, a, known) = "plan",
           Sensitive \subseteq a.agents
    PROVE  Sensitive \subseteq known
<1>1. ~ UnsafeToRoute(a, known)
  BY DEF Path
<1> QED
  BY <1>1 DEF UnsafeToRoute, Required

(* No step calls a guardrail agent directly or plans without one.          *)
LEMMA GuardInvNext == RoutingTypeOK /\ GuardInv /\ [QNext]_qvars => GuardInv'
<1> SUFFICES ASSUME RoutingTypeOK, GuardInv, [QNext]_qvars
             PROVE  GuardInv'
  OBVIOUS
<1>0. registry \subseteq Agents /\ requests \in [Requests -> RequestStates]
  BY DEF RoutingTypeOK
<1> DEFINE Fine(s) ==
      /\ s.called \cap Sensitive = {}
      /\ /\ IsSensitiveText(s.text) /\ s.assessment = Assessed(s.text)
         => /\ s.called = {}
            /\ s.phase = "planned" => \/ Sensitive \subseteq AgentsOf(s.plan.steps)
                                      \/ /\ ~ Sensitive \subseteq s.among
                                         /\ s.among # s.seen
      /\ s.phase \in {"new", "asked"} => s.called = {}
<1>1. GuardInv <=> \A r \in Requests : Fine(requests[r])
  BY DEF GuardInv, GuardrailsKept
<1>2. GuardInv' <=> \A r \in Requests : Fine(requests'[r])
  BY DEF GuardInv, GuardrailsKept
<1> HIDE DEF Fine
<1>3. ASSUME NEW r \in Requests, NEW changed, Update(r, changed), Fine(changed)
      PROVE  GuardInv'
  BY <1>0, <1>1, <1>2, <1>3 DEF Update
<1>4. ASSUME NEW r \in Requests, Ask(r)
      PROVE  GuardInv'
  <2>1. PICK text \in Inputs :
          Update(r, [requests[r] EXCEPT !.phase = "asked", !.text = text, !.seen = registry])
    BY <1>4 DEF Ask
  <2>2. requests[r].called = {}
    BY <1>1, <1>4 DEF Ask, Fine
  <2>3. Fine([requests[r] EXCEPT !.phase = "asked", !.text = text, !.seen = registry])
    BY <1>0, <2>2 DEF Fine, RequestStates
  <2> QED
    BY <1>3, <2>1, <2>3
<1>5. ASSUME NEW r \in Requests, ClassifierFails(r)
      PROVE  GuardInv'
  <2>1. Fine([requests[r] EXCEPT !.phase = "failed"])
    BY <1>0, <1>1 DEF Fine, RequestStates
  <2> QED
    BY <1>3, <1>5, <2>1 DEF ClassifierFails
<1>6. ASSUME NEW r \in Requests, Clarify(r)
      PROVE  GuardInv'
  <2>1. PICK a \in Assessments(r) :
          /\ requests[r].phase = "asked"
          /\ Update(r, [requests[r] EXCEPT !.phase = "clarified", !.assessment = a])
    BY <1>6 DEF Clarify, Routed
  <2>2. requests[r].called = {}
    BY <1>1, <2>1 DEF Fine
  <2>3. Fine([requests[r] EXCEPT !.phase = "clarified", !.assessment = a])
    BY <1>0, <2>2 DEF Fine, RequestStates
  <2> QED
    BY <1>3, <2>1, <2>3
<1>7. ASSUME NEW r \in Requests, CallDirectly(r)
      PROVE  GuardInv'
  <2>1. PICK a \in Assessments(r) :
          /\ Path(requests[r].text, a, requests[r].seen) = "direct"
          /\ Update(r, [requests[r] EXCEPT !.phase = "calling", !.assessment = a,
                                           !.called = a.agents])
    BY <1>7 DEF CallDirectly, Routed
  <2>2. a.agents \cap Sensitive = {}
    BY <2>1, DirectIsHarmless
  <2>3. ~ (IsSensitiveText(requests[r].text) /\ a = Assessed(requests[r].text))
    BY <2>2, SensitiveAssessed DEF Sensitive
  <2>4. Fine([requests[r] EXCEPT !.phase = "calling", !.assessment = a,
                                 !.called = a.agents])
    BY <1>0, <2>2, <2>3 DEF Fine, RequestStates
  <2> QED
    BY <1>3, <2>1, <2>4
<1>8. ASSUME NEW r \in Requests, ProposePlan(r)
      PROVE  GuardInv'
  <2>1. PICK a \in Assessments(r), scope \in Scopes, n \in Tries :
          /\ requests[r].phase = "asked"
          /\ Path(requests[r].text, a, requests[r].seen) = "plan"
          /\ CanPlan(a, registry)
          /\ Update(r, [requests[r] EXCEPT !.phase = "planned", !.assessment = a,
                                           !.plan = DraftPlan(a, registry),
                                           !.id = <<a.topic, scope, n>>,
                                           !.among = registry])
    BY <1>8 DEF ProposePlan, Routed
  <2>2. requests[r].called = {}
    BY <1>1, <2>1 DEF Fine
  <2>3. ASSUME IsSensitiveText(requests[r].text), a = Assessed(requests[r].text)
        PROVE  \/ Sensitive \subseteq AgentsOf(DraftPlan(a, registry).steps)
               \/ /\ ~ Sensitive \subseteq registry
                  /\ registry # requests[r].seen
    <3>1. Sensitive \subseteq a.agents
      BY <2>3, SensitiveAssessed
    <3>2. Sensitive \subseteq requests[r].seen
      BY <2>1, <3>1, PlannedWhenSeen
    <3>3. CASE Sensitive \subseteq registry
      <4>1. Sensitive \subseteq Workstreams(a.agents, registry)
        BY <3>1, <3>3, RoutingAssumption DEF Workstreams, Sensitive
      <4>2. Workstreams(a.agents, registry) \subseteq AgentsOf(DraftPlan(a, registry).steps)
        BY <1>0, <2>1, DraftPlanSound DEF CanPlan
      <4> QED
        BY <4>1, <4>2
    <3>4. CASE ~ Sensitive \subseteq registry
      BY <3>2, <3>4
    <3> QED
      BY <3>3, <3>4
  <2>4. Fine([requests[r] EXCEPT !.phase = "planned", !.assessment = a,
                                 !.plan = DraftPlan(a, registry),
                                 !.id = <<a.topic, scope, n>>, !.among = registry])
    BY <1>0, <2>2, <2>3 DEF Fine, RequestStates
  <2> QED
    BY <1>3, <2>1, <2>4
<1>9. ASSUME NEW r \in Requests, SpecialistAnswers(r)
      PROVE  GuardInv'
  <2>1. PICK phase \in {"answered", "failed"} :
          Update(r, [requests[r] EXCEPT !.phase = phase])
    BY <1>9 DEF SpecialistAnswers
  <2>2. Fine([requests[r] EXCEPT !.phase = phase])
    BY <1>0, <1>1 DEF Fine, RequestStates
  <2> QED
    BY <1>3, <2>1, <2>2
<1>10. CASE UNCHANGED requests
  BY <1>1, <1>2, <1>10
<1> QED
  BY <1>4, <1>5, <1>6, <1>7, <1>8, <1>9, <1>10 DEF QNext, Reload, qvars

(* No guardrail agent is ever called without an approval, and a sensitive  *)
(* request the rules assessed is planned with both guardrails unless a     *)
(* reload took one away while it was assessed.                             *)
THEOREM GuardrailsStay == QSpec => []GuardrailsKept
<1>1. QInit => GuardInv
  BY DEF QInit, NoRequest, GuardInv, GuardrailsKept, IsSensitiveText, Mentions
<1>2. GuardInv => GuardrailsKept
  BY DEF GuardInv
<1> QED
  BY <1>1, <1>2, GuardInvNext, RoutingTypeCorrect, PTL DEF QSpec

-----------------------------------------------------------------------------
(* The shape of the drafts.                                                *)

(* A request whose draft is stored is done: what its planner read stays    *)
(* what its draft was made from.                                           *)
DraftInv ==
    /\ PlannedWellFormed
    /\ \A d \in drafts : requests[d.request].phase = "planned"

(* Every new draft is sound, and the others stay as they are.             *)
LEMMA DraftInvNext == RoutingTypeOK /\ DraftInv /\ [QNext]_qvars => DraftInv'
<1> SUFFICES ASSUME RoutingTypeOK, DraftInv, [QNext]_qvars
             PROVE  DraftInv'
  OBVIOUS
<1>0. /\ registry \subseteq Agents /\ requests \in [Requests -> RequestStates]
      /\ \A d \in drafts : d.request \in Requests
  BY DEF RoutingTypeOK
<1> DEFINE Good(plan, among) ==
      /\ WellFormed(plan.steps) /\ HasWorkstream(plan.steps)
      /\ Len(plan.steps) > 1 =>
            SynthesisIsFinal(plan.steps)
            /\ plan.steps[Len(plan.steps)].deps
                 = Ids(plan.steps) \ {plan.steps[Len(plan.steps)].id}
      /\ AgentsOf(plan.steps) \subseteq among \cap Handlers
<1>1. DraftInv <=> \A d \in drafts : /\ Good(d.plan, requests[d.request].among)
                                     /\ requests[d.request].phase = "planned"
  BY DEF DraftInv, PlannedWellFormed
<1>2. DraftInv' <=> \A d \in drafts' : /\ Good(d.plan, requests'[d.request].among)
                                       /\ requests'[d.request].phase = "planned"
  BY DEF DraftInv, PlannedWellFormed
<1>3. ASSUME NEW a, CanPlan(a, registry)
      PROVE  Good(DraftPlan(a, registry), registry)
  <2>1. AgentsOf(DraftPlan(a, registry).steps) \subseteq Handlers
    BY <1>3 DEF CanPlan, DraftPlan
  <2> QED
    BY <1>0, <1>3, <2>1, DraftPlanSound DEF CanPlan
<1> HIDE DEF Good
<1>4. ASSUME NEW r \in Requests, requests[r].phase # "planned",
             NEW changed, Update(r, changed), UNCHANGED drafts
      PROVE  DraftInv'
  <2>1. \A d \in drafts : d.request # r
    BY <1>1, <1>4
  <2> QED
    BY <1>0, <1>1, <1>2, <1>4, <2>1 DEF Update
<1>5. ASSUME NEW r \in Requests,
             Ask(r) \/ ClassifierFails(r) \/ Clarify(r) \/ CallDirectly(r) \/ SpecialistAnswers(r)
      PROVE  DraftInv'
  <2>1. /\ requests[r].phase # "planned" /\ UNCHANGED drafts
        /\ \E changed : Update(r, changed)
    BY <1>5 DEF Ask, ClassifierFails, Clarify, CallDirectly, SpecialistAnswers, Routed
  <2> QED
    BY <1>4, <2>1
<1>6. ASSUME NEW r \in Requests, ProposePlan(r)
      PROVE  DraftInv'
  <2>1. PICK a \in Assessments(r), scope \in Scopes, n \in Tries :
          /\ requests[r].phase = "asked"
          /\ CanPlan(a, registry)
          /\ drafts' = Entered([id |-> <<a.topic, scope, n>>, request |-> r,
                                plan |-> DraftPlan(a, registry)])
          /\ Update(r, [requests[r] EXCEPT !.phase = "planned", !.assessment = a,
                                           !.plan = DraftPlan(a, registry),
                                           !.id = <<a.topic, scope, n>>,
                                           !.among = registry])
    BY <1>6 DEF ProposePlan, Routed
  <2>2. /\ requests'[r].phase = "planned" /\ requests'[r].among = registry
        /\ \A q \in Requests \ {r} : requests'[q] = requests[q]
    BY <1>0, <2>1 DEF Update, RequestStates
  <2>3. \A d \in drafts : d.request # r
    BY <1>1, <2>1
  <2>4. \A d \in drafts' : d \in drafts \/ (d.request = r /\ d.plan = DraftPlan(a, registry))
    BY <2>1 DEF Entered
  <2> QED
    BY <1>0, <1>1, <1>2, <1>3, <2>1, <2>2, <2>3, <2>4
<1>7. CASE UNCHANGED <<requests, drafts>>
  BY <1>1, <1>2, <1>7
<1> QED
  BY <1>5, <1>6, <1>7 DEF QNext, Reload, qvars

(* Every draft is what the approval store and the graph runtime rely on,   *)
(* whatever was assessed, registered or reloaded (create_plan).            *)
THEOREM DraftsWellFormed == QSpec => []PlannedWellFormed
<1>1. QInit => DraftInv
  BY DEF QInit, DraftInv, PlannedWellFormed
<1>2. DraftInv => PlannedWellFormed
  BY DEF DraftInv
<1> QED
  BY <1>1, <1>2, DraftInvNext, RoutingTypeCorrect, PTL DEF QSpec
=============================================================================
