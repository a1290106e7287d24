------------------------ MODULE SurfaceRoutes_proofs ------------------------
(***************************************************************************)
(* Theorems about the components of a surface, for canvases of every size, *)
(* and about the surface route registry, for every number of plans,        *)
(* surfaces, specialists and user actions, and for answers and canvases of *)
(* every size.                                                             *)
(***************************************************************************)
EXTENDS SurfaceRoutes, RecursionLemmas, FiniteSetTheorems

-----------------------------------------------------------------------------
(* Components: what the search for circles finds, and that the checks an   *)
(* update must pass keep a sound canvas sound.                             *)

(* What an arrow leads to from near.                                       *)
Onward(arrows, near) == near \cup {a[2] : a \in {b \in arrows : b[1] \in near}}

Closed(arrows, X) == \A a \in arrows : a[1] \in X => a[2] \in X

(* The rounds of the search are a function.                                *)
LEMMA ReachedRounds ==
    ASSUME NEW arrows, IsFiniteSet(arrows), NEW start
    PROVE  \E grown :
              /\ Reached(arrows, start) = grown[Cardinality(arrows)]
              /\ grown[0] = start
              /\ \A i \in 1..Cardinality(arrows) :
                    grown[i] = Onward(arrows, grown[i - 1])
<1> DEFINE n == Cardinality(arrows)
           S == SUBSET (start \cup {a[2] : a \in arrows})
           F == [x \in (1..n) \X S |-> Onward(arrows, x[2])]
           Grown(g) == g = [i \in 0..n |->
                          IF i = 0 THEN start
                          ELSE g[i - 1] \cup {a[2] : a \in {b \in arrows : b[1] \in g[i - 1]}}]
<1>1. n \in Nat
  BY FS_CardinalityType
<1>2. F \in [(1..n) \X S -> S]
  BY DEF Onward
<1>3. PICK g \in [0..n -> S] : Iterates(g, n, start, F)
  <2>1. start \in S
    OBVIOUS
  <2> HIDE DEF F, S, n
  <2> QED
    BY <1>1, <1>2, <2>1, RecursionExists
<1>4. ASSUME NEW j \in 1..n PROVE g[j] = Onward(arrows, g[j - 1])
  <2>1. j - 1 \in 0..n
    BY <1>1
  <2>2. <<j, g[j - 1]>> \in (1..n) \X S
    BY <2>1
  <2> QED
    BY <1>3, <2>2 DEF Iterates
<1>5. Grown(g)
  BY <1>1, <1>3, <1>4 DEF Onward, Iterates
<1>6. Grown(CHOOSE h : Grown(h))
  BY <1>5
<1> DEFINE grown == CHOOSE h : Grown(h)
<1>7. Reached(arrows, start) = grown[n]
  BY DEF Reached
<1> HIDE DEF grown
<1>8. Grown(grown)
  BY <1>6 DEF grown
<1>9. grown[0] = start
  BY <1>1, <1>8
<1>10. ASSUME NEW i \in 1..n PROVE grown[i] = Onward(arrows, grown[i - 1])
  <2>1. i \in 0..n /\ i # 0
    BY <1>1
  <2> QED
    BY <1>8, <2>1 DEF Onward
<1> QED
  BY <1>7, <1>9, <1>10

(* What is reached holds the start.                                        *)
LEMMA ReachedStart ==
    ASSUME NEW arrows, IsFiniteSet(arrows), NEW start
    PROVE  start \subseteq Reached(arrows, start)
<1> DEFINE n == Cardinality(arrows)
<1>1. n \in Nat
  BY FS_CardinalityType
<1>2. PICK grown :
         /\ Reached(arrows, start) = grown[n]
         /\ grown[0] = start
         /\ \A i \in 1..n : grown[i] = Onward(arrows, grown[i - 1])
  BY ReachedRounds
<1> DEFINE K == {i \in 0..n : start \subseteq grown[i]}
<1>3. 0 \in K
  BY <1>1, <1>2
<1>4. ASSUME NEW i \in 1..n, i - 1 \in K PROVE i \in K
  BY <1>2, <1>4 DEF Onward
<1> HIDE DEF K
<1>5. n \in K
  BY <1>1, <1>3, <1>4, UpTo
<1> QED
  BY <1>2, <1>5 DEF K

(* A closed set that holds the start holds all that is reached.            *)
LEMMA ReachedLeast ==
    ASSUME NEW arrows, IsFiniteSet(arrows), NEW start,
           NEW X, start \subseteq X, Closed(arrows, X)
    PROVE  Reached(arrows, start) \subseteq X
<1> DEFINE n == Cardinality(arrows)
<1>1. n \in Nat
  BY FS_CardinalityType
<1>2. PICK grown :
         /\ Reached(arrows, start) = grown[n]
         /\ grown[0] = start
         /\ \A i \in 1..n : grown[i] = Onward(arrows, grown[i - 1])
  BY ReachedRounds
<1> DEFINE K == {i \in 0..n : grown[i] \subseteq X}
<1>3. 0 \in K
  BY <1>1, <1>2
<1>4. ASSUME NEW i \in 1..n, i - 1 \in K PROVE i \in K
  BY <1>2, <1>4 DEF Onward, Closed
<1> HIDE DEF K
<1>5. n \in K
  BY <1>1, <1>3, <1>4, UpTo
<1> QED
  BY <1>2, <1>5 DEF K

(* As many rounds as there are arrows suffice: every round that ends       *)
(* before the search is closed takes an arrow no round took before.        *)
LEMMA ReachedClosed ==
    ASSUME NEW arrows, IsFiniteSet(arrows), NEW start
    PROVE  Closed(arrows, Reached(arrows, start))
<1> DEFINE n == Cardinality(arrows)
<1>1. n \in Nat
  BY FS_CardinalityType
<1>2. PICK grown :
         /\ Reached(arrows, start) = grown[n]
         /\ grown[0] = start
         /\ \A i \in 1..n : grown[i] = Onward(arrows, grown[i - 1])
  BY ReachedRounds
<1> DEFINE Crossed(i) == {b \in arrows : b[1] \in grown[i]}
           K == {i \in 0..n : Closed(arrows, grown[i]) \/ i < Cardinality(Crossed(i))}
<1>3. ASSUME NEW i PROVE /\ IsFiniteSet(Crossed(i)) /\ Cardinality(Crossed(i)) \in Nat
                         /\ Cardinality(Crossed(i)) <= n
  <2>1. Crossed(i) \subseteq arrows
    OBVIOUS
  <2> HIDE DEF Crossed
  <2> QED
    BY <2>1, FS_Subset, FS_CardinalityType
<1>4. 0 \in K
  <2> SUFFICES ASSUME ~ Closed(arrows, grown[0]) PROVE 0 < Cardinality(Crossed(0))
    BY <1>1
  <2>1. Crossed(0) # {}
    BY DEF Closed
  <2> HIDE DEF Crossed
  <2>2. Cardinality(Crossed(0)) # 0 /\ Cardinality(Crossed(0)) \in Nat
    BY <1>3, <2>1, FS_EmptySet
  <2> QED
    BY <2>2
<1>5. ASSUME NEW i \in 1..n, i - 1 \in K PROVE i \in K
  <2>1. grown[i] = Onward(arrows, grown[i - 1]) /\ i \in 0..n
    BY <1>1, <1>2
  <2>2. CASE Closed(arrows, grown[i - 1])
    <3>1. grown[i] = grown[i - 1]
      BY <2>1, <2>2 DEF Onward, Closed
    <3> QED
      BY <2>1, <2>2, <3>1
  <2>3. CASE i - 1 < Cardinality(Crossed(i - 1)) /\ ~ Closed(arrows, grown[i])
    <3>1. PICK b \in arrows : b[1] \in grown[i] /\ b[2] \notin grown[i]
      BY <2>3 DEF Closed
    <3>2. b \in Crossed(i) /\ b \notin Crossed(i - 1)
      BY <2>1, <3>1 DEF Onward
    <3>3. Crossed(i - 1) \subseteq Crossed(i)
      BY <2>1 DEF Onward
    <3> HIDE DEF Crossed
    <3>4. /\ Cardinality(Crossed(i - 1)) <= Cardinality(Crossed(i))
          /\ Cardinality(Crossed(i - 1)) # Cardinality(Crossed(i))
      BY <1>3, <3>2, <3>3, FS_Subset
    <3>5. Cardinality(Crossed(i - 1)) \in Nat /\ Cardinality(Crossed(i)) \in Nat
      BY <1>3
    <3> QED
      BY <2>1, <2>3, <3>4, <3>5
  <2> QED
    BY <1>5, <2>1, <2>2, <2>3
<1> HIDE DEF K
<1>6. n \in K
  BY <1>1, <1>4, <1>5, UpTo
<1>7. ~ (n < Cardinality(Crossed(n)))
  <2> HIDE DEF Crossed
  <2> QED
    BY <1>1, <1>3
<1> QED
  BY <1>2, <1>6, <1>7 DEF K

-----------------------------------------------------------------------------
(* The tree of two canvases put together is both trees.                    *)
LEMMA TreeOfBoth ==
    ASSUME NEW A, NEW B
    PROVE  /\ Tree(A \cup B) = Tree(A) \cup Tree(B)
           /\ TreeIds(A \cup B) = TreeIds(A) \cup TreeIds(B)
           /\ TopIds(A \cup B) = TopIds(A) \cup TopIds(B)
           /\ NamedIds(A \cup B) = NamedIds(A) \cup NamedIds(B)
<1>1. Tree(A \cup B) = Tree(A) \cup Tree(B)
  BY DEF Tree
<1>2. TopIds(A \cup B) = TopIds(A) \cup TopIds(B)
  BY DEF TopIds
<1>3. NamedIds(A \cup B) = NamedIds(A) \cup NamedIds(B)
  BY DEF NamedIds
<1> QED
  BY <1>1, <1>2, <1>3 DEF TreeIds

(* Part of a canvas has part of its tree.                                  *)
LEMMA TreeOfPart ==
    ASSUME NEW A, NEW B, A \subseteq B
    PROVE  Tree(A) \subseteq Tree(B) /\ TreeIds(A) \subseteq TreeIds(B)
BY DEF Tree, TreeIds

(* A canvas has finitely many arrows.                                      *)
LEMMA FiniteArrows ==
    ASSUME NEW cs \in ComponentSets
    PROVE  IsFiniteSet(TreeIds(cs)) /\ IsFiniteSet(Arrows(cs))
<1> DEFINE inlines == {c.inline : c \in cs}
<1>1. IsFiniteSet(cs) /\ \A c \in cs : IsFiniteSet(c.inline)
  BY DEF ComponentSets
<1>2. IsFiniteSet({Flat(c) : c \in cs})
  <2> DEFINE f == [c \in cs |-> Flat(c)]
  <2>1. f \in Surjection(cs, {Flat(c) : c \in cs})
    BY DEF Surjection
  <2> QED
    BY <1>1, <2>1, FS_Surjection
<1>3. IsFiniteSet(inlines)
  <2> DEFINE f == [c \in cs |-> c.inline]
  <2>1. f \in Surjection(cs, inlines)
    BY DEF Surjection
  <2> QED
    BY <1>1, <2>1, FS_Surjection
<1>4. IsFiniteSet(UNION inlines)
  <2>1. \A x \in inlines : IsFiniteSet(x)
    BY <1>1
  <2> HIDE DEF inlines
  <2> QED
    BY <1>3, <2>1, FS_UNION
<1>5. IsFiniteSet(Tree(cs))
  BY <1>2, <1>4, FS_Union DEF Tree
<1>6. IsFiniteSet(TreeIds(cs))
  <2> DEFINE f == [n \in Tree(cs) |-> n.id]
  <2>1. f \in Surjection(Tree(cs), TreeIds(cs))
    BY DEF Surjection, TreeIds
  <2> QED
    BY <1>5, <2>1, FS_Surjection
<1>7. IsFiniteSet(TreeIds(cs) \X TreeIds(cs))
  BY <1>6, FS_Product
<1>8. Arrows(cs) \in SUBSET (TreeIds(cs) \X TreeIds(cs))
  BY DEF Arrows
<1> QED
  BY <1>6, <1>7, <1>8, FS_Subset

(* What an update leaves on a canvas, and what it makes of it.             *)
LEMMA UpdatedType ==
    ASSUME NEW canvas \in ComponentSets, NEW cs \in ComponentSets
    PROVE  /\ Kept(canvas, cs) \in ComponentSets
           /\ Kept(canvas, cs) \cup cs \in ComponentSets
<1>1. Kept(canvas, cs) \in SUBSET canvas
  BY DEF Kept
<1>2. IsFiniteSet(Kept(canvas, cs))
  BY <1>1, FS_Subset DEF ComponentSets
<1>3. IsFiniteSet(Kept(canvas, cs) \cup cs)
  BY <1>2, FS_Union DEF ComponentSets
<1> QED
  BY <1>1, <1>2, <1>3 DEF ComponentSets

(* Where the direct successors of n are.                                   *)
Succ(arrows, n) == {a[2] : a \in {b \in arrows : b[1] = n}}

(* Where no member of a finite set is on a circle, some member has no      *)
(* predecessor in the set.                                                 *)
LEMMA FirstWithoutCircle ==
    ASSUME NEW arrows, IsFiniteSet(arrows),
           NEW S, S # {}, IsFiniteSet(S),
           \A n \in S : n \notin Reached(arrows, Succ(arrows, n))
    PROVE  \E m \in S : \A a \in arrows : a[2] = m => a[1] \notin S
<1> DEFINE Left(n) == S \ Reached(arrows, Succ(arrows, n))
           Sizes == {Cardinality(Left(n)) : n \in S}
<1>1. ASSUME NEW n PROVE IsFiniteSet(Left(n)) /\ Cardinality(Left(n)) \in Nat
  <2>1. Left(n) \in SUBSET S
    OBVIOUS
  <2> HIDE DEF Left
  <2> QED
    BY <2>1, FS_Subset, FS_CardinalityType
<1>2. PICK n \in S : \A k \in S : Cardinality(Left(n)) <= Cardinality(Left(k))
  <2> HIDE DEF Left
  <2>1. Sizes \in SUBSET Nat /\ Sizes # {}
    BY <1>1
  <2>2. PICK m \in Sizes : \A k \in Sizes : m <= k
    <3> HIDE DEF Sizes
    <3> QED
      BY <2>1, LeastNumber
  <2> QED
    BY <2>2
<1>3. ASSUME NEW a \in arrows, a[2] = n, a[1] \in S PROVE FALSE
  <2> DEFINE p == a[1]
  <2>1. n \in Succ(arrows, p)
    BY <1>3 DEF Succ
  <2>2. n \in Reached(arrows, Succ(arrows, p))
    BY <2>1, ReachedStart
  <2>3. Closed(arrows, Reached(arrows, Succ(arrows, p)))
    BY ReachedClosed
  <2>4. Succ(arrows, n) \subseteq Reached(arrows, Succ(arrows, p))
    BY <2>2, <2>3 DEF Closed, Succ
  <2>5. Reached(arrows, Succ(arrows, n)) \subseteq Reached(arrows, Succ(arrows, p))
    BY <2>3, <2>4, ReachedLeast
  <2>6. Left(p) \in SUBSET Left(n) /\ n \in Left(n) /\ n \notin Left(p)
    BY <2>2, <2>5
  <2>7. p \in S
    BY <1>3
  <2> HIDE DEF Left
  <2>8. /\ Cardinality(Left(p)) <= Cardinality(Left(n))
        /\ Cardinality(Left(p)) # Cardinality(Left(n))
    BY <1>1, <2>6, FS_Subset
  <2>9. Cardinality(Left(n)) <= Cardinality(Left(p))
    BY <1>2, <2>7
  <2> QED
    BY <1>1, <2>8, <2>9
<1> QED
  BY <1>3

(* Sets without a first member lie where an update has searched: the rest  *)
(* of the canvas is as it was.                                             *)
LEMMA OutsideIsAsBefore ==
    ASSUME NEW canvas \in ComponentSets, NEW cs \in ComponentSets, Sound(canvas),
           NEW S, S # {}, S \subseteq TreeIds(Kept(canvas, cs) \cup cs),
           S \cap TreeIds(cs) = {}
    PROVE  \E m \in S : \A a \in Arrows(Kept(canvas, cs) \cup cs) :
              a[2] = m => a[1] \notin S
<1> DEFINE all == Kept(canvas, cs) \cup cs
<1>1. Kept(canvas, cs) \subseteq canvas
  BY DEF Kept
<1>2. /\ TreeIds(all) = TreeIds(Kept(canvas, cs)) \cup TreeIds(cs)
      /\ Tree(all) = Tree(Kept(canvas, cs)) \cup Tree(cs)
  BY TreeOfBoth
<1>3. /\ TreeIds(Kept(canvas, cs)) \subseteq TreeIds(canvas)
      /\ Tree(Kept(canvas, cs)) \subseteq Tree(canvas)
  BY <1>1, TreeOfPart
<1>4. S \in (SUBSET TreeIds(canvas)) \ {{}}
  BY <1>2, <1>3
<1>5. PICK m \in S : \A a \in Arrows(canvas) : a[2] = m => a[1] \notin S
  BY <1>4 DEF Sound
<1>6. ASSUME NEW a \in Arrows(all), a[2] = m, a[1] \in S PROVE FALSE
  <2>1. PICK n \in Tree(all) : n.id = a[1] /\ a[2] \in n.refs
    BY DEF Arrows
  <2>2. n \notin Tree(cs)
    BY <1>6, <2>1 DEF TreeIds
  <2>3. n \in Tree(canvas)
    BY <1>2, <1>3, <2>1, <2>2
  <2>4. a \in TreeIds(all) \X TreeIds(all)
    BY DEF Arrows
  <2>5. a[1] \in TreeIds(canvas) /\ a[2] \in TreeIds(canvas)
    BY <1>4, <1>6
  <2>6. a \in TreeIds(canvas) \X TreeIds(canvas)
    BY <2>4, <2>5
  <2>7. a \in Arrows(canvas)
    BY <2>1, <2>3, <2>6 DEF Arrows
  <2> QED
    BY <1>5, <1>6, <2>7
<1> QED
  BY <1>6

(* The references of a canvas an accepted update has changed are known.    *)
LEMMA ReferencesStay ==
    ASSUME NEW canvas \in ComponentSets, NEW cs \in ComponentSets,
           NamedIds(canvas) \subseteq TopIds(canvas), KnownReferences(canvas, cs)
    PROVE  NamedIds(Kept(canvas, cs) \cup cs) \subseteq TopIds(Kept(canvas, cs) \cup cs)
<1>1. NamedIds(Kept(canvas, cs)) \subseteq NamedIds(canvas)
  BY DEF Kept, NamedIds
<1>2. TopIds(canvas) \subseteq TopIds(Kept(canvas, cs)) \cup TopIds(cs)
  BY DEF Kept, TopIds
<1>3. /\ NamedIds(Kept(canvas, cs) \cup cs) = NamedIds(Kept(canvas, cs)) \cup NamedIds(cs)
      /\ TopIds(Kept(canvas, cs) \cup cs) = TopIds(Kept(canvas, cs)) \cup TopIds(cs)
  BY TreeOfBoth
<1>4. NamedIds(cs) \subseteq TopIds(cs) \cup TopIds(canvas)
  BY DEF KnownReferences
<1> QED
  BY <1>1, <1>2, <1>3, <1>4

(* An update that is accepted keeps a sound canvas sound.  The search      *)
(* starts at the components of the message only: a set without a first     *)
(* member has one without a first member where the search was, which it    *)
(* would have found, or one where it was not, and that was on the canvas   *)
(* before.                                                                 *)
LEMMA UpdateSound ==
    ASSUME NEW canvas \in ComponentSets, NEW cs \in ComponentSets,
           Sound(canvas), UpdateAccepted(canvas, cs, TRUE)
    PROVE  Sound(Kept(canvas, cs) \cup cs)
<1> DEFINE all    == Kept(canvas, cs) \cup cs
           arrows == Arrows(all)
           R      == Reached(arrows, TreeIds(cs))
<1>1. all \in ComponentSets
  BY UpdatedType
<1>2. IsFiniteSet(arrows) /\ IsFiniteSet(TreeIds(all))
  BY <1>1, FiniteArrows
<1>3. TreeIds(cs) \subseteq R /\ Closed(arrows, R)
  BY <1>2, ReachedStart, ReachedClosed
<1>4. \A n \in R : n \notin Reached(arrows, Succ(arrows, n))
  BY DEF UpdateAccepted, NoCycleFrom, Succ
<1>5. NamedIds(all) \subseteq TopIds(all)
  BY ReferencesStay DEF Sound, UpdateAccepted
<1> HIDE DEF R
<1>6. ASSUME NEW S \in (SUBSET TreeIds(all)) \ {{}}
      PROVE  \E m \in S : \A a \in arrows : a[2] = m => a[1] \notin S
  <2>1. CASE S \subseteq R
    <3>1. IsFiniteSet(S)
      BY <1>2, FS_Subset
    <3> HIDE DEF arrows
    <3> QED
      BY <1>2, <1>4, <2>1, <3>1, FirstWithoutCircle
  <2>2. CASE ~ (S \subseteq R)
    <3> DEFINE X == S \ R
    <3>1. X # {} /\ X \subseteq TreeIds(all) /\ X \cap TreeIds(cs) = {}
      BY <1>3, <2>2
    <3> HIDE DEF X
    <3>2. PICK m \in X : \A a \in arrows : a[2] = m => a[1] \notin X
      BY <3>1, OutsideIsAsBefore
    <3>3. m \in S /\ m \notin R
      BY DEF X
    <3>4. \A a \in arrows : a[2] = m => a[1] \notin R
      BY <1>3, <3>3 DEF Closed
    <3> QED
      BY <3>2, <3>3, <3>4 DEF X
  <2> QED
    BY <2>1, <2>2
<1> QED
  BY <1>5, <1>6 DEF Sound

(* The empty canvas is sound.                                              *)
LEMMA EmptySound == {} \in ComponentSets /\ Sound({})
<1>1. TreeIds({}) = {} /\ NamedIds({}) = {}
  BY DEF TreeIds, Tree, NamedIds
<1> QED
  BY <1>1, FS_EmptySet DEF Sound, ComponentSets

(* A canvas without circles has no component that refers to itself.        *)
LEMMA NoSelfArrow ==
    ASSUME NEW canvas, Sound(canvas), NEW a \in Arrows(canvas)
    PROVE  a[1] # a[2]
<1>1. {a[2]} \in (SUBSET TreeIds(canvas)) \ {{}}
  BY DEF Arrows
<1> QED
  BY <1>1 DEF Sound

(* Components that stand alone without a circle are accepted on every      *)
(* sound canvas without components in place: no reference leads from them  *)
(* to what is left on it.                                                  *)
LEMMA StandsAloneAccepted ==
    ASSUME NEW canvas \in ComponentSets, NEW cs \in ComponentSets,
           Sound(canvas), \A c \in canvas : c.inline = {},
           StandsAlone(cs), UpdateAccepted({}, cs, TRUE)
    PROVE  UpdateAccepted(canvas, cs, TRUE)
<1> DEFINE all    == Kept(canvas, cs) \cup cs
           arrows == Arrows(all)
           own    == Arrows(cs)
<1>1. Kept({}, cs) \cup cs = cs
  BY DEF Kept
<1>2. /\ cs # {} /\ UniqueIds(cs)
      /\ NamedIds(cs) \subseteq TopIds(cs)
      /\ \A a \in own : a[1] # a[2]
      /\ \A n \in Reached(own, TreeIds(cs)) : n \notin Reached(own, Succ(own, n))
  BY <1>1 DEF UpdateAccepted, KnownReferences, NoCycleFrom, Succ, TopIds
<1>3. IsFiniteSet(arrows) /\ IsFiniteSet(own)
  BY UpdatedType, FiniteArrows
<1>4. /\ TreeIds(all) = TreeIds(Kept(canvas, cs)) \cup TreeIds(cs)
      /\ Tree(all) = Tree(Kept(canvas, cs)) \cup Tree(cs)
  BY TreeOfBoth
<1>5. Tree(Kept(canvas, cs)) \subseteq Tree(canvas) /\ TreeIds(Kept(canvas, cs)) \subseteq TreeIds(canvas)
  BY TreeOfPart DEF Kept
<1>6. TreeIds(cs) = TopIds(cs)
  <2>1. Tree(cs) = {Flat(c) : c \in cs}
    BY DEF Tree, StandsAlone
  <2>2. \A c : Flat(c).id = c.id
    BY DEF Flat
  <2> QED
    BY <2>1, <2>2 DEF TreeIds, TopIds
<1>7. ASSUME NEW n \in Tree(Kept(canvas, cs)) PROVE n.id \notin TreeIds(cs)
  <2>1. PICK c \in Kept(canvas, cs) : n = Flat(c)
    BY DEF Tree, Kept
  <2> QED
    BY <1>6, <2>1 DEF Kept, Flat
<1>8. ASSUME NEW a \in arrows, a[1] \in TreeIds(cs) PROVE a \in own
  <2>1. PICK n \in Tree(all) : n.id = a[1] /\ a[2] \in n.refs
    BY DEF Arrows
  <2>2. n \in Tree(cs)
    BY <1>4, <1>7, <1>8, <2>1
  <2>3. PICK c \in cs : n = Flat(c)
    BY <2>2 DEF Tree, StandsAlone
  <2>4. n.refs = c.refs
    BY <2>3 DEF Flat, StandsAlone
  <2>5. a[2] \in NamedIds(cs)
    BY <2>1, <2>4 DEF NamedIds
  <2>6. a[2] \in TreeIds(cs)
    BY <1>2, <1>6, <2>5
  <2>7. a \in TreeIds(all) \X TreeIds(all)
    BY DEF Arrows
  <2>8. a \in TreeIds(cs) \X TreeIds(cs)
    BY <1>8, <2>6, <2>7
  <2> QED
    BY <2>1, <2>2, <2>8 DEF Arrows
<1>9. Closed(arrows, TreeIds(cs))
  BY <1>8 DEF Closed, Arrows
<1>10. ASSUME NEW a \in arrows PROVE a[1] # a[2]
  <2>1. CASE a[1] \in TreeIds(cs)
    BY <1>2, <1>8, <2>1
  <2>2. CASE a[1] \notin TreeIds(cs)
    <3> SUFFICES ASSUME a[1] = a[2] PROVE FALSE
      OBVIOUS
    <3>1. PICK n \in Tree(all) : n.id = a[1] /\ a[2] \in n.refs
      BY DEF Arrows
    <3>2. n \in Tree(canvas)
      BY <1>4, <1>5, <2>2, <3>1 DEF TreeIds
    <3>3. a[1] \in TreeIds(canvas) /\ a \in TreeIds(all) \X TreeIds(all)
      BY <3>1, <3>2 DEF TreeIds, Arrows
    <3>4. a \in Arrows(canvas)
      BY <3>1, <3>2, <3>3 DEF Arrows
    <3> QED
      BY <3>4, NoSelfArrow
  <2> QED
    BY <2>1, <2>2
<1>11. ASSUME NEW n \in Reached(arrows, TreeIds(cs))
       PROVE  n \notin Reached(arrows, Succ(arrows, n))
  <2>1. n \in TreeIds(cs)
    BY <1>3, <1>9, ReachedLeast
  <2>2. n \in Reached(own, TreeIds(cs))
    BY <1>3, <2>1, ReachedStart
  <2>3. n \notin Reached(own, Succ(own, n))
    BY <1>2, <2>2
  <2> DEFINE X == Reached(own, Succ(own, n)) \cap TreeIds(cs)
  <2>4. Succ(arrows, n) \subseteq TreeIds(cs) /\ Succ(arrows, n) \subseteq Succ(own, n)
    BY <1>8, <1>9, <2>1 DEF Succ, Closed
  <2>5. Succ(arrows, n) \subseteq X
    BY <1>3, <2>4, ReachedStart
  <2>6. Closed(own, Reached(own, Succ(own, n)))
    BY <1>3, ReachedClosed
  <2>7. Closed(arrows, X)
    BY <1>8, <1>9, <2>6 DEF Closed
  <2> HIDE DEF arrows
  <2>8. Reached(arrows, Succ(arrows, n)) \subseteq X
    BY <1>3, <2>5, <2>7, ReachedLeast
  <2> QED
    BY <2>3, <2>8
<1>12. NoCycleFrom(canvas, cs)
  BY <1>10, <1>11 DEF NoCycleFrom, Succ
<1> QED
  BY <1>2, <1>12 DEF UpdateAccepted, KnownReferences

-----------------------------------------------------------------------------
(* The registry.                                                           *)
CanvasMaps    == [Surfaces -> ComponentSets]
OwnerMaps     == [Surfaces -> Owners]
Registries    == [owners : OwnerMaps, canvases : CanvasMaps]
CheckStates   == [ok : BOOLEAN, canvases : CanvasMaps]
ClaimStates   == [ok : BOOLEAN, owners : OwnerMaps]
DeliverStates == [sent : {"nothing", "answer", "fallback", "error"}, reg : Registries]

-----------------------------------------------------------------------------
(* Folds over a sequence.                                                  *)

(* A set of positions has a last one.                                      *)
LEMMA LastPosition ==
    ASSUME NEW n \in Nat, NEW T \in SUBSET (1..n), T # {}
    PROVE  \E m \in T : \A k \in T : k <= m
<1> DEFINE D == {n - k : k \in T}
<1>1. D \in SUBSET Nat /\ D # {}
  <2>1. \A k \in T : n - k \in Nat
    OBVIOUS
  <2> QED
    BY <2>1
<1>2. PICK d \in D : \A e \in D : d <= e
  <2> HIDE DEF D
  <2> QED
    BY <1>1, LeastNumber
<1>3. PICK m \in T : d = n - m
  BY <1>2
<1>4. ASSUME NEW k \in T PROVE k <= m
  <2>1. n - k \in D
    OBVIOUS
  <2>2. n - m <= n - k
    BY <1>2, <1>3, <2>1
  <2> QED
    BY <2>2
<1> QED
  BY <1>4

(* It is the maximum.                                                      *)
LEMMA MaxPosition ==
    ASSUME NEW n \in Nat, NEW T \in SUBSET (1..n), T # {}
    PROVE  Max(T) \in T /\ \A k \in T : Max(T) >= k
<1>1. PICK m \in T : \A k \in T : k <= m
  BY LastPosition
<1>2. \A k \in T : m >= k
  BY <1>1
<1> QED
  BY <1>2 DEF Max

(* A fold of F over the positions up to n, as FoldLeft takes them.         *)
FoldsBy(it, n, s0, F) ==
    \A T \in SUBSET (1..n) :
        it[T] = IF T = {} THEN s0 ELSE F[<<Max(T), it[T \ {Max(T)}]>>]

(* It exists.                                                              *)
LEMMA FoldExists ==
    ASSUME NEW n \in Nat, NEW S, NEW s0 \in S, NEW F \in [(1..n) \X S -> S]
    PROVE  \E it \in [SUBSET (1..n) -> S] : FoldsBy(it, n, s0, F)
<1> DEFINE K == {k \in 0..n : \E it \in [SUBSET (1..k) -> S] : FoldsBy(it, k, s0, F)}
<1>1. 0 \in K
  <2> DEFINE it == [T \in SUBSET (1..0) |-> s0]
  <2>1. it \in [SUBSET (1..0) -> S] /\ 0 \in 0..n
    OBVIOUS
  <2>2. \A T \in SUBSET (1..0) : T = {} /\ it[T] = s0
    OBVIOUS
  <2>3. FoldsBy(it, 0, s0, F)
    BY <2>2 DEF FoldsBy
  <2> QED
    BY <2>1, <2>3
<1>2. ASSUME NEW k \in 1..n, k - 1 \in K PROVE k \in K
  <2>1. PICK g \in [SUBSET (1..(k - 1)) -> S] : FoldsBy(g, k - 1, s0, F)
    BY <1>2
  <2> DEFINE h == [T \in SUBSET (1..k) |->
                      IF k \in T THEN F[<<k, g[T \ {k}]>>] ELSE g[T]]
  <2>2. k \in Nat /\ k - 1 \in Nat /\ k \in 0..n
    OBVIOUS
  <2>3. \A T \in SUBSET (1..k) : T \ {k} \in SUBSET (1..(k - 1))
    BY <2>2
  <2>4. \A T \in SUBSET (1..k) : k \notin T => T \in SUBSET (1..(k - 1))
    BY <2>2
  <2>5. h \in [SUBSET (1..k) -> S]
    <3>1. \A T \in SUBSET (1..k) : F[<<k, g[T \ {k}]>>] \in S
      BY <2>3
    <3> QED
      BY <2>4, <3>1
  <2>6. ASSUME NEW T \in SUBSET (1..k)
        PROVE  h[T] = IF T = {} THEN s0 ELSE F[<<Max(T), h[T \ {Max(T)}]>>]
    <3>1. CASE k \in T
      <4>1. Max(T) = k
        <5>1. Max(T) \in T /\ \A j \in T : Max(T) >= j
          BY <2>2, <3>1, MaxPosition
        <5> HIDE DEF h
        <5>2. Max(T) \in 1..k /\ Max(T) >= k
          BY <3>1, <5>1
        <5> QED
          BY <2>2, <5>2
      <4>2. h[T \ {k}] = g[T \ {k}]
        BY <2>3
      <4> QED
        BY <3>1, <4>1, <4>2
    <3>2. CASE k \notin T /\ T # {}
      <4>1. Max(T) \in T
        BY <2>2, <3>2, MaxPosition
      <4>2. T \ {Max(T)} \in SUBSET (1..k) /\ k \notin T \ {Max(T)}
        BY <3>2
      <4>3. h[T \ {Max(T)}] = g[T \ {Max(T)}] /\ h[T] = g[T]
        BY <3>2, <4>2
      <4>4. g[T] = F[<<Max(T), g[T \ {Max(T)}]>>]
        BY <2>1, <2>4, <3>2 DEF FoldsBy
      <4> QED
        BY <3>2, <4>3, <4>4
    <3>3. CASE T = {}
      <4>1. g[{}] = s0 /\ h[{}] = g[{}]
        BY <2>1 DEF FoldsBy
      <4> QED
        BY <3>3, <4>1
    <3> QED
      BY <3>1, <3>2, <3>3
  <2> HIDE DEF h
  <2>7. FoldsBy(h, k, s0, F)
    BY <2>6 DEF FoldsBy
  <2> QED
    BY <2>2, <2>5, <2>7
<1> HIDE DEF K
<1>3. n \in K
  BY <1>1, <1>2, UpTo
<1> QED
  BY <1>3 DEF K

(* The positions up to i, without the last.                                *)
LEMMA FirstPositions ==
    ASSUME NEW n \in Nat, NEW i \in 1..n
    PROVE  /\ 1..i \in SUBSET (1..n)
           /\ 1..i # {}
           /\ i - 1 \in 0..n
           /\ Max(1..i) = i
           /\ (1..i) \ {i} = 1..(i - 1)
<1>1. 1..i \in SUBSET (1..n)
  OBVIOUS
<1>2. 1..i # {}
  OBVIOUS
<1>3. i - 1 \in 0..n
  OBVIOUS
<1>4. Max(1..i) = i
  <2> DEFINE m == Max(1..i)
  <2>1. m \in 1..i /\ \A k \in 1..i : m >= k
    BY <1>1, <1>2, MaxPosition
  <2> HIDE DEF m
  <2>2. i \in 1..i
    OBVIOUS
  <2>3. m = i
    BY <2>1, <2>2
  <2> QED
    BY <2>3 DEF m
<1>5. (1..i) \ {i} = 1..(i - 1)
  OBVIOUS
<1> QED
  BY <1>1, <1>2, <1>3, <1>4, <1>5

(* A fold that F describes as long as it stays in S.                       *)
FoldsIn(it, n, S, s0, F) ==
    /\ it[{}] = s0
    /\ \A T \in SUBSET (1..n) : T # {} /\ it[T \ {Max(T)}] \in S =>
          it[T] = F[<<Max(T), it[T \ {Max(T)}]>>]

Passes(st, n, s0, F, it) == Iterates(st, n, s0, F) /\ st[n] = it[1..n]

(* Taken position by position, it passes through the values of a function  *)
(* on 0..n.                                                                *)
LEMMA FoldIterates ==
    ASSUME NEW n \in Nat, NEW S, NEW s0 \in S, NEW F \in [(1..n) \X S -> S],
           NEW it, FoldsIn(it, n, S, s0, F)
    PROVE  \E st \in [0..n -> S] : Passes(st, n, s0, F, it)
<1> DEFINE st == [i \in 0..n |-> it[1..i]]
<1>1. st[0] = s0 /\ st[n] = it[1..n]
  <2>1. 1..0 = {} /\ 0 \in 0..n /\ n \in 0..n
    OBVIOUS
  <2> QED
    BY <2>1 DEF FoldsIn
<1>2. ASSUME NEW i \in 1..n, st[i - 1] \in S PROVE st[i] = F[<<i, st[i - 1]>>]
  <2>1. /\ 1..i \in SUBSET (1..n) /\ 1..i # {} /\ i - 1 \in 0..n /\ i \in 0..n
        /\ Max(1..i) = i /\ (1..i) \ {i} = 1..(i - 1)
    BY FirstPositions
  <2> QED
    BY <1>2, <2>1 DEF FoldsIn
<1> DEFINE K == {i \in 0..n : st[i] \in S}
<1>3. 0 \in K
  BY <1>1
<1>4. ASSUME NEW i \in 1..n, i - 1 \in K PROVE i \in K
  <2> HIDE DEF st
  <2>1. st[i - 1] \in S /\ i \in 0..n
    BY <1>4
  <2>2. st[i] = F[<<i, st[i - 1]>>] /\ <<i, st[i - 1]>> \in (1..n) \X S
    BY <1>2, <2>1
  <2> QED
    BY <2>1, <2>2
<1> HIDE DEF K
<1>5. 0..n \subseteq K
  BY <1>3, <1>4, UpTo
<1>6. st \in [0..n -> S]
  BY <1>5 DEF K
<1>7. \A i \in 1..n : i - 1 \in 0..n
  OBVIOUS
<1> QED
  BY <1>1, <1>2, <1>6, <1>7 DEF Iterates, Passes

-----------------------------------------------------------------------------
(* The folds of the registry, one message after the other.                 *)

CheckStep(st, m, strict) ==
    IF st.ok /\ Valid(st.canvases, m, strict)
      THEN [ok |-> TRUE, canvases |-> Applied(st.canvases, m)]
      ELSE [st EXCEPT !.ok = FALSE]

ClaimStep(st, m, a) ==
    IF st.ok /\ MayTouch(st.owners, m.surface, a)
      THEN [ok |-> TRUE,
            owners |-> [st.owners EXCEPT ![m.surface] =
               IF m.kind = "delete" THEN NoOwner ELSE Specialist(a)]]
      ELSE [st EXCEPT !.ok = FALSE]

PlanClaimStep(st, m) ==
    CASE m.kind = "delete" ->
           [st EXCEPT !.owners[m.surface] =
              IF @ = Orchestrator THEN NoOwner ELSE @]
      [] m.kind # "delete" /\ st.owners[m.surface] \in {NoOwner, Orchestrator} ->
           [st EXCEPT !.owners[m.surface] = Orchestrator]
      [] OTHER -> [st EXCEPT !.ok = FALSE]

DeliverStep(st, part) ==
    IF st.sent = "error" THEN st
    ELSE Prepared(st.reg, Invoked(part.answer, part.listed), part.agent)

(* Applying a message to canvases gives canvases.                          *)
LEMMA AppliedType ==
    ASSUME NEW cans \in CanvasMaps, NEW m \in Messages
    PROVE  Applied(cans, m) \in CanvasMaps
<1>1. m.surface \in Surfaces /\ m.parts \in ComponentSets
  BY DEF Messages
<1>2. cans[m.surface] \in ComponentSets /\ {} \in ComponentSets
  BY <1>1, EmptySound DEF CanvasMaps
<1>3. Updated(cans[m.surface], m.parts, m.replace) \in ComponentSets
  BY <1>1, <1>2, UpdatedType DEF Updated, Baseline
<1>4. /\ [cans EXCEPT ![m.surface] = {}] \in CanvasMaps
      /\ [cans EXCEPT ![m.surface] = Updated(@, m.parts, m.replace)] \in CanvasMaps
  BY <1>1, <1>2, <1>3 DEF CanvasMaps
<1> QED
  BY <1>4 DEF Applied

(* Checking a message gives a state of the check.                          *)
LEMMA CheckStepType ==
    ASSUME NEW st \in CheckStates, NEW m \in Messages, NEW strict
    PROVE  CheckStep(st, m, strict) \in CheckStates
<1>1. st.canvases \in CanvasMaps
  BY DEF CheckStates
<1>2. Applied(st.canvases, m) \in CanvasMaps
  BY <1>1, AppliedType
<1> QED
  BY <1>2 DEF CheckStep, CheckStates

(* The check of a sequence of messages, message by message.                *)
LEMMA StagedSteps ==
    ASSUME NEW cans \in CanvasMaps, NEW messages \in Seq(Messages), NEW strict
    PROVE  \E st \in [0..Len(messages) -> CheckStates] :
              /\ st[0] = [ok |-> TRUE, canvases |-> cans]
              /\ \A i \in 1..Len(messages) : st[i] = CheckStep(st[i - 1], messages[i], strict)
              /\ Staged(cans, messages, strict) = st[Len(messages)]
<1> DEFINE n == Len(messages)
           s0 == [ok |-> TRUE, canvases |-> cans]
           S == CheckStates
           F == [x \in (1..n) \X S |-> CheckStep(x[2], messages[x[1]], strict)]
           Folds(it) == it = [T \in SUBSET DOMAIN messages |->
                           IF T = {} THEN s0
                           ELSE CheckStep(it[T \ {Max(T)}], messages[Max(T)], strict)]
           fold == CHOOSE it : Folds(it)
<1>1. n \in Nat /\ DOMAIN messages = 1..n /\ \A i \in 1..n : messages[i] \in Messages
  OBVIOUS
<1>2. s0 \in S
  BY DEF CheckStates
<1>3. F \in [(1..n) \X S -> S]
  BY <1>1, CheckStepType
<1>4. \E it : Folds(it)
  <2>1. PICK it \in [SUBSET (1..n) -> S] : FoldsBy(it, n, s0, F)
    <3> HIDE DEF F, S, n, s0
    <3> QED
      BY <1>1, <1>2, <1>3, FoldExists
  <2>2. ASSUME NEW T \in SUBSET (1..n), T # {}
        PROVE  it[T] = CheckStep(it[T \ {Max(T)}], messages[Max(T)], strict)
    <3>1. Max(T) \in 1..n
      BY <1>1, <2>2, MaxPosition
    <3>2. <<Max(T), it[T \ {Max(T)}]>> \in (1..n) \X S
      BY <3>1
    <3> QED
      BY <2>1, <2>2, <3>2 DEF FoldsBy
  <2>3. it[{}] = s0
    BY <2>1 DEF FoldsBy
  <2>4. it = [T \in SUBSET (1..n) |->
                 IF T = {} THEN s0
                 ELSE CheckStep(it[T \ {Max(T)}], messages[Max(T)], strict)]
    BY <2>2, <2>3
  <2> QED
    BY <1>1, <2>4
<1>5. Staged(cans, messages, strict) = fold[1..n]
  BY <1>1 DEF Staged, FoldLeft, MapThenFoldSet, CheckStep
<1>6. Folds(fold)
  BY <1>4
<1> HIDE DEF fold
<1>7. fold[{}] = s0
  BY <1>6
<1>8. ASSUME NEW T \in SUBSET (1..n), T # {}, fold[T \ {Max(T)}] \in S
      PROVE  fold[T] = F[<<Max(T), fold[T \ {Max(T)}]>>]
  <2>1. <<Max(T), fold[T \ {Max(T)}]>> \in (1..n) \X S
    BY <1>1, <1>8, MaxPosition
  <2> QED
    BY <1>1, <1>6, <1>8, <2>1
<1>9. PICK st \in [0..n -> S] : Passes(st, n, s0, F, fold)
  <2> HIDE DEF F, S, n, s0
  <2>1. FoldsIn(fold, n, S, s0, F)
    BY <1>7, <1>8 DEF FoldsIn
  <2> QED
    BY <1>1, <1>2, <1>3, <2>1, FoldIterates
<1>10. ASSUME NEW i \in 1..n PROVE st[i] = CheckStep(st[i - 1], messages[i], strict)
  <2>1. <<i, st[i - 1]>> \in (1..n) \X S
    BY <1>1
  <2> QED
    BY <1>9, <2>1 DEF Iterates, Passes
<1> QED
  BY <1>5, <1>9, <1>10 DEF Iterates, Passes

(* Claiming what a message names gives a state of the claims.              *)
LEMMA ClaimStepType ==
    ASSUME NEW st \in ClaimStates, NEW m \in Messages, NEW a \in Agents
    PROVE  ClaimStep(st, m, a) \in ClaimStates
<1>1. st.owners \in OwnerMaps /\ m.surface \in Surfaces
  BY DEF ClaimStates, Messages
<1>2. NoOwner \in Owners /\ Specialist(a) \in Owners
  BY DEF Owners
<1>3. [st.owners EXCEPT ![m.surface] = IF m.kind = "delete" THEN NoOwner ELSE Specialist(a)]
         \in OwnerMaps
  BY <1>1, <1>2 DEF OwnerMaps
<1> QED
  BY <1>3 DEF ClaimStep, ClaimStates

(* The same of the orchestrator's own messages.                            *)
LEMMA PlanClaimStepType ==
    ASSUME NEW st \in ClaimStates, NEW m \in Messages
    PROVE  PlanClaimStep(st, m) \in ClaimStates
<1>1. st.owners \in OwnerMaps /\ m.surface \in Surfaces /\ st.ok \in BOOLEAN
  BY DEF ClaimStates, Messages
<1>2. NoOwner \in Owners /\ Orchestrator \in Owners
  BY DEF Owners
<1>3. \A o \in Owners : [st.owners EXCEPT ![m.surface] = o] \in OwnerMaps
  BY <1>1 DEF OwnerMaps
<1>4. st.owners[m.surface] \in Owners
  BY <1>1 DEF OwnerMaps
<1>5. CASE m.kind = "delete"
  <2>1. PlanClaimStep(st, m) = [st EXCEPT !.owners =
           [st.owners EXCEPT ![m.surface] =
               IF st.owners[m.surface] = Orchestrator THEN NoOwner
               ELSE st.owners[m.surface]]]
    BY <1>5 DEF PlanClaimStep, ClaimStates
  <2> QED
    BY <1>2, <1>3, <1>4, <2>1 DEF ClaimStates
<1>6. CASE m.kind # "delete" /\ st.owners[m.surface] \in {NoOwner, Orchestrator}
  <2>1. PlanClaimStep(st, m) = [st EXCEPT !.owners =
           [st.owners EXCEPT ![m.surface] = Orchestrator]]
    BY <1>6 DEF PlanClaimStep, ClaimStates
  <2> QED
    BY <1>2, <1>3, <2>1 DEF ClaimStates
<1>7. CASE m.kind # "delete" /\ st.owners[m.surface] \notin {NoOwner, Orchestrator}
  BY <1>7 DEF PlanClaimStep, ClaimStates
<1> QED
  BY <1>5, <1>6, <1>7

(* The claims of an answer, message by message.                            *)
LEMMA ClaimedSteps ==
    ASSUME NEW own \in OwnerMaps, NEW messages \in Seq(Messages), NEW a \in Agents
    PROVE  \E st \in [0..Len(messages) -> ClaimStates] :
              /\ st[0] = [ok |-> TRUE, owners |-> own]
              /\ \A i \in 1..Len(messages) : st[i] = ClaimStep(st[i - 1], messages[i], a)
              /\ Claimed(own, messages, a) = st[Len(messages)]
<1> DEFINE n == Len(messages)
           s0 == [ok |-> TRUE, owners |-> own]
           S == ClaimStates
           F == [x \in (1..n) \X S |-> ClaimStep(x[2], messages[x[1]], a)]
           Folds(it) == it = [T \in SUBSET DOMAIN messages |->
                           IF T = {} THEN s0
                           ELSE ClaimStep(it[T \ {Max(T)}], messages[Max(T)], a)]
           fold == CHOOSE it : Folds(it)
<1>1. n \in Nat /\ DOMAIN messages = 1..n /\ \A i \in 1..n : messages[i] \in Messages
  OBVIOUS
<1>2. s0 \in S
  BY DEF ClaimStates
<1>3. F \in [(1..n) \X S -> S]
  BY <1>1, ClaimStepType
<1>4. \E it : Folds(it)
  <2>1. PICK it \in [SUBSET (1..n) -> S] : FoldsBy(it, n, s0, F)
    <3> HIDE DEF F, S, n, s0
    <3> QED
      BY <1>1, <1>2, <1>3, FoldExists
  <2>2. ASSUME NEW T \in SUBSET (1..n), T # {}
        PROVE  it[T] = ClaimStep(it[T \ {Max(T)}], messages[Max(T)], a)
    <3>1. Max(T) \in 1..n
      BY <1>1, <2>2, MaxPosition
    <3>2. <<Max(T), it[T \ {Max(T)}]>> \in (1..n) \X S
      BY <3>1
    <3> QED
      BY <2>1, <2>2, <3>2 DEF FoldsBy
  <2>3. it[{}] = s0
    BY <2>1 DEF FoldsBy
  <2>4. it = [T \in SUBSET (1..n) |->
                 IF T = {} THEN s0
                 ELSE ClaimStep(it[T \ {Max(T)}], messages[Max(T)], a)]
    BY <2>2, <2>3
  <2> QED
    BY <1>1, <2>4
<1>5. Claimed(own, messages, a) = fold[1..n]
  BY <1>1 DEF Claimed, FoldLeft, MapThenFoldSet, ClaimStep
<1>6. Folds(fold)
  BY <1>4
<1> HIDE DEF fold
<1>7. fold[{}] = s0
  BY <1>6
<1>8. ASSUME NEW T \in SUBSET (1..n), T # {}, fold[T \ {Max(T)}] \in S
      PROVE  fold[T] = F[<<Max(T), fold[T \ {Max(T)}]>>]
  <2>1. <<Max(T), fold[T \ {Max(T)}]>> \in (1..n) \X S
    BY <1>1, <1>8, MaxPosition
  <2> QED
    BY <1>1, <1>6, <1>8, <2>1
<1>9. PICK st \in [0..n -> S] : Passes(st, n, s0, F, fold)
  <2> HIDE DEF F, S, n, s0
  <2>1. FoldsIn(fold, n, S, s0, F)
    BY <1>7, <1>8 DEF FoldsIn
  <2> QED
    BY <1>1, <1>2, <1>3, <2>1, FoldIterates
<1>10. ASSUME NEW i \in 1..n PROVE st[i] = ClaimStep(st[i - 1], messages[i], a)
  <2>1. <<i, st[i - 1]>> \in (1..n) \X S
    BY <1>1
  <2> QED
    BY <1>9, <2>1 DEF Iterates, Passes
<1> QED
  BY <1>5, <1>9, <1>10 DEF Iterates, Passes

(* The claims of the orchestrator, message by message.                     *)
LEMMA PlanClaimedSteps ==
    ASSUME NEW own \in OwnerMaps, NEW messages \in Seq(Messages)
    PROVE  \E st \in [0..Len(messages) -> ClaimStates] :
              /\ st[0] = [ok |-> TRUE, owners |-> own]
              /\ \A i \in 1..Len(messages) : st[i] = PlanClaimStep(st[i - 1], messages[i])
              /\ ClaimedForPlan(own, messages) = st[Len(messages)]
<1> DEFINE n == Len(messages)
           s0 == [ok |-> TRUE, owners |-> own]
           S == ClaimStates
           F == [x \in (1..n) \X S |-> PlanClaimStep(x[2], messages[x[1]])]
           Folds(it) == it = [T \in SUBSET DOMAIN messages |->
                           IF T = {} THEN s0
                           ELSE PlanClaimStep(it[T \ {Max(T)}], messages[Max(T)])]
           fold == CHOOSE it : Folds(it)
<1>1. n \in Nat /\ DOMAIN messages = 1..n /\ \A i \in 1..n : messages[i] \in Messages
  OBVIOUS
<1>2. s0 \in S
  BY DEF ClaimStates
<1>3. F \in [(1..n) \X S -> S]
  BY <1>1, PlanClaimStepType
<1>4. \E it : Folds(it)
  <2>1. PICK it \in [SUBSET (1..n) -> S] : FoldsBy(it, n, s0, F)
    <3> HIDE DEF F, S, n, s0
    <3> QED
      BY <1>1, <1>2, <1>3, FoldExists
  <2>2. ASSUME NEW T \in SUBSET (1..n), T # {}
        PROVE  it[T] = PlanClaimStep(it[T \ {Max(T)}], messages[Max(T)])
    <3>1. Max(T) \in 1..n
      BY <1>1, <2>2, MaxPosition
    <3>2. <<Max(T), it[T \ {Max(T)}]>> \in (1..n) \X S
      BY <3>1
    <3> QED
      BY <2>1, <2>2, <3>2 DEF FoldsBy
  <2>3. it[{}] = s0
    BY <2>1 DEF FoldsBy
  <2>4. it = [T \in SUBSET (1..n) |->
                 IF T = {} THEN s0
                 ELSE PlanClaimStep(it[T \ {Max(T)}], messages[Max(T)])]
    BY <2>2, <2>3
  <2> QED
    BY <1>1, <2>4
<1>5. ClaimedForPlan(own, messages) = fold[1..n]
  BY <1>1 DEF ClaimedForPlan, FoldLeft, MapThenFoldSet, PlanClaimStep
<1>6. Folds(fold)
  BY <1>4
<1> HIDE DEF fold
<1>7. fold[{}] = s0
  BY <1>6
<1>8. ASSUME NEW T \in SUBSET (1..n), T # {}, fold[T \ {Max(T)}] \in S
      PROVE  fold[T] = F[<<Max(T), fold[T \ {Max(T)}]>>]
  <2>1. <<Max(T), fold[T \ {Max(T)}]>> \in (1..n) \X S
    BY <1>1, <1>8, MaxPosition
  <2> QED
    BY <1>1, <1>6, <1>8, <2>1
<1>9. PICK st \in [0..n -> S] : Passes(st, n, s0, F, fold)
  <2> HIDE DEF F, S, n, s0
  <2>1. FoldsIn(fold, n, S, s0, F)
    BY <1>7, <1>8 DEF FoldsIn
  <2> QED
    BY <1>1, <1>2, <1>3, <2>1, FoldIterates
<1>10. ASSUME NEW i \in 1..n PROVE st[i] = PlanClaimStep(st[i - 1], messages[i])
  <2>1. <<i, st[i - 1]>> \in (1..n) \X S
    BY <1>1
  <2> QED
    BY <1>9, <2>1 DEF Iterates, Passes
<1> QED
  BY <1>5, <1>9, <1>10 DEF Iterates, Passes

-----------------------------------------------------------------------------
(* Messages that are taken in: all of them pass, one after the other.      *)

Checks(c, cans, messages, strict) ==
    /\ c[0] = cans
    /\ \A i \in 1..Len(messages) : /\ Valid(c[i - 1], messages[i], strict)
                                   /\ c[i] = Applied(c[i - 1], messages[i])

ClaimsOf(m, a) == IF m.kind = "delete" THEN NoOwner ELSE Specialist(a)

Claims(o, own, messages, a) ==
    /\ o[0] = own
    /\ \A i \in 1..Len(messages) :
          /\ MayTouch(o[i - 1], messages[i].surface, a)
          /\ o[i] = [o[i - 1] EXCEPT ![messages[i].surface] = ClaimsOf(messages[i], a)]

PlanClaimsOf(own, m) ==
    IF m.kind = "delete"
      THEN IF own[m.surface] = Orchestrator THEN NoOwner ELSE own[m.surface]
      ELSE Orchestrator

PlanClaims(o, own, messages) ==
    /\ o[0] = own
    /\ \A i \in 1..Len(messages) :
          /\ messages[i].kind # "delete" =>
                o[i - 1][messages[i].surface] \in {NoOwner, Orchestrator}
          /\ o[i] = [o[i - 1] EXCEPT
                        ![messages[i].surface] = PlanClaimsOf(o[i - 1], messages[i])]

(* A check that ends well went well all along.                             *)
LEMMA StagedOk ==
    ASSUME NEW cans \in CanvasMaps, NEW messages \in Seq(Messages), NEW strict,
           Staged(cans, messages, strict).ok
    PROVE  \E c \in [0..Len(messages) -> CanvasMaps] :
              /\ Checks(c, cans, messages, strict)
              /\ Staged(cans, messages, strict).canvases = c[Len(messages)]
<1> DEFINE n == Len(messages)
<1>1. PICK st \in [0..n -> CheckStates] :
         /\ st[0] = [ok |-> TRUE, canvases |-> cans]
         /\ \A i \in 1..n : st[i] = CheckStep(st[i - 1], messages[i], strict)
         /\ Staged(cans, messages, strict) = st[n]
  BY StagedSteps
<1>2. n \in Nat /\ \A i \in 1..n : i \in 0..n /\ i - 1 \in 0..n /\ messages[i] \in Messages
  OBVIOUS
<1>3. ASSUME NEW i \in 1..n, st[i].ok
      PROVE  /\ st[i - 1].ok /\ Valid(st[i - 1].canvases, messages[i], strict)
             /\ st[i].canvases = Applied(st[i - 1].canvases, messages[i])
  <2>1. st[i] = CheckStep(st[i - 1], messages[i], strict) /\ st[i - 1] \in CheckStates
    BY <1>1, <1>2
  <2>2. CASE st[i - 1].ok /\ Valid(st[i - 1].canvases, messages[i], strict)
    BY <2>1, <2>2 DEF CheckStep
  <2>3. CASE ~ (st[i - 1].ok /\ Valid(st[i - 1].canvases, messages[i], strict))
    <3>1. ~ st[i].ok
      BY <2>1, <2>3 DEF CheckStep, CheckStates
    <3> QED
      BY <1>3, <3>1
  <2> QED
    BY <2>2, <2>3
<1> DEFINE K == {i \in 0..n : st[i].ok}
<1>4. n \in K
  BY <1>1, <1>2
<1>5. \A i \in 1..n : i \in K => i - 1 \in K
  BY <1>2, <1>3
<1> HIDE DEF K
<1>6. 0..n \subseteq K
  BY <1>2, <1>4, <1>5, DownFrom
<1>7. \A i \in 0..n : st[i].ok
  BY <1>6 DEF K
<1> DEFINE c == [i \in 0..n |-> st[i].canvases]
<1>8. c \in [0..n -> CanvasMaps]
  BY <1>1 DEF CheckStates
<1>9. c[0] = cans /\ c[n] = Staged(cans, messages, strict).canvases
  BY <1>1, <1>2
<1>10. \A i \in 1..n : /\ Valid(c[i - 1], messages[i], strict)
                       /\ c[i] = Applied(c[i - 1], messages[i])
  BY <1>2, <1>3, <1>7
<1> QED
  BY <1>8, <1>9, <1>10 DEF Checks

(* Claims that end well went well all along.                               *)
LEMMA ClaimedOk ==
    ASSUME NEW own \in OwnerMaps, NEW messages \in Seq(Messages), NEW a \in Agents,
           Claimed(own, messages, a).ok
    PROVE  \E o \in [0..Len(messages) -> OwnerMaps] :
              /\ Claims(o, own, messages, a)
              /\ Claimed(own, messages, a).owners = o[Len(messages)]
<1> DEFINE n == Len(messages)
<1>1. PICK st \in [0..n -> ClaimStates] :
         /\ st[0] = [ok |-> TRUE, owners |-> own]
         /\ \A i \in 1..n : st[i] = ClaimStep(st[i - 1], messages[i], a)
         /\ Claimed(own, messages, a) = st[n]
  BY ClaimedSteps
<1>2. n \in Nat /\ \A i \in 1..n : i \in 0..n /\ i - 1 \in 0..n /\ messages[i] \in Messages
  OBVIOUS
<1>3. ASSUME NEW i \in 1..n, st[i].ok
      PROVE  /\ st[i - 1].ok /\ MayTouch(st[i - 1].owners, messages[i].surface, a)
             /\ st[i].owners = [st[i - 1].owners EXCEPT
                                  ![messages[i].surface] = ClaimsOf(messages[i], a)]
  <2>1. st[i] = ClaimStep(st[i - 1], messages[i], a) /\ st[i - 1] \in ClaimStates
    BY <1>1, <1>2
  <2>2. CASE st[i - 1].ok /\ MayTouch(st[i - 1].owners, messages[i].surface, a)
    BY <2>1, <2>2 DEF ClaimStep, ClaimsOf
  <2>3. CASE ~ (st[i - 1].ok /\ MayTouch(st[i - 1].owners, messages[i].surface, a))
    <3>1. ~ st[i].ok
      BY <2>1, <2>3 DEF ClaimStep, ClaimStates
    <3> QED
      BY <1>3, <3>1
  <2> QED
    BY <2>2, <2>3
<1> DEFINE K == {i \in 0..n : st[i].ok}
<1>4. n \in K
  BY <1>1, <1>2
<1>5. \A i \in 1..n : i \in K => i - 1 \in K
  BY <1>2, <1>3
<1> HIDE DEF K
<1>6. 0..n \subseteq K
  BY <1>2, <1>4, <1>5, DownFrom
<1>7. \A i \in 0..n : st[i].ok
  BY <1>6 DEF K
<1> DEFINE o == [i \in 0..n |-> st[i].owners]
<1>8. o \in [0..n -> OwnerMaps]
  BY <1>1 DEF ClaimStates
<1>9. o[0] = own /\ o[n] = Claimed(own, messages, a).owners
  BY <1>1, <1>2
<1>10. \A i \in 1..n :
          /\ MayTouch(o[i - 1], messages[i].surface, a)
          /\ o[i] = [o[i - 1] EXCEPT ![messages[i].surface] = ClaimsOf(messages[i], a)]
  BY <1>2, <1>3, <1>7
<1> QED
  BY <1>8, <1>9, <1>10 DEF Claims

(* The orchestrator's claims, too.                                         *)
LEMMA PlanClaimedOk ==
    ASSUME NEW own \in OwnerMaps, NEW messages \in Seq(Messages),
           ClaimedForPlan(own, messages).ok
    PROVE  \E o \in [0..Len(messages) -> OwnerMaps] :
              /\ PlanClaims(o, own, messages)
              /\ ClaimedForPlan(own, messages).owners = o[Len(messages)]
<1> DEFINE n == Len(messages)
<1>1. PICK st \in [0..n -> ClaimStates] :
         /\ st[0] = [ok |-> TRUE, owners |-> own]
         /\ \A i \in 1..n : st[i] = PlanClaimStep(st[i - 1], messages[i])
         /\ ClaimedForPlan(own, messages) = st[n]
  BY PlanClaimedSteps
<1>2. n \in Nat /\ \A i \in 1..n : i \in 0..n /\ i - 1 \in 0..n /\ messages[i] \in Messages
  OBVIOUS
<1>3. ASSUME NEW i \in 1..n, st[i].ok
      PROVE  /\ st[i - 1].ok
             /\ messages[i].kind # "delete" =>
                   st[i - 1].owners[messages[i].surface] \in {NoOwner, Orchestrator}
             /\ st[i].owners = [st[i - 1].owners EXCEPT ![messages[i].surface] =
                                  PlanClaimsOf(st[i - 1].owners, messages[i])]
  <2> DEFINE m == messages[i]
             before == st[i - 1]
  <2>1. st[i] = PlanClaimStep(before, m) /\ before \in ClaimStates
    BY <1>1, <1>2
  <2>2. CASE m.kind = "delete"
    BY <1>3, <2>1, <2>2 DEF PlanClaimStep, PlanClaimsOf, ClaimStates
  <2>3. CASE m.kind # "delete" /\ before.owners[m.surface] \in {NoOwner, Orchestrator}
    BY <1>3, <2>1, <2>3 DEF PlanClaimStep, PlanClaimsOf, ClaimStates
  <2>4. CASE m.kind # "delete" /\ before.owners[m.surface] \notin {NoOwner, Orchestrator}
    <3>1. ~ st[i].ok
      BY <2>1, <2>4 DEF PlanClaimStep, ClaimStates
    <3> QED
      BY <1>3, <3>1
  <2> QED
    BY <2>2, <2>3, <2>4
<1> DEFINE K == {i \in 0..n : st[i].ok}
<1>4. n \in K
  BY <1>1, <1>2
<1>5. \A i \in 1..n : i \in K => i - 1 \in K
  BY <1>2, <1>3
<1> HIDE DEF K
<1>6. 0..n \subseteq K
  BY <1>2, <1>4, <1>5, DownFrom
<1>7. \A i \in 0..n : st[i].ok
  BY <1>6 DEF K
<1> DEFINE o == [i \in 0..n |-> st[i].owners]
<1>8. o \in [0..n -> OwnerMaps]
  BY <1>1 DEF ClaimStates
<1>9. o[0] = own /\ o[n] = ClaimedForPlan(own, messages).owners
  BY <1>1, <1>2
<1>10. \A i \in 1..n :
          /\ messages[i].kind # "delete" =>
                o[i - 1][messages[i].surface] \in {NoOwner, Orchestrator}
          /\ o[i] = [o[i - 1] EXCEPT
                        ![messages[i].surface] = PlanClaimsOf(o[i - 1], messages[i])]
  BY <1>2, <1>3, <1>7
<1> QED
  BY <1>8, <1>9, <1>10 DEF PlanClaims

-----------------------------------------------------------------------------
(* What is taken in.                                                       *)

(* An answer is taken in whole, or the registry stays as it was.           *)
LEMMA TakenCases ==
    ASSUME NEW reg \in Registries, NEW messages \in Seq(Messages), NEW a \in Agents
    PROVE  LET t == Taken(reg, messages, a)
           IN  \/ t.result \in {"invalid", "conflict"} /\ t.reg = reg
               \/ /\ t.result = "ok"
                  /\ \E c \in [0..Len(messages) -> CanvasMaps],
                        o \in [0..Len(messages) -> OwnerMaps] :
                        /\ Checks(c, reg.canvases, messages, TRUE)
                        /\ Claims(o, reg.owners, messages, a)
                        /\ t.reg = [owners |-> o[Len(messages)],
                                    canvases |-> c[Len(messages)]]
<1> DEFINE staged  == Staged(reg.canvases, messages, TRUE)
           claimed == Claimed(reg.owners, messages, a)
<1>1. reg.canvases \in CanvasMaps /\ reg.owners \in OwnerMaps
  BY DEF Registries
<1>2. CASE ~ staged.ok \/ ~ claimed.ok
  BY <1>2 DEF Taken, Committed
<1>3. CASE staged.ok /\ claimed.ok
  <2>1. PICK c \in [0..Len(messages) -> CanvasMaps] :
           /\ Checks(c, reg.canvases, messages, TRUE)
           /\ staged.canvases = c[Len(messages)]
    BY <1>1, <1>3, StagedOk
  <2>2. PICK o \in [0..Len(messages) -> OwnerMaps] :
           /\ Claims(o, reg.owners, messages, a)
           /\ claimed.owners = o[Len(messages)]
    BY <1>1, <1>3, ClaimedOk
  <2>3. /\ Taken(reg, messages, a).result = "ok"
        /\ Taken(reg, messages, a).reg = [owners |-> claimed.owners, canvases |-> staged.canvases]
    BY <1>3 DEF Taken, Committed
  <2> QED
    BY <2>1, <2>2, <2>3
<1> QED
  BY <1>2, <1>3

(* So are the orchestrator's messages.                                     *)
LEMMA PlanTakenCases ==
    ASSUME NEW reg \in Registries, NEW messages \in Seq(Messages)
    PROVE  LET t == PlanTaken(reg, messages)
           IN  \/ t.result \in {"invalid", "conflict"} /\ t.reg = reg
               \/ /\ t.result = "ok"
                  /\ \E c \in [0..Len(messages) -> CanvasMaps],
                        o \in [0..Len(messages) -> OwnerMaps] :
                        /\ Checks(c, reg.canvases, messages, TRUE)
                        /\ PlanClaims(o, reg.owners, messages)
                        /\ t.reg = [owners |-> o[Len(messages)],
                                    canvases |-> c[Len(messages)]]
<1> DEFINE staged  == Staged(reg.canvases, messages, TRUE)
           claimed == ClaimedForPlan(reg.owners, messages)
<1>1. reg.canvases \in CanvasMaps /\ reg.owners \in OwnerMaps
  BY DEF Registries
<1>2. CASE ~ staged.ok \/ ~ claimed.ok
  BY <1>2 DEF PlanTaken, Committed
<1>3. CASE staged.ok /\ claimed.ok
  <2>1. PICK c \in [0..Len(messages) -> CanvasMaps] :
           /\ Checks(c, reg.canvases, messages, TRUE)
           /\ staged.canvases = c[Len(messages)]
    BY <1>1, <1>3, StagedOk
  <2>2. PICK o \in [0..Len(messages) -> OwnerMaps] :
           /\ PlanClaims(o, reg.owners, messages)
           /\ claimed.owners = o[Len(messages)]
    BY <1>1, <1>3, PlanClaimedOk
  <2>3. /\ PlanTaken(reg, messages).result = "ok"
        /\ PlanTaken(reg, messages).reg = [owners |-> claimed.owners, canvases |-> staged.canvases]
    BY <1>3 DEF PlanTaken, Committed
  <2> QED
    BY <2>1, <2>2, <2>3
<1> QED
  BY <1>2, <1>3

-----------------------------------------------------------------------------
(* The inductive invariant of the registry.                                *)

OwnedCanvases(reg) == \A s \in Surfaces : reg.canvases[s] # {} => reg.owners[s] # NoOwner

SoundCanvases(reg) == \A s \in Surfaces : Sound(reg.canvases[s])

(* What CanvasNeverRefused rests on: approval surfaces are nobody's but    *)
(* the orchestrator's, and hold nothing in place that could shadow an id.  *)
Reserved(reg) ==
    \A p \in PlanIds : /\ reg.owners[p] \in {NoOwner, Orchestrator}
                       /\ \A c \in reg.canvases[p] : c.inline = {}

GoodRegistry(reg) ==
    reg \in Registries /\ OwnedCanvases(reg) /\ SoundCanvases(reg) /\ Reserved(reg)

RoutesInv ==
    RegistryTypeOK /\ GoodRegistry(CurrentRegistry) /\ GoodRegistry(saved.reg)

(* The owners differ.                                                      *)
LEMMA OwnersDiffer ==
    /\ NoOwner # Orchestrator
    /\ \A a : Specialist(a) # NoOwner /\ Specialist(a) # Orchestrator
    /\ \A a, b : Specialist(a) = Specialist(b) => a = b
<1>1. NoOwner # Orchestrator
  <2>1. NoOwner[1] = "nobody" /\ Orchestrator[1] = "orchestrator"
    BY DEF NoOwner, Orchestrator
  <2> QED
    BY <2>1
<1>2. ASSUME NEW a PROVE Specialist(a) # NoOwner /\ Specialist(a) # Orchestrator
  <2>1. Specialist(a)[1] = "specialist" /\ NoOwner[1] = "nobody" /\ Orchestrator[1] = "orchestrator"
    BY DEF Specialist, NoOwner, Orchestrator
  <2> QED
    BY <2>1
<1>3. ASSUME NEW a, NEW b, Specialist(a) = Specialist(b) PROVE a = b
  <2>1. Specialist(a)[2] = a /\ Specialist(b)[2] = b
    BY DEF Specialist
  <2> QED
    BY <1>3, <2>1
<1> QED
  BY <1>1, <1>2, <1>3

(* The empty registry is good.                                             *)
LEMMA EmptyGood == GoodRegistry(EmptyRegistry)
<1>1. EmptyRegistry \in Registries
  BY EmptySound DEF EmptyRegistry, Registries, OwnerMaps, CanvasMaps, Owners
<1>2. \A s \in Surfaces : EmptyRegistry.owners[s] = NoOwner /\ EmptyRegistry.canvases[s] = {}
  BY DEF EmptyRegistry
<1>3. PlanIds \subseteq Surfaces
  BY DEF Surfaces
<1> QED
  BY <1>1, <1>2, <1>3, EmptySound
  DEF GoodRegistry, OwnedCanvases, SoundCanvases, Reserved

(* One message that suits the canvases, whose surface gets an owner w,     *)
(* keeps a registry good.                                                  *)
LEMMA GoodMessage ==
    ASSUME NEW o, NEW c, GoodRegistry([owners |-> o, canvases |-> c]),
           NEW m \in Messages, Valid(c, m, TRUE),
           NEW w \in Owners, m.kind # "delete" => w # NoOwner,
           m.surface \in PlanIds => w \in {NoOwner, Orchestrator}
    PROVE  GoodRegistry([owners |-> [o EXCEPT ![m.surface] = w],
                         canvases |-> Applied(c, m)])
<1> DEFINE s == m.surface
           after == [owners |-> [o EXCEPT ![s] = w], canvases |-> Applied(c, m)]
<1>1. /\ o \in OwnerMaps /\ c \in CanvasMaps
      /\ \A t \in Surfaces : c[t] # {} => o[t] # NoOwner
      /\ \A t \in Surfaces : Sound(c[t])
      /\ \A p \in PlanIds : /\ o[p] \in {NoOwner, Orchestrator}
                            /\ \A x \in c[p] : x.inline = {}
  BY DEF GoodRegistry, Registries, OwnedCanvases, SoundCanvases, Reserved
<1>2. s \in Surfaces /\ m.parts \in ComponentSets /\ m.kind \in {"create", "update", "delete"}
      /\ m.replace \in BOOLEAN
  BY DEF Messages
<1>3. PlanIds \subseteq Surfaces
  BY DEF Surfaces
<1>4. after \in Registries
  BY <1>1, <1>2, AppliedType DEF Registries, OwnerMaps
<1>5. \A t \in Surfaces : after.owners[t] = IF t = s THEN w ELSE o[t]
  BY <1>1, <1>2 DEF OwnerMaps
<1>6. CASE m.kind = "create"
  <2>1. after.canvases = c
    BY <1>6 DEF Applied
  <2> QED
    BY <1>1, <1>3, <1>4, <1>5, <1>6, <2>1
    DEF GoodRegistry, OwnedCanvases, SoundCanvases, Reserved
<1>7. CASE m.kind = "delete"
  <2>1. \A t \in Surfaces : after.canvases[t] = IF t = s THEN {} ELSE c[t]
    BY <1>1, <1>2, <1>7 DEF Applied, CanvasMaps
  <2> QED
    BY <1>1, <1>3, <1>4, <1>5, <2>1, EmptySound
    DEF GoodRegistry, OwnedCanvases, SoundCanvases, Reserved
<1>8. CASE m.kind = "update"
  <2> DEFINE base == Baseline(c[s], m.replace)
             new  == Kept(base, m.parts) \cup m.parts
  <2>1. \A t \in Surfaces : after.canvases[t] = IF t = s THEN new ELSE c[t]
    BY <1>1, <1>2, <1>8 DEF Applied, CanvasMaps, Updated
  <2>2. UpdateAccepted(base, m.parts, TRUE) /\ (s \in PlanIds => StandsAlone(m.parts))
    BY <1>2, <1>8 DEF Valid
  <2>3. base \in ComponentSets /\ Sound(base)
    BY <1>1, <1>2, EmptySound DEF Baseline, CanvasMaps
  <2>4. Sound(new)
    BY <1>2, <2>2, <2>3, UpdateSound
  <2>5. s \in PlanIds => \A x \in new : x.inline = {}
    <3> SUFFICES ASSUME s \in PlanIds, NEW x \in new PROVE x.inline = {}
      OBVIOUS
    <3>1. \A y \in base : y.inline = {}
      BY <1>1 DEF Baseline
    <3>2. \A y \in m.parts : y.inline = {}
      BY <2>2 DEF StandsAlone
    <3> QED
      BY <3>1, <3>2 DEF Kept
  <2> HIDE DEF new, after
  <2>6. OwnedCanvases(after)
    BY <1>1, <1>5, <1>8, <2>1 DEF OwnedCanvases
  <2>7. SoundCanvases(after)
    BY <1>1, <2>1, <2>4 DEF SoundCanvases
  <2>8. Reserved(after)
    BY <1>1, <1>3, <1>5, <2>1, <2>5 DEF Reserved
  <2>9. GoodRegistry(after)
    BY <1>4, <2>6, <2>7, <2>8 DEF GoodRegistry
  <2> QED
    BY <2>9 DEF after
<1> QED
  BY <1>2, <1>6, <1>7, <1>8

(* A specialist's answer that is taken in keeps a registry good.           *)
LEMMA TakenGood ==
    ASSUME NEW reg, GoodRegistry(reg), NEW messages \in Seq(Messages), NEW a \in Agents
    PROVE  GoodRegistry(Taken(reg, messages, a).reg)
<1> DEFINE n == Len(messages)
<1>1. reg \in Registries /\ n \in Nat
  BY DEF GoodRegistry
<1>2. CASE Taken(reg, messages, a).reg = reg
  BY <1>2
<1>3. ASSUME NEW c \in [0..n -> CanvasMaps], NEW o \in [0..n -> OwnerMaps],
             Checks(c, reg.canvases, messages, TRUE),
             Claims(o, reg.owners, messages, a),
             Taken(reg, messages, a).reg = [owners |-> o[n], canvases |-> c[n]]
      PROVE  GoodRegistry(Taken(reg, messages, a).reg)
  <2> DEFINE K == {i \in 0..n : GoodRegistry([owners |-> o[i], canvases |-> c[i]])}
  <2>1. 0 \in K
    <3>1. reg = [owners |-> o[0], canvases |-> c[0]]
      BY <1>1, <1>3 DEF Registries, Checks, Claims
    <3> QED
      BY <1>1, <3>1
  <2>2. ASSUME NEW i \in 1..n, i - 1 \in K PROVE i \in K
    <3> DEFINE m == messages[i]
               w == ClaimsOf(m, a)
    <3>1. m \in Messages /\ i \in 0..n /\ i - 1 \in 0..n
      BY <1>1
    <3>2. /\ Valid(c[i - 1], m, TRUE) /\ c[i] = Applied(c[i - 1], m)
          /\ MayTouch(o[i - 1], m.surface, a)
          /\ o[i] = [o[i - 1] EXCEPT ![m.surface] = w]
      BY <1>3 DEF Checks, Claims
    <3>3. w \in Owners /\ (m.kind # "delete" => w # NoOwner) /\ m.surface \notin PlanIds
      BY <3>2, OwnersDiffer DEF ClaimsOf, Owners, MayTouch
    <3>4. GoodRegistry([owners |-> o[i - 1], canvases |-> c[i - 1]])
      BY <2>2
    <3> HIDE DEF m, w
    <3>5. GoodRegistry([owners |-> [o[i - 1] EXCEPT ![m.surface] = w],
                        canvases |-> Applied(c[i - 1], m)])
      BY <3>1, <3>2, <3>3, <3>4, GoodMessage
    <3> QED
      BY <3>1, <3>2, <3>5
  <2> HIDE DEF K, n
  <2>3. 0..n \subseteq K
    BY <1>1, <2>1, <2>2, UpTo
  <2>4. n \in K
    BY <1>1, <2>3
  <2> QED
    BY <1>3, <2>4 DEF K
<1> QED
  BY <1>1, <1>2, <1>3, TakenCases

(* So do the orchestrator's messages.                                      *)
LEMMA PlanTakenGood ==
    ASSUME NEW reg, GoodRegistry(reg), NEW messages \in Seq(Messages)
    PROVE  GoodRegistry(PlanTaken(reg, messages).reg)
<1> DEFINE n == Len(messages)
<1>1. reg \in Registries /\ n \in Nat
  BY DEF GoodRegistry
<1>2. CASE PlanTaken(reg, messages).reg = reg
  BY <1>2
<1>3. ASSUME NEW c \in [0..n -> CanvasMaps], NEW o \in [0..n -> OwnerMaps],
             Checks(c, reg.canvases, messages, TRUE),
             PlanClaims(o, reg.owners, messages),
             PlanTaken(reg, messages).reg = [owners |-> o[n], canvases |-> c[n]]
      PROVE  GoodRegistry(PlanTaken(reg, messages).reg)
  <2> DEFINE K == {i \in 0..n : GoodRegistry([owners |-> o[i], canvases |-> c[i]])}
  <2>1. 0 \in K
    <3>1. reg = [owners |-> o[0], canvases |-> c[0]]
      BY <1>1, <1>3 DEF Registries, Checks, PlanClaims
    <3> QED
      BY <1>1, <3>1
  <2>2. ASSUME NEW i \in 1..n, i - 1 \in K PROVE i \in K
    <3> DEFINE m == messages[i]
               w == PlanClaimsOf(o[i - 1], m)
    <3>1. m \in Messages /\ i \in 0..n /\ i - 1 \in 0..n
      BY <1>1
    <3>2. /\ Valid(c[i - 1], m, TRUE) /\ c[i] = Applied(c[i - 1], m)
          /\ o[i] = [o[i - 1] EXCEPT ![m.surface] = w]
      BY <1>3 DEF Checks, PlanClaims
    <3>3. GoodRegistry([owners |-> o[i - 1], canvases |-> c[i - 1]])
      BY <2>2
    <3>4. o[i - 1][m.surface] \in Owners /\ m.surface \in Surfaces
      BY <3>1 DEF OwnerMaps, Messages
    <3>5. m.surface \in PlanIds => o[i - 1][m.surface] \in {NoOwner, Orchestrator}
      BY <3>3 DEF GoodRegistry, Reserved
    <3>6. /\ w \in Owners /\ (m.kind # "delete" => w # NoOwner)
          /\ (m.surface \in PlanIds => w \in {NoOwner, Orchestrator})
      BY <3>4, <3>5, OwnersDiffer DEF PlanClaimsOf, Owners
    <3> HIDE DEF m, w
    <3>7. GoodRegistry([owners |-> [o[i - 1] EXCEPT ![m.surface] = w],
                        canvases |-> Applied(c[i - 1], m)])
      BY <3>1, <3>2, <3>3, <3>6, GoodMessage
    <3> QED
      BY <3>1, <3>2, <3>7
  <2> HIDE DEF K, n
  <2>3. 0..n \subseteq K
    BY <1>1, <2>1, <2>2, UpTo
  <2>4. n \in K
    BY <1>1, <2>3
  <2> QED
    BY <1>3, <2>4 DEF K
<1> QED
  BY <1>1, <1>2, <1>3, PlanTakenCases

(* The messages the service makes itself.                                  *)
LEMMA OwnMessages ==
    /\ FallbackMessages \in Seq(Messages)
    /\ \A p \in PlanIds, cs \in ComponentSets : CanvasMessages(p, cs) \in Seq(Messages)
    /\ \A p \in PlanIds : <<Message("delete", p, {}, FALSE)>> \in Seq(Messages)
<1>1. ASSUME NEW kind \in {"create", "update", "delete"}, NEW s \in Surfaces,
             NEW cs \in ComponentSets
      PROVE  Message(kind, s, cs, FALSE) \in Messages
  BY DEF Message, Messages
<1>2. {} \in ComponentSets
  BY EmptySound
<1>3. {[id |-> "root", refs |-> {}, inline |-> {}]} \in ComponentSets
  <2> DEFINE root == [id |-> "root", refs |-> {}, inline |-> {}]
  <2>1. root \in Components
    BY RootAssumption DEF Components
  <2>2. root.inline = {}
    OBVIOUS
  <2> HIDE DEF root
  <2>3. IsFiniteSet({root}) /\ IsFiniteSet({})
    BY FS_Singleton, FS_EmptySet
  <2>4. {root} \in ComponentSets
    BY <2>1, <2>2, <2>3 DEF ComponentSets
  <2> QED
    BY <2>4 DEF root
<1>4. Fallback \in Surfaces /\ PlanIds \subseteq Surfaces
  BY DEF Surfaces
<1>5. ASSUME NEW m \in Messages, NEW o \in Messages
      PROVE  <<m, o>> \in Seq(Messages) /\ <<m>> \in Seq(Messages)
  OBVIOUS
<1>6. FallbackMessages \in Seq(Messages)
  BY <1>1, <1>2, <1>3, <1>4, <1>5 DEF FallbackMessages
<1>7. ASSUME NEW p \in PlanIds, NEW cs \in ComponentSets
      PROVE  CanvasMessages(p, cs) \in Seq(Messages)
  BY <1>1, <1>2, <1>4, <1>5 DEF CanvasMessages
<1>8. ASSUME NEW p \in PlanIds PROVE <<Message("delete", p, {}, FALSE)>> \in Seq(Messages)
  BY <1>1, <1>2, <1>4, <1>5
<1> QED
  BY <1>6, <1>7, <1>8

(* An answer is prepared, or its fallback, or nothing changes.             *)
LEMMA PreparedCases ==
    ASSUME NEW reg, NEW answer, NEW a
    PROVE  \/ /\ Prepared(reg, answer, a) = [sent |-> "nothing", reg |-> reg]
              /\ answer.messages = <<>>
           \/ /\ Prepared(reg, answer, a) =
                    [sent |-> "answer", reg |-> Taken(reg, answer.messages, a).reg]
              /\ Taken(reg, answer.messages, a).result = "ok"
              /\ answer.messages # <<>>
           \/ Prepared(reg, answer, a) =
                 [sent |-> "fallback", reg |-> Taken(reg, FallbackMessages, a).reg]
           \/ Prepared(reg, answer, a) = [sent |-> "error", reg |-> reg]
BY DEF Prepared

(* Preparing keeps a registry good.                                        *)
LEMMA PreparedGood ==
    ASSUME NEW reg, GoodRegistry(reg), NEW answer \in AnswerForms, NEW a \in Agents
    PROVE  /\ GoodRegistry(Prepared(reg, answer, a).reg)
           /\ Prepared(reg, answer, a) \in DeliverStates
<1>1. answer.messages \in Seq(Messages)
  BY DEF AnswerForms
<1>2. /\ GoodRegistry(Taken(reg, answer.messages, a).reg)
      /\ GoodRegistry(Taken(reg, FallbackMessages, a).reg)
  BY <1>1, TakenGood, OwnMessages
<1> QED
  BY <1>2, PreparedCases DEF DeliverStates, GoodRegistry

(* So does handling the answer to a user action.                           *)
LEMMA HandledGood ==
    ASSUME NEW reg, GoodRegistry(reg), NEW answer \in AnswerForms, NEW a \in Agents,
           NEW readable
    PROVE  GoodRegistry(Handled(reg, answer, a, readable).reg)
<1>1. GoodRegistry(Taken(reg, answer.messages, a).reg)
  BY TakenGood DEF AnswerForms
<1>2. GoodRegistry(Prepared(Taken(reg, answer.messages, a).reg, answer, a).reg)
  BY <1>1, PreparedGood
<1> QED
  BY <1>1, <1>2 DEF Handled

(* What was checked before is the answer, or a note in its place.          *)
LEMMA InvokedType ==
    ASSUME NEW answer \in AnswerForms, NEW listed
    PROVE  Invoked(answer, listed) \in AnswerForms
<1>1. [messages |-> <<>>, noted |-> TRUE] \in AnswerForms
  BY DEF AnswerForms
<1> QED
  BY <1>1 DEF Invoked

GoodDeliveries == {st \in DeliverStates : GoodRegistry(st.reg)}

AnsweredSteps == [agent : Agents, answer : AnswerForms, listed : BOOLEAN]

(* Delivering the answer of one step keeps a registry good.                *)
LEMMA DeliverStepGood ==
    ASSUME NEW st \in GoodDeliveries, NEW part \in AnsweredSteps
    PROVE  DeliverStep(st, part) \in GoodDeliveries
<1>1. part.agent \in Agents /\ Invoked(part.answer, part.listed) \in AnswerForms
  BY InvokedType DEF AnsweredSteps
<1>2. GoodRegistry(st.reg)
  BY DEF GoodDeliveries
<1>3. Prepared(st.reg, Invoked(part.answer, part.listed), part.agent) \in GoodDeliveries
  BY <1>1, <1>2, PreparedGood DEF GoodDeliveries
<1> QED
  BY <1>3 DEF DeliverStep

(* So does delivering the answers of all of them.                          *)
LEMMA DeliveredGood ==
    ASSUME NEW reg, GoodRegistry(reg), NEW parts \in Seq(AnsweredSteps)
    PROVE  GoodRegistry(Delivered(reg, parts).reg)
<1> DEFINE n == Len(parts)
           s0 == [sent |-> "nothing", reg |-> reg]
           S == GoodDeliveries
           F == [x \in (1..n) \X S |-> DeliverStep(x[2], parts[x[1]])]
           Folds(it) == it = [T \in SUBSET DOMAIN parts |->
                           IF T = {} THEN s0
                           ELSE DeliverStep(it[T \ {Max(T)}], parts[Max(T)])]
           fold == CHOOSE it : Folds(it)
<1>1. n \in Nat /\ DOMAIN parts = 1..n /\ \A i \in 1..n : parts[i] \in AnsweredSteps
  OBVIOUS
<1>2. s0 \in S
  BY DEF GoodDeliveries, DeliverStates, GoodRegistry
<1>3. F \in [(1..n) \X S -> S]
  BY <1>1, DeliverStepGood
<1>4. \E it : Folds(it)
  <2>1. PICK it \in [SUBSET (1..n) -> S] : FoldsBy(it, n, s0, F)
    <3> HIDE DEF F, S, n, s0
    <3> QED
      BY <1>1, <1>2, <1>3, FoldExists
  <2>2. ASSUME NEW T \in SUBSET (1..n), T # {}
        PROVE  it[T] = DeliverStep(it[T \ {Max(T)}], parts[Max(T)])
    <3>1. Max(T) \in 1..n
      BY <1>1, <2>2, MaxPosition
    <3>2. <<Max(T), it[T \ {Max(T)}]>> \in (1..n) \X S
      BY <3>1
    <3> QED
      BY <2>1, <2>2, <3>2 DEF FoldsBy
  <2>3. it[{}] = s0
    BY <2>1 DEF FoldsBy
  <2>4. it = [T \in SUBSET (1..n) |->
                 IF T = {} THEN s0
                 ELSE DeliverStep(it[T \ {Max(T)}], parts[Max(T)])]
    BY <2>2, <2>3
  <2> QED
    BY <1>1, <2>4
<1>5. Delivered(reg, parts) = fold[1..n]
  BY <1>1 DEF Delivered, FoldLeft, MapThenFoldSet, DeliverStep
<1>6. Folds(fold)
  BY <1>4
<1> HIDE DEF fold
<1>7. fold[{}] = s0
  BY <1>6
<1>8. ASSUME NEW T \in SUBSET (1..n), T # {}, fold[T \ {Max(T)}] \in S
      PROVE  fold[T] = F[<<Max(T), fold[T \ {Max(T)}]>>]
  <2>1. <<Max(T), fold[T \ {Max(T)}]>> \in (1..n) \X S
    BY <1>1, <1>8, MaxPosition
  <2> QED
    BY <1>1, <1>6, <1>8, <2>1
<1>9. PICK st \in [0..n -> S] : Passes(st, n, s0, F, fold)
  <2> HIDE DEF F, S, n, s0
  <2>1. FoldsIn(fold, n, S, s0, F)
    BY <1>7, <1>8 DEF FoldsIn
  <2> QED
    BY <1>1, <1>2, <1>3, <2>1, FoldIterates
<1>10. n \in 0..n
  BY <1>1
<1> QED
  BY <1>5, <1>9, <1>10 DEF Passes, GoodDeliveries

-----------------------------------------------------------------------------
(* The steps.                                                              *)

(* The registry is what the variables hold.                                *)
LEMMA RegistryOfState ==
    ASSUME NEW reg, reg \in Registries, SetRegistry(reg)
    PROVE  /\ CurrentRegistry' = reg
           /\ owners' \in [Surfaces -> Owners]
BY DEF SetRegistry, CurrentRegistry, Registries, OwnerMaps

(* The invariant holds at the start.                                       *)
LEMMA RoutesInit == RInit => RoutesInv
<1> SUFFICES ASSUME RInit PROVE RoutesInv
  OBVIOUS
<1>1. GoodRegistry(EmptyRegistry) /\ EmptyRegistry.owners \in [Surfaces -> Owners]
  BY EmptyGood DEF GoodRegistry, Registries, OwnerMaps
<1>2. CurrentRegistry = EmptyRegistry
  BY DEF RInit, CurrentRegistry, EmptyRegistry
<1>3. saved.reg = EmptyRegistry
  BY DEF RInit, NoSnapshot
<1>4. RegistryTypeOK
  BY <1>1 DEF RInit, RegistryTypeOK
<1> QED
  BY <1>1, <1>2, <1>3, <1>4 DEF RoutesInv

(* What is kept of a good registry is good.                                *)
LEMMA RememberedGood ==
    ASSUME NEW from, NEW reg, GoodRegistry(reg)
    PROVE  GoodRegistry(Remembered(from, reg).reg)
BY EmptyGood DEF Remembered, NoSnapshot

(* A step that leaves the snapshot and makes the registry a good one.      *)
LEMMA StepGood ==
    ASSUME RoutesInv, NEW reg, GoodRegistry(reg), SetRegistry(reg),
           plans' \in [PlanIds -> {"new", "pending", "decided"}],
           calls' \in [Calls -> Handlers \cup {Idle}],
           GoodRegistry(saved'.reg)
    PROVE  RoutesInv'
<1>1. CurrentRegistry' = reg /\ owners' \in [Surfaces -> Owners]
  BY RegistryOfState DEF GoodRegistry
<1> QED
  BY <1>1 DEF RoutesInv, RegistryTypeOK, GoodRegistry, OwnedCanvases, SoundCanvases, Reserved

(* Every step keeps the invariant.                                         *)
LEMMA RoutesStep == RoutesInv /\ [RNext]_rvars => RoutesInv'
<1> SUFFICES ASSUME RoutesInv, [RNext]_rvars PROVE RoutesInv'
  OBVIOUS
<1> DEFINE reg == CurrentRegistry
<1>1. /\ GoodRegistry(reg) /\ GoodRegistry(saved.reg)
      /\ plans \in [PlanIds -> {"new", "pending", "decided"}]
      /\ calls \in [Calls -> Handlers \cup {Idle}]
      /\ owners \in [Surfaces -> Owners]
  BY DEF RoutesInv, RegistryTypeOK
<1>2. Handlers \subseteq Agents
  BY HandlersAssumption
<1> HIDE DEF reg
<1>3. ASSUME NEW p \in PlanIds, ProposePlan(p) PROVE RoutesInv'
  <2>1. PICK cs \in Canvases : SetRegistry(PlanTaken(reg, CanvasMessages(p, cs)).reg)
    BY <1>3 DEF ProposePlan, reg
  <2>2. CanvasMessages(p, cs) \in Seq(Messages)
    BY OwnMessages, CanvasesAssumption
  <2>3. GoodRegistry(PlanTaken(reg, CanvasMessages(p, cs)).reg)
    BY <1>1, <2>2, PlanTakenGood
  <2> QED
    BY <1>1, <1>3, <2>1, <2>3, StepGood DEF ProposePlan
<1>4. ASSUME NEW p \in PlanIds, EditPlan(p) PROVE RoutesInv'
  <2>1. PICK cs \in Canvases : SetRegistry(PlanTaken(reg, CanvasMessages(p, cs)).reg)
    BY <1>4 DEF EditPlan, reg
  <2>2. CanvasMessages(p, cs) \in Seq(Messages)
    BY OwnMessages, CanvasesAssumption
  <2>3. GoodRegistry(PlanTaken(reg, CanvasMessages(p, cs)).reg)
    BY <1>1, <2>2, PlanTakenGood
  <2> QED
    BY <1>1, <1>4, <2>1, <2>3, StepGood DEF EditPlan
<1>5. ASSUME NEW p \in PlanIds, DecidePlan(p) PROVE RoutesInv'
  <2> DEFINE closed == PlanTaken(reg, <<Message("delete", p, {}, FALSE)>>).reg
  <2>1. GoodRegistry(closed)
    BY <1>1, OwnMessages, PlanTakenGood
  <2>2. \/ SetRegistry(closed)
        \/ \E parts \in Executions : SetRegistry(Delivered(closed, parts).reg)
    BY <1>5 DEF DecidePlan, reg
  <2> HIDE DEF closed
  <2>3. \A parts \in Executions : GoodRegistry(Delivered(closed, parts).reg)
    BY <2>1, DeliveredGood, ExecutionsAssumption DEF AnsweredSteps
  <2>4. plans' \in [PlanIds -> {"new", "pending", "decided"}] /\ calls' = calls /\ saved' = saved
    BY <1>1, <1>5 DEF DecidePlan
  <2> QED
    BY <1>1, <2>1, <2>2, <2>3, <2>4, StepGood
<1>6. ASSUME NEW a \in Agents, DirectRequest(a) PROVE RoutesInv'
  <2>1. PICK x \in Answers, f \in BOOLEAN :
           SetRegistry(Prepared(reg, Invoked(x, f), a).reg)
    BY <1>6 DEF DirectRequest, reg, Forms
  <2>2. Invoked(x, f) \in AnswerForms
    BY AnswersAssumption, InvokedType
  <2>3. GoodRegistry(Prepared(reg, Invoked(x, f), a).reg)
    BY <1>1, <2>2, PreparedGood
  <2> QED
    BY <1>1, <1>6, <2>1, <2>3, StepGood DEF DirectRequest
<1>7. ASSUME NEW c \in Calls, NEW s \in Surfaces, UserActs(c, s) PROVE RoutesInv'
  <2>1. SetRegistry(reg)
    BY <1>7 DEF UserActs, SetRegistry, reg, CurrentRegistry
  <2> QED
    BY <1>1, <1>7, <2>1, StepGood DEF UserActs
<1>8. ASSUME NEW c \in Calls, HandlerAnswers(c) PROVE RoutesInv'
  <2>1. PICK x \in Answers, readable \in BOOLEAN :
           SetRegistry(Handled(reg, x, calls[c], readable).reg)
    BY <1>8 DEF HandlerAnswers, reg
  <2>2. calls[c] \in Agents
    BY <1>1, <1>2, <1>8 DEF HandlerAnswers
  <2>3. GoodRegistry(Handled(reg, x, calls[c], readable).reg)
    BY <1>1, <2>2, AnswersAssumption, HandledGood
  <2> QED
    BY <1>1, <1>8, <2>1, <2>3, StepGood DEF HandlerAnswers
<1>9. ASSUME NEW c \in Calls, HandlerFails(c) PROVE RoutesInv'
  <2>1. SetRegistry(reg)
    BY <1>9 DEF HandlerFails, SetRegistry, reg, CurrentRegistry
  <2> QED
    BY <1>1, <1>9, <2>1, StepGood DEF HandlerFails
<1>10. CASE ClearSurfaces
  <2>1. GoodRegistry(saved'.reg)
    BY <1>1, <1>10, RememberedGood DEF ClearSurfaces, reg
  <2> QED
    BY <1>1, <1>10, <2>1, EmptyGood, StepGood DEF ClearSurfaces
<1>11. CASE ExportSession
  <2>1. GoodRegistry(saved'.reg)
    BY <1>1, <1>11, RememberedGood DEF ExportSession, reg
  <2>2. SetRegistry(reg)
    BY <1>11 DEF ExportSession, SetRegistry, reg, CurrentRegistry
  <2> QED
    BY <1>1, <1>11, <2>1, <2>2, StepGood DEF ExportSession
<1>12. CASE Restore
  <2>1. GoodRegistry(saved'.reg)
    BY <1>12, EmptyGood DEF Restore, NoSnapshot
  <2> QED
    BY <1>1, <1>12, <2>1, StepGood DEF Restore
<1>13. CASE UNCHANGED rvars
  <2>1. SetRegistry(reg)
    BY <1>13 DEF rvars, SetRegistry, reg, CurrentRegistry
  <2> QED
    BY <1>1, <1>13, <2>1, StepGood DEF rvars
<1> QED
  BY <1>3, <1>4, <1>5, <1>6, <1>7, <1>8, <1>9, <1>10, <1>11, <1>12, <1>13 DEF RNext

THEOREM RoutesInductive == RSpec => []RoutesInv
  BY RoutesInit, RoutesStep, PTL DEF RSpec

-----------------------------------------------------------------------------
(* What messages leave alone, and what they make of the surfaces they      *)
(* name.                                                                   *)

(* A message changes the canvas of its surface only.                       *)
LEMMA AppliedElsewhere ==
    ASSUME NEW cans \in CanvasMaps, NEW m \in Messages, NEW s \in Surfaces, s # m.surface
    PROVE  Applied(cans, m)[s] = cans[s]
BY DEF Applied, CanvasMaps

LeftAlone(own, s, a) == s \in PlanIds \/ own[s] \notin {NoOwner, Specialist(a)}

(* A surface no message names stays as it is; so does one the specialist   *)
(* may not touch.                                                          *)
LEMMA TakenElsewhere ==
    ASSUME NEW reg \in Registries, NEW messages \in Seq(Messages), NEW a \in Agents,
           NEW s \in Surfaces,
           \/ \A i \in 1..Len(messages) : messages[i].surface # s
           \/ LeftAlone(reg.owners, s, a)
    PROVE  SameSurface(reg, Taken(reg, messages, a).reg, s)
<1> DEFINE n == Len(messages)
<1>1. n \in Nat /\ \A i \in 1..n : messages[i] \in Messages /\ i \in 0..n /\ i - 1 \in 0..n
  OBVIOUS
<1>2. CASE Taken(reg, messages, a).reg = reg
  BY <1>2 DEF SameSurface
<1>3. ASSUME NEW c \in [0..n -> CanvasMaps], NEW o \in [0..n -> OwnerMaps],
             Checks(c, reg.canvases, messages, TRUE),
             Claims(o, reg.owners, messages, a),
             Taken(reg, messages, a).reg = [owners |-> o[n], canvases |-> c[n]]
      PROVE  SameSurface(reg, Taken(reg, messages, a).reg, s)
  <2> DEFINE K == {i \in 0..n : o[i][s] = reg.owners[s] /\ c[i][s] = reg.canvases[s]}
  <2>1. 0 \in K
    BY <1>1, <1>3 DEF Checks, Claims
  <2>2. ASSUME NEW i \in 1..n, i - 1 \in K PROVE i \in K
    <3> DEFINE m == messages[i]
    <3>1. /\ c[i] = Applied(c[i - 1], m) /\ MayTouch(o[i - 1], m.surface, a)
          /\ o[i] = [o[i - 1] EXCEPT ![m.surface] = ClaimsOf(m, a)]
      BY <1>3 DEF Checks, Claims
    <3>2. m.surface # s
      BY <2>2, <3>1 DEF MayTouch, LeftAlone
    <3>3. o[i][s] = o[i - 1][s]
      BY <1>1, <3>1, <3>2 DEF OwnerMaps
    <3>4. c[i][s] = c[i - 1][s]
      BY <1>1, <3>1, <3>2, AppliedElsewhere
    <3> QED
      BY <1>1, <2>2, <3>3, <3>4
  <2> HIDE DEF K, n
  <2>3. 0..n \subseteq K
    BY <1>1, <2>1, <2>2, UpTo
  <2>4. n \in K
    BY <1>1, <2>3
  <2> QED
    BY <1>3, <2>4 DEF K, SameSurface
<1> QED
  BY <1>2, <1>3, TakenCases

(* An answer names surfaces.                                               *)
LEMMA TouchedSurfaces ==
    ASSUME NEW answer \in AnswerForms
    PROVE  Touched(answer) \subseteq Surfaces \ {Fallback}
<1>1. answer.messages \in Seq(Messages)
  BY DEF AnswerForms
<1>2. \A i \in DOMAIN answer.messages : answer.messages[i] \in Messages
  BY <1>1
<1>3. \A m \in Messages : m.surface \in Surfaces
  BY DEF Messages
<1> QED
  BY <1>2, <1>3 DEF Touched

(* What the last of the messages for a surface says of it.                 *)
AsLastSaid(reg, answer, s, a) ==
    IF LastMessage(answer, s).kind = "delete"
      THEN reg.owners[s] = NoOwner /\ reg.canvases[s] = {}
      ELSE reg.owners[s] = Specialist(a)

(* It is the last message for it.                                          *)
LEMMA LastMessageIs ==
    ASSUME NEW answer \in AnswerForms, NEW s \in Touched(answer)
    PROVE  \E k \in 1..Len(answer.messages) :
              /\ answer.messages[k].surface = s
              /\ LastMessage(answer, s) = answer.messages[k]
              /\ \A j \in 1..Len(answer.messages) : answer.messages[j].surface = s => j <= k
<1> DEFINE messages == answer.messages
           here == {i \in DOMAIN messages : messages[i].surface = s}
<1>1. messages \in Seq(Messages)
  BY DEF AnswerForms
<1>2. Len(messages) \in Nat /\ DOMAIN messages = 1..Len(messages)
  BY <1>1
<1>3. here \in SUBSET (1..Len(messages)) /\ here # {}
  BY <1>2 DEF Touched
<1> HIDE DEF messages
<1>4. \E i \in here : \A j \in here : j <= i
  <2> HIDE DEF here
  <2> QED
    BY <1>2, <1>3, LastPosition
<1>5. LastMessage(answer, s) = messages[CHOOSE i \in here : \A j \in here : j <= i]
  BY DEF LastMessage, messages
<1>6. PICK k \in here : LastMessage(answer, s) = messages[k] /\ \A j \in here : j <= k
  BY <1>4, <1>5
<1> QED
  BY <1>2, <1>6 DEF messages

(* An answer taken in leaves each surface it names as its last message on  *)
(* it says.                                                                *)
LEMMA TakenAsLastSaid ==
    ASSUME NEW reg \in Registries, NEW answer \in AnswerForms, NEW a \in Agents,
           NEW s \in Touched(answer), Taken(reg, answer.messages, a).result = "ok"
    PROVE  AsLastSaid(Taken(reg, answer.messages, a).reg, answer, s, a)
<1> DEFINE messages == answer.messages
           n == Len(messages)
<1>1. messages \in Seq(Messages)
  BY DEF AnswerForms
<1>2. n \in Nat /\ \A i \in 1..n : messages[i] \in Messages /\ i \in 0..n /\ i - 1 \in 0..n
  BY <1>1
<1>3. PICK k \in 1..n : /\ messages[k].surface = s
                        /\ LastMessage(answer, s) = messages[k]
                        /\ \A j \in 1..n : messages[j].surface = s => j <= k
  BY LastMessageIs
<1> HIDE DEF messages
<1>4. s \in Surfaces
  BY <1>2, <1>3 DEF Messages
<1>5. PICK c \in [0..n -> CanvasMaps], o \in [0..n -> OwnerMaps] :
         /\ Checks(c, reg.canvases, messages, TRUE)
         /\ Claims(o, reg.owners, messages, a)
         /\ Taken(reg, messages, a).reg = [owners |-> o[n], canvases |-> c[n]]
  BY <1>1, TakenCases DEF messages
<1>6. \A i \in 1..n : /\ c[i] = Applied(c[i - 1], messages[i])
                      /\ o[i] = [o[i - 1] EXCEPT ![messages[i].surface] = ClaimsOf(messages[i], a)]
  BY <1>5 DEF Checks, Claims
<1> DEFINE Said(i) == /\ o[i][s] = ClaimsOf(messages[k], a)
                      /\ messages[k].kind = "delete" => c[i][s] = {}
           K == {i \in 0..n : i >= k => Said(i)}
<1>7. Said(k)
  <2>1. o[k][s] = ClaimsOf(messages[k], a)
    BY <1>2, <1>3, <1>4, <1>6 DEF OwnerMaps
  <2>2. ASSUME messages[k].kind = "delete" PROVE c[k][s] = {}
    <3>1. c[k] = [c[k - 1] EXCEPT ![s] = {}]
      BY <1>3, <1>6, <2>2 DEF Applied
    <3> QED
      BY <1>2, <1>4, <3>1 DEF CanvasMaps
  <2> QED
    BY <2>1, <2>2
<1>8. 0 \in K
  BY <1>2
<1>9. ASSUME NEW i \in 1..n, i - 1 \in K PROVE i \in K
  <2>1. CASE i <= k
    BY <1>2, <1>7, <2>1
  <2>2. CASE i > k
    <3>1. Said(i - 1)
      BY <1>9, <2>2
    <3>2. messages[i].surface # s
      BY <1>3, <2>2
    <3>3. /\ c[i] = Applied(c[i - 1], messages[i]) /\ messages[i] \in Messages
          /\ o[i] = [o[i - 1] EXCEPT ![messages[i].surface] = ClaimsOf(messages[i], a)]
          /\ i - 1 \in 0..n
      BY <1>2, <1>6
    <3>4. o[i][s] = o[i - 1][s]
      BY <1>4, <3>3, <3>2 DEF OwnerMaps
    <3>5. c[i][s] = c[i - 1][s]
      BY <1>4, <3>3, <3>2, AppliedElsewhere
    <3> QED
      BY <1>2, <3>1, <3>4, <3>5
  <2> QED
    BY <2>1, <2>2
<1> HIDE DEF K, n
<1>10. 0..n \subseteq K
  BY <1>2, <1>8, <1>9, UpTo
<1>11. n \in K /\ n >= k
  BY <1>2, <1>3, <1>10
<1>12. Said(n)
  BY <1>11 DEF K
<1> QED
  BY <1>3, <1>5, <1>12 DEF AsLastSaid, ClaimsOf, messages

(* Fallback messages are for the fallback surface.                         *)
LEMMA FallbackElsewhere ==
    \A i \in 1..Len(FallbackMessages) : FallbackMessages[i].surface = Fallback
BY DEF FallbackMessages, Message

SameButFor(S, before, after) == \A s \in Surfaces \ S : SameSurface(before, after, s)

(* All of an answer is kept, or nothing of it that was not kept before.    *)
Whole(before, sent, after, answer, a) ==
    /\ SameButFor(Touched(answer) \cup {Fallback}, before, after)
    /\ \/ \A s \in Touched(answer) : AsLastSaid(after, answer, s, a)
       \/ sent # "answer" /\ SameButFor({Fallback}, before, after)

(* An answer that is taken in.                                             *)
LEMMA TakenWhole ==
    ASSUME NEW reg, GoodRegistry(reg), NEW answer \in AnswerForms, NEW a \in Agents, NEW sent,
           Taken(reg, answer.messages, a).result = "ok"
    PROVE  Whole(reg, sent, Taken(reg, answer.messages, a).reg, answer, a)
<1>1. reg \in Registries /\ answer.messages \in Seq(Messages)
  BY DEF GoodRegistry, AnswerForms
<1>2. ASSUME NEW s \in Surfaces \ (Touched(answer) \cup {Fallback})
      PROVE  SameSurface(reg, Taken(reg, answer.messages, a).reg, s)
  <2>1. \A i \in 1..Len(answer.messages) : answer.messages[i].surface # s
    BY <1>1, <1>2 DEF Touched
  <2> QED
    BY <1>1, <2>1, TakenElsewhere
<1> QED
  BY <1>1, <1>2, TakenAsLastSaid DEF Whole, SameButFor

(* A fallback changes nothing but its own surface.                         *)
LEMMA FallbackOnly ==
    ASSUME NEW reg, GoodRegistry(reg), NEW a \in Agents
    PROVE  SameButFor({Fallback}, reg, Taken(reg, FallbackMessages, a).reg)
<1>1. reg \in Registries /\ FallbackMessages \in Seq(Messages)
  BY OwnMessages DEF GoodRegistry
<1>2. ASSUME NEW s \in Surfaces \ {Fallback}
      PROVE  SameSurface(reg, Taken(reg, FallbackMessages, a).reg, s)
  <2>1. \A i \in 1..Len(FallbackMessages) : FallbackMessages[i].surface # s
    BY FallbackElsewhere
  <2> QED
    BY <1>1, <2>1, TakenElsewhere
<1> QED
  BY <1>2 DEF SameButFor

(* An answer that was kept before is still kept when the registry changes  *)
(* on the fallback surface only.                                           *)
LEMMA WholeBeforeFallback ==
    ASSUME NEW before, NEW after, NEW later, NEW answer \in AnswerForms, NEW a, NEW sent, NEW again,
           Whole(before, sent, after, answer, a), SameButFor({Fallback}, after, later),
           again # "answer" \/ \A s \in Touched(answer) : AsLastSaid(after, answer, s, a)
    PROVE  Whole(before, again, later, answer, a)
<1>1. Touched(answer) \subseteq Surfaces \ {Fallback}
  BY TouchedSurfaces
<1>2. SameButFor(Touched(answer) \cup {Fallback}, before, later)
  BY DEF Whole, SameButFor, SameSurface
<1>3. CASE \A s \in Touched(answer) : AsLastSaid(after, answer, s, a)
  <2>1. \A s \in Touched(answer) : SameSurface(after, later, s)
    BY <1>1 DEF SameButFor
  <2>2. \A s \in Touched(answer) : AsLastSaid(later, answer, s, a)
    BY <1>3, <2>1 DEF AsLastSaid, SameSurface
  <2> QED
    BY <1>2, <2>2 DEF Whole
<1>4. CASE SameButFor({Fallback}, before, after) /\ again # "answer"
  <2>1. SameButFor({Fallback}, before, later)
    BY <1>4 DEF SameButFor, SameSurface
  <2> QED
    BY <1>2, <1>4, <2>1 DEF Whole
<1> QED
  BY <1>3, <1>4 DEF Whole

(* What is prepared is the whole answer or nothing of it.                  *)
LEMMA PreparedWhole ==
    ASSUME NEW reg, GoodRegistry(reg), NEW answer \in AnswerForms, NEW a \in Agents
    PROVE  LET r == Prepared(reg, answer, a) IN
           \/ /\ r.sent = "answer"
              /\ r.reg = Taken(reg, answer.messages, a).reg
              /\ Taken(reg, answer.messages, a).result = "ok"
           \/ r.sent # "answer" /\ SameButFor({Fallback}, reg, r.reg)
<1>1. SameButFor({Fallback}, reg, reg)
  BY DEF SameButFor, SameSurface
<1>2. SameButFor({Fallback}, reg, Taken(reg, FallbackMessages, a).reg)
  BY FallbackOnly
<1> QED
  BY <1>1, <1>2, PreparedCases

(* So is what becomes of the answer to a user action.                      *)
LEMMA HandledWhole ==
    ASSUME NEW reg, GoodRegistry(reg), NEW answer \in AnswerForms, NEW a \in Agents,
           NEW readable
    PROVE  LET h == Handled(reg, answer, a, readable)
           IN  Whole(reg, h.sent, h.reg, answer, a)
<1> DEFINE h     == Handled(reg, answer, a, readable)
           first == Taken(reg, answer.messages, a)
           again  == Prepared(first.reg, answer, a)
<1>1. reg \in Registries /\ answer.messages \in Seq(Messages)
  BY DEF GoodRegistry, AnswerForms
<1>2. GoodRegistry(first.reg)
  BY <1>1, TakenGood
<1>3. /\ SameButFor({Fallback}, reg, reg)
      /\ SameButFor(Touched(answer) \cup {Fallback}, reg, reg)
  BY DEF SameButFor, SameSurface
<1>4. Whole(reg, "nothing", first.reg, answer, a)
  <2>1. CASE first.result = "ok"
    BY <2>1, TakenWhole
  <2>2. CASE first.reg = reg
    BY <1>3, <2>2 DEF Whole
  <2> QED
    BY <1>1, <2>1, <2>2, TakenCases
<1>5. CASE first.result = "conflict" \/ ~ readable
  <2>1. h = [sent |-> "nothing", reg |-> first.reg]
    BY <1>5 DEF Handled
  <2> QED
    BY <1>4, <2>1
<1>6. CASE ~ (first.result = "conflict" \/ ~ readable)
  <2>1. h = again
    BY <1>6 DEF Handled
  <2>2. CASE again.sent # "answer" /\ SameButFor({Fallback}, first.reg, again.reg)
    <3> HIDE DEF again, first, h
    <3>1. Whole(reg, again.sent, again.reg, answer, a)
      BY <1>4, <2>2, WholeBeforeFallback
    <3> QED
      BY <2>1, <3>1 DEF h
  <2>3. CASE /\ again.sent = "answer"
             /\ again.reg = Taken(first.reg, answer.messages, a).reg
             /\ Taken(first.reg, answer.messages, a).result = "ok"
    <3>1. Whole(first.reg, "answer", again.reg, answer, a)
      BY <1>2, <2>3, TakenWhole
    <3>2. \A s \in Touched(answer) : AsLastSaid(again.reg, answer, s, a)
      BY <3>1 DEF Whole
    <3>3. SameButFor(Touched(answer) \cup {Fallback}, reg, again.reg)
      BY <1>4, <3>1 DEF Whole, SameButFor, SameSurface
    <3> QED
      BY <2>1, <3>2, <3>3 DEF Whole
  <2> QED
    BY <1>2, <2>2, <2>3, PreparedWhole
<1> QED
  BY <1>5, <1>6

(* The answer to a user action leaves alone what its specialist may not    *)
(* touch.                                                                  *)
LEMMA HandledElsewhere ==
    ASSUME NEW reg, GoodRegistry(reg), NEW answer \in AnswerForms, NEW a \in Agents,
           NEW readable, NEW s \in Surfaces, LeftAlone(reg.owners, s, a)
    PROVE  SameSurface(reg, Handled(reg, answer, a, readable).reg, s)
<1> DEFINE first == Taken(reg, answer.messages, a).reg
           again  == Prepared(first, answer, a).reg
<1>1. reg \in Registries /\ answer.messages \in Seq(Messages)
  BY DEF GoodRegistry, AnswerForms
<1>2. GoodRegistry(first)
  BY <1>1, TakenGood
<1>3. first \in Registries
  BY <1>2 DEF GoodRegistry
<1>4. SameSurface(reg, first, s)
  BY <1>1, TakenElsewhere
<1> HIDE DEF first
<1>5. LeftAlone(first.owners, s, a)
  BY <1>4 DEF LeftAlone, SameSurface
<1>6. /\ SameSurface(first, Taken(first, answer.messages, a).reg, s)
      /\ SameSurface(first, Taken(first, FallbackMessages, a).reg, s)
      /\ SameSurface(first, first, s)
  BY <1>1, <1>3, <1>5, TakenElsewhere, OwnMessages DEF SameSurface
<1>7. SameSurface(first, again, s)
  BY <1>6, PreparedCases
<1>8. SameSurface(reg, again, s)
  BY <1>4, <1>7 DEF SameSurface
<1> QED
  BY <1>4, <1>8 DEF Handled, first

(* A message that changes nothing and then one that is valid.              *)
LEMMA TwoStaged ==
    ASSUME NEW cans \in CanvasMaps, NEW messages \in Seq(Messages), NEW strict
    PROVE  /\ Len(messages) = 2
           /\ Valid(cans, messages[1], strict) /\ Applied(cans, messages[1]) = cans
           /\ Valid(cans, messages[2], strict)
           => Staged(cans, messages, strict).ok
<1>1. PICK st \in [0..Len(messages) -> CheckStates] :
         /\ st[0] = [ok |-> TRUE, canvases |-> cans]
         /\ \A i \in 1..Len(messages) : st[i] = CheckStep(st[i - 1], messages[i], strict)
         /\ Staged(cans, messages, strict) = st[Len(messages)]
  BY StagedSteps
<1> SUFFICES ASSUME Len(messages) = 2,
                    Valid(cans, messages[1], strict), Applied(cans, messages[1]) = cans,
                    Valid(cans, messages[2], strict)
             PROVE  Staged(cans, messages, strict).ok
  OBVIOUS
<1>2. 1 \in 1..Len(messages) /\ 2 \in 1..Len(messages) /\ 1 - 1 = 0 /\ 2 - 1 = 1
  OBVIOUS
<1>3. /\ st[1] = CheckStep(st[0], messages[1], strict)
      /\ st[2] = CheckStep(st[1], messages[2], strict)
  BY <1>1, <1>2
<1>4. st[0].ok /\ st[0].canvases = cans
  BY <1>1
<1>5. st[1].ok /\ st[1].canvases = cans
  BY <1>3, <1>4 DEF CheckStep
<1>6. st[2].ok
  BY <1>3, <1>5 DEF CheckStep
<1> QED
  BY <1>1, <1>6

(* The canvas of a plan suits every good registry.                         *)
LEMMA CanvasAccepted ==
    ASSUME NEW reg, GoodRegistry(reg), NEW p \in PlanIds, NEW cs \in Canvases
    PROVE  PlanTaken(reg, CanvasMessages(p, cs)).result = "ok"
<1> DEFINE messages == CanvasMessages(p, cs)
           create   == Message("create", p, {}, FALSE)
           update   == Message("update", p, cs, FALSE)
<1>1. reg.canvases \in CanvasMaps /\ reg.owners \in OwnerMaps /\ p \in Surfaces
  BY DEF GoodRegistry, Registries, Surfaces
<1>2. /\ cs \in ComponentSets /\ StandsAlone(cs) /\ UpdateAccepted({}, cs, TRUE)
  BY CanvasesAssumption
<1>3. messages \in Seq(Messages)
  BY <1>2, OwnMessages
<1>4. Len(messages) = 2 /\ messages[1] = create /\ messages[2] = update
  BY DEF CanvasMessages
<1>5. /\ create.kind = "create" /\ create.shaped /\ create.surface = p
      /\ update.kind = "update" /\ update.shaped /\ update.surface = p
      /\ update.parts = cs /\ update.replace = FALSE
  BY DEF Message
<1>6. reg.canvases[p] \in ComponentSets /\ Sound(reg.canvases[p])
  BY <1>1 DEF GoodRegistry, SoundCanvases, CanvasMaps
<1>7. UpdateAccepted(reg.canvases[p], cs, TRUE)
  BY <1>2, <1>6, StandsAloneAccepted DEF GoodRegistry, Reserved
<1> HIDE DEF messages, create, update
<1>8. Valid(reg.canvases, create, TRUE) /\ Applied(reg.canvases, create) = reg.canvases
  BY <1>5 DEF Valid, Applied
<1>9. Valid(reg.canvases, update, TRUE)
  BY <1>2, <1>5, <1>7 DEF Valid, Baseline
<1>10. Staged(reg.canvases, messages, TRUE).ok
  BY <1>1, <1>3, <1>4, <1>8, <1>9, TwoStaged
<1>11. ClaimedForPlan(reg.owners, messages).ok
  <2>1. PICK st \in [0..Len(messages) -> ClaimStates] :
           /\ st[0] = [ok |-> TRUE, owners |-> reg.owners]
           /\ \A i \in 1..Len(messages) : st[i] = PlanClaimStep(st[i - 1], messages[i])
           /\ ClaimedForPlan(reg.owners, messages) = st[Len(messages)]
    BY <1>1, <1>3, PlanClaimedSteps
  <2>2. st[1] = PlanClaimStep(st[0], create) /\ st[2] = PlanClaimStep(st[1], update)
    <3>1. 1 \in 1..Len(messages) /\ 2 \in 1..Len(messages) /\ 1 - 1 = 0 /\ 2 - 1 = 1
      BY <1>4
    <3> QED
      BY <1>4, <2>1, <3>1
  <2>3. reg.owners[p] \in {NoOwner, Orchestrator}
    BY DEF GoodRegistry, Reserved
  <2>4. st[0].ok /\ st[0].owners = reg.owners
    BY <2>1
  <2>5. st[1].owners[p] = Orchestrator /\ st[1].ok
    <3>1. st[1] = [st[0] EXCEPT !.owners = [reg.owners EXCEPT ![p] = Orchestrator]]
      BY <1>5, <2>2, <2>3, <2>4 DEF PlanClaimStep
    <3>2. st[1].owners = [reg.owners EXCEPT ![p] = Orchestrator] /\ st[1].ok
      BY <2>1, <2>4, <3>1
    <3> QED
      BY <1>1, <3>2 DEF OwnerMaps
  <2>6. st[2].ok
    BY <1>5, <2>2, <2>5 DEF PlanClaimStep
  <2> QED
    BY <1>4, <2>1, <2>6
<1> QED
  BY <1>10, <1>11 DEF PlanTaken, Committed, messages

-----------------------------------------------------------------------------
(* The theorems.                                                           *)

(* The registry's maps have their types, and a user action is sent to a    *)
(* specialist with a handler.                                              *)
THEOREM RegistryTypes == RSpec => []RegistryTypeOK
<1>1. RoutesInv => RegistryTypeOK
  BY DEF RoutesInv
<1> QED
  BY <1>1, RoutesInductive, PTL

(* Every canvas can be drawn, whatever updates, replacements, deletions    *)
(* and restorations led to it.                                             *)
THEOREM CanvasesStaySound == RSpec => []CanvasesSound
<1>1. RoutesInv => CanvasesSound
  BY DEF RoutesInv, GoodRegistry, SoundCanvases, CurrentRegistry, CanvasesSound
<1> QED
  BY <1>1, RoutesInductive, PTL

(* Components are known of owned surfaces only.                            *)
THEOREM CanvasesStayOwned == RSpec => []OnlyOwnedCanvases
<1>1. RoutesInv => OnlyOwnedCanvases
  BY DEF RoutesInv, GoodRegistry, OwnedCanvases, CurrentRegistry, OnlyOwnedCanvases
<1> QED
  BY <1>1, RoutesInductive, PTL

(* An approval canvas can always be shown.                                 *)
THEOREM CanvasesAlwaysShown == RSpec => []CanvasNeverRefused
<1>1. RoutesInv => CanvasNeverRefused
  BY CanvasAccepted DEF RoutesInv, CanvasNeverRefused
<1> QED
  BY <1>1, RoutesInductive, PTL

(* An answer to a user action is kept whole or not at all.                 *)
THEOREM AnswersStayWhole == RSpec => []AnswersWhole
<1>1. ASSUME RoutesInv PROVE AnswersWhole
  <2> SUFFICES ASSUME NEW c \in Calls, calls[c] # Idle,
                      NEW x \in Answers, NEW readable \in BOOLEAN
               PROVE  LET after    == Handled(CurrentRegistry, x, calls[c], readable)
                          Final(s) == IF LastMessage(x, s).kind = "delete"
                                        THEN after.reg.owners[s] = NoOwner /\ after.reg.canvases[s] = {}
                                        ELSE after.reg.owners[s] = Specialist(calls[c])
                          Same(S)  == \A s \in S : SameSurface(CurrentRegistry, after.reg, s)
                      IN  /\ Same(Surfaces \ (Touched(x) \cup {Fallback}))
                          /\ \/ \A s \in Touched(x) : Final(s)
                             \/ after.sent # "answer" /\ Same(Touched(x))
    BY DEF AnswersWhole
  <2> DEFINE after == Handled(CurrentRegistry, x, calls[c], readable)
  <2>1. GoodRegistry(CurrentRegistry) /\ calls[c] \in Agents /\ x \in AnswerForms
    BY <1>1, HandlersAssumption, AnswersAssumption DEF RoutesInv, RegistryTypeOK
  <2>2. Whole(CurrentRegistry, after.sent, after.reg, x, calls[c])
    BY <2>1, HandledWhole
  <2>3. Touched(x) \subseteq Surfaces \ {Fallback}
    BY <2>1, TouchedSurfaces
  <2> HIDE DEF after
  <2>4. \A s \in Surfaces \ (Touched(x) \cup {Fallback}) : SameSurface(CurrentRegistry, after.reg, s)
    BY <2>2 DEF Whole, SameButFor
  <2>5. \/ \A s \in Touched(x) : AsLastSaid(after.reg, x, s, calls[c])
        \/ after.sent # "answer" /\ \A s \in Touched(x) : SameSurface(CurrentRegistry, after.reg, s)
    BY <2>2, <2>3 DEF Whole, SameButFor
  <2> QED
    BY <2>4, <2>5 DEF AsLastSaid, after
<1>2. RoutesInv => AnswersWhole
  BY <1>1
<1> QED
  BY <1>2, RoutesInductive, PTL

(* A user action's end changes no surface its specialist may not touch.    *)
LEMMA StaysOutStep ==
    ASSUME RoutesInv, RNext, NEW c \in Calls, calls[c] # Idle, calls'[c] = Idle,
           NEW s \in Surfaces, LeftAlone(owners, s, calls[c])
    PROVE  SameSurface(CurrentRegistry, CurrentRegistry', s)
<1>1. /\ GoodRegistry(CurrentRegistry)
      /\ calls \in [Calls -> Handlers \cup {Idle}]
      /\ calls[c] \in Agents
  BY HandlersAssumption DEF RoutesInv, RegistryTypeOK
<1>2. CASE HandlerAnswers(c)
  <2>1. PICK x \in Answers, readable \in BOOLEAN :
           SetRegistry(Handled(CurrentRegistry, x, calls[c], readable).reg)
    BY <1>2 DEF HandlerAnswers
  <2> DEFINE after == Handled(CurrentRegistry, x, calls[c], readable).reg
  <2>2. x \in AnswerForms /\ CurrentRegistry.owners = owners
    BY AnswersAssumption DEF CurrentRegistry
  <2>3. SameSurface(CurrentRegistry, after, s)
    BY <1>1, <2>2, HandledElsewhere
  <2>4. after \in Registries
    BY <1>1, <2>2, HandledGood DEF GoodRegistry
  <2>5. CurrentRegistry' = after
    BY <2>1, <2>4, RegistryOfState
  <2> QED
    BY <2>3, <2>5
<1>3. CASE HandlerFails(c)
  BY <1>3 DEF HandlerFails, SameSurface, CurrentRegistry
<1>4. ASSUME NEW d \in Calls, d # c, HandlerAnswers(d) \/ HandlerFails(d) PROVE FALSE
  BY <1>1, <1>4 DEF HandlerAnswers, HandlerFails
<1>5. ASSUME NEW d \in Calls, NEW t \in Surfaces, UserActs(d, t) PROVE FALSE
  BY <1>1, <1>5 DEF UserActs
<1>6. ASSUME calls' = calls PROVE FALSE
  BY <1>6
<1>7. ASSUME \/ \E p \in PlanIds : ProposePlan(p) \/ EditPlan(p) \/ DecidePlan(p)
             \/ \E a \in Agents : DirectRequest(a)
             \/ ClearSurfaces \/ ExportSession \/ Restore
      PROVE  FALSE
  BY <1>6, <1>7
  DEF ProposePlan, EditPlan, DecidePlan, DirectRequest, ClearSurfaces, ExportSession, Restore
<1> QED
  BY <1>2, <1>3, <1>4, <1>5, <1>7 DEF RNext

(* The owner a user action was sent to may have lost its surfaces by the   *)
(* time the answer comes: nothing of another owner, and no approval        *)
(* surface, changes then.                                                  *)
THEOREM SpecialistsStayOutThroughout == RSpec => SpecialistsStayOut
<1> DEFINE Out == \A c \in Calls : calls[c] # Idle /\ calls'[c] = Idle =>
                     \A s \in Surfaces :
                        s \in PlanIds \/ owners[s] \notin {NoOwner, Specialist(calls[c])}
                        => SameSurface(CurrentRegistry, CurrentRegistry', s)
<1>1. ASSUME RoutesInv, RNext PROVE Out
  <2> SUFFICES ASSUME NEW c \in Calls, calls[c] # Idle, calls'[c] = Idle, NEW s \in Surfaces,
                      s \in PlanIds \/ owners[s] \notin {NoOwner, Specialist(calls[c])}
               PROVE  SameSurface(CurrentRegistry, CurrentRegistry', s)
    OBVIOUS
  <2>1. LeftAlone(owners, s, calls[c])
    BY DEF LeftAlone
  <2> QED
    BY <1>1, <2>1, StaysOutStep
<1>2. RoutesInv /\ [RNext]_rvars => [Out]_rvars
  BY <1>1
<1>3. RSpec => [][Out]_rvars
  BY <1>2, RoutesInductive, PTL DEF RSpec
<1> QED
  BY <1>3 DEF SpecialistsStayOut
=============================================================================
