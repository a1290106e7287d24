--------------------------- MODULE ComponentGraph ---------------------------
(***************************************************************************)
(* The components of one A2UI surface and the checks an updateComponents   *)
(* message must pass before it is applied to them                          *)
(* (a2ui_support/schema_manager.py, a2ui_support/validation.py).           *)
(*                                                                         *)
(* A component names others by id (refs) and may hold others in place      *)
(* (inline).  The canvas of a surface is a set of top-level components     *)
(* with different ids.  An update replaces the components it names and     *)
(* leaves the others, so it is judged together with what it leaves.        *)
(***************************************************************************)
EXTENDS Naturals, FiniteSets

CONSTANT ComponentIds    \* ids of components

ASSUME RootAssumption == "root" \in ComponentIds

(* A component found in place: its nesting is one level deep here.         *)
Nodes == [id : ComponentIds, refs : SUBSET ComponentIds]

Components == [id : ComponentIds, refs : SUBSET ComponentIds, inline : SUBSET Nodes]

(* A canvas, or what a message brings: finitely many components.           *)
ComponentSets ==
    {cs \in SUBSET Components :
        IsFiniteSet(cs) /\ \A c \in cs : IsFiniteSet(c.inline)}

TopIds(cs) == {c.id : c \in cs}

Flat(c) == [id |-> c.id, refs |-> c.refs \cup {n.id : n \in c.inline}]

(* Every component of the tree, those held in place included.              *)
Tree(cs) == {Flat(c) : c \in cs} \cup UNION {c.inline : c \in cs}

TreeIds(cs) == {n.id : n \in Tree(cs)}

(* No id occurs twice in the message, at whatever depth.                   *)
UniqueIds(cs) ==
    /\ \A c, d \in cs : c.id = d.id => c = d
    /\ \A c \in cs : \A n \in c.inline :
          /\ n.id \notin TopIds(cs)
          /\ \A d \in cs : \A o \in d.inline : n.id = o.id => c = d /\ n = o

(* References by id reach top-level components only, of the message or of  *)
(* the canvas.                                                             *)
NamedIds(cs) == UNION {c.refs \cup UNION {n.refs : n \in c.inline} : c \in cs}

KnownReferences(canvas, cs) == NamedIds(cs) \subseteq TopIds(cs) \cup TopIds(canvas)

Kept(canvas, cs) == {c \in canvas : c.id \notin TopIds(cs)}

Arrows(cs) ==
    {a \in TreeIds(cs) \X TreeIds(cs) :
        \E n \in Tree(cs) : n.id = a[1] /\ a[2] \in n.refs}

(* What the arrows lead to from start, start included.                     *)
Reached(arrows, start) ==
    LET Grown[n \in 0..Cardinality(arrows)] ==
          IF n = 0 THEN start
          ELSE LET near == Grown[n - 1]
               IN  near \cup {a[2] : a \in {b \in arrows : b[1] \in near}}
    IN  Grown[Cardinality(arrows)]

(* Mutant: the search knows only the components of the message.            *)
NoCycleWithin(canvas, cs) ==
    \A n \in TreeIds(cs) :
       n \notin Reached(Arrows(cs), {a[2] : a \in {b \in Arrows(cs) : b[1] = n}})

(* The search starts at the components of the message and follows the      *)
(* references through the components it leaves on the canvas; a component  *)
(* that refers to itself is refused wherever it is.                        *)
NoCycleFrom(canvas, cs) ==
    LET all    == Kept(canvas, cs) \cup cs
        arrows == Arrows(all)
    IN  /\ \A a \in arrows : a[1] # a[2]
        /\ \A n \in Reached(arrows, TreeIds(cs)) :
              n \notin Reached(arrows, {a[2] : a \in {b \in arrows : b[1] = n}})

(* Approval canvases must stand alone and have a root.                     *)
StandsAlone(cs) ==
    /\ "root" \in TopIds(cs)
    /\ UNION {c.refs : c \in cs} \subseteq TopIds(cs)
    /\ \A c \in cs : c.inline = {}

(* strict is FALSE for a message that is judged without any canvas: then   *)
(* references to components it does not hold are let through.              *)
UpdateAccepted(canvas, cs, strict) ==
    /\ cs # {}
    /\ UniqueIds(cs)
    /\ strict => KnownReferences(canvas, cs)
    /\ NoCycleFrom(canvas, cs)

(* A full replacement is judged against an empty canvas.                   *)
Baseline(canvas, replace) == IF replace THEN {} ELSE canvas

Updated(canvas, cs, replace) == Kept(Baseline(canvas, replace), cs) \cup cs

-----------------------------------------------------------------------------
(* What a sound canvas is, stated for the whole canvas at once: every      *)
(* reference by id is to a top-level component, and no set of components   *)
(* refers only among itself.                                               *)
Sound(canvas) ==
    /\ NamedIds(canvas) \subseteq TopIds(canvas)
    /\ \A S \in (SUBSET TreeIds(canvas)) \ {{}} :
          \E m \in S : \A a \in Arrows(canvas) : a[2] = m => a[1] \notin S
=============================================================================
