-------------------------- MODULE MCSurfaceRoutes --------------------------
(* A small instance of SurfaceRoutes.                                      *)
EXTENDS SurfaceRoutes

Part(id, refs)      == [id |-> id, refs |-> refs, inline |-> {}]
Holding(id, n)      == [id |-> id, refs |-> {}, inline |-> {[id |-> n, refs |-> {}]}]
Update(s, cs)       == Message("update", s, cs, FALSE)
Replace(s, cs)      == Message("update", s, cs, TRUE)
Create(s)           == Message("create", s, {}, FALSE)
Delete(s)           == Message("delete", s, {}, FALSE)
Answer(messages)    == [messages |-> messages, noted |-> FALSE]

(* Whole surfaces, additions that need what is there, circles closed over  *)
(* two updates, replacements, moves from one surface to another, claims on *)
(* surfaces of others, and messages that are no A2UI.                      *)
MCAnswers ==
    { Answer(<<Create("s1"), Update("s1", {Part("root", {"a"}), Part("a", {})})>>),
      Answer(<<Update("s1", {Part("b", {"a"})})>>),
      Answer(<<Update("s1", {Part("a", {"root"})})>>),
      Answer(<<Update("s1", {Part("b", {"a"})}), Replace("s1", {Holding("root", "b")})>>),
      Answer(<<Update("s1", {Part("b", {"a"})}), Delete("s1")>>),
      Answer(<<Delete("s1"), Update("s2", {Part("root", {})})>>),
      Answer(<<Delete("s1"), Update("s2", {Part("root", {})}), Delete("p1")>>),
      Answer(<<Create("p1")>>),
      Answer(<<[Update("s2", {Part("root", {})}) EXCEPT !.shaped = FALSE]>>),
      [messages |-> <<>>, noted |-> TRUE] }

(* Two steps answer for one surface, with messages that need the others'   *)
(* components, or for no surface at all.                                   *)
MCExecutions ==
    { << [agent |-> "credit", answer |-> Answer(<<Update("s1", {Part("b", {"a"})})>>),
          listed |-> FALSE],
         [agent |-> "policy", answer |-> Answer(<<Update("s1", {Part("root", {})})>>),
          listed |-> TRUE] >>,
      << [agent |-> "policy", answer |-> [messages |-> <<>>, noted |-> TRUE],
          listed |-> TRUE],
         [agent |-> "credit", answer |-> Answer(<<Create("s1"), Delete("s2")>>),
          listed |-> TRUE] >> }

(* A registry with a surface of each specialist.                           *)
MCSnapshots ==
    { [owners   |-> [EmptyRegistry.owners EXCEPT !["s1"] = Specialist("credit"),
                                                 !["s2"] = Specialist("policy")],
       canvases |-> [EmptyRegistry.canvases EXCEPT
                        !["s1"] = {Part("root", {"a"}), Part("a", {})},
                        !["s2"] = {Part("root", {})}]] }

(* The canvas of a plan, and the canvas after a step was removed.          *)
MCCanvases == { {Part("root", {"a", "b"}), Part("a", {}), Part("b", {})},
                {Part("root", {"a"}), Part("a", {})} }
=============================================================================
