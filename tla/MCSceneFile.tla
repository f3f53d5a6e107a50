---------------------------- MODULE MCSceneFile ----------------------------
(***************************************************************************)
(* Two builds of a module: the second has one field more, of an enum.      *)
(* Documents as an author writes them: with a name as a parent and a       *)
(* missing GUID; with a circle of parents, a GUID twice and a mistyped one;*)
(* text that is not YAML; a newer schema.                                  *)
(***************************************************************************)
EXTENDS SceneFile

V == INSTANCE Serialize

Body == V!Object([position |-> V!Vector(2)])
Mesh == V!Object([materials |-> V!SequenceOf(V!Leaf("guid")), layers |-> V!Integer(FALSE, 2),
                shown |-> V!Leaf("flag"), label |-> V!Leaf("text"), lod |-> V!Leaf("number"),
                tint |-> V!Leaf("shader"), passes |-> V!SequenceOf(V!Enum([Opaque |-> 0, Blend |-> 1])),
                slots |-> V!SequenceOf(V!Object([map |-> V!Leaf("guid"), scale |-> V!Vector(2)]))])
SpinOld == V!Object([speed |-> V!Integer(TRUE, 3)])
SpinNew == V!Object([speed |-> V!Integer(TRUE, 3), about |-> V!Enum([World |-> 0, Local |-> 1])])

MCCore == <<[type |-> "Transform", def |-> Body], [type |-> "Mesh", def |-> Mesh]>>
MCBuilds == {SpinOld, SpinNew}

None == [is |-> "none", to |-> 0]
ById(g) == [is |-> "guid", to |-> g]
ByName(n) == [is |-> "name", to |-> n]
Part(t, node) == [type |-> t, node |-> node]
Spun(s, about) == Part("Spin", V!Map([speed |-> V!Number(s), about |-> about]))
Record1(g, n, p, c) == [guid |-> g, name |-> n, parent |-> p, components |-> c]

ByHand ==
    [version |-> 0, entities |-> <<
        Record1(Unwritten, "cube", ByName("root"), <<Spun(-3, V!Scalar("word", "Local"))>>),
        Record1(1, "root", None, <<
            Part("Mesh", V!Map([layers |-> V!Number(-1), tint |-> V!Number(5), shown |-> V!Scalar("word", "true"),
                              materials |-> V!List(<<V!Scalar("guid", 7), V!Number(8)>>)]))>>)>>]
Tangled ==
    [version |-> 1, entities |-> <<
        Record1(2, "cube", ById(1), <<Spun(2, V!Scalar("word", "Local"))>>),
        Record1(1, "root", ById(2), <<Part("Hierarchy", V!Absent),
            Part("Mesh", V!Map([materials |-> V!List(<<V!Scalar("guid", 7)>>), layers |-> V!Number(6),
                              shown |-> V!Number(1), label |-> V!Number(12), lod |-> V!Scalar("word", "far"),
                              tint |-> V!Numbers(<<1, 2, 3>>),
                              passes |-> V!List(<<V!Scalar("word", "Blend"), V!Scalar("word", "Glass")>>),
                              slots |-> V!List(<<V!Map([scale |-> V!Numbers(<<4, 5>>)]), V!Number(3)>>)]))>>),
        Record1(Mistyped, "lost", None, <<Spun(1, V!Absent)>>),
        Record1(2, "again", ById(3), <<Part("Spin", V!Map([about |-> V!Number(5)]))>>)>>]
Newer == [version |-> 2, entities |-> <<>>]

MCDocuments == {ByHand, Tangled, Newer, Malformed}
MCValues ==
    [Mesh |-> {[materials |-> <<7, 8>>, layers |-> 3, shown |-> TRUE, label |-> V!Scalar("word", "a"),
                lod |-> 2, tint |-> <<9>>, passes |-> <<0>>, slots |-> <<[map |-> 7, scale |-> <<0, 1>>]>>]}]

\* Every type here is converted whole.
Converted(values) == CHOOSE v \in values : TRUE

MCConstruct(t) == V!Default(t)
MCWriteProperties(t, v) == Converted(V!WriteValue(t, v))
MCReadProperties(t, node, current) == Converted(V!ReadInto(t, node, current))
MCCookProperties(t, v) == Converted(V!CookValue(t, v))
MCReadCookedProperties(t, c, current) == Converted(V!UncookValue(t, c, current))

\* What a component may hold: what comes of a document or of the program.
MCHeld(t) ==
    CASE t = SpinOld -> [speed : -4..3]
      [] t = SpinNew -> [speed : -4..3, about : 0..1]
      [] t = Body -> {V!Default(Body)}
      [] t = Mesh -> {V!Default(Mesh)} \cup MCValues["Mesh"] \cup
                     {MCReadProperties(Mesh, c.node, V!Default(Mesh)) :
                          c \in UNION {Elements(r.components) :
                                         r \in Elements(ByHand.entities) \cup Elements(Tangled.entities)}}
=============================================================================
