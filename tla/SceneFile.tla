----------------------------- MODULE SceneFile -----------------------------
(***************************************************************************)
(* A scene, its YAML document and its cook (engine/src/SceneSerialize.cpp, *)
(* Cook.cpp), in a process whose component types come and go with the      *)
(* gameplay modules (Scene.cpp, Reflect.cpp).                              *)
(*                                                                         *)
(* The author rewrites the document by hand, the program edits the scene,  *)
(* and the process is started again with another build of the module.      *)
(* Files and types survive differently: a type is there once its module    *)
(* registered it, its data may be there before and after.  The hierarchy   *)
(* is kept as parent links; Scene models it in full.                       *)
(***************************************************************************)
EXTENDS Integers, Sequences, FiniteSets, SequencesExt

CONSTANTS
    Core,        \* types every build has: sequence of [type, def]
    Gameplay,    \* name of the type a module brings
    Builds,      \* its definition in each build of the module
    Intrinsic,   \* types every entity is created with
    Excluded,    \* types the schema does not store on a component
    Documents,   \* what the author may write
    Authored,    \* bound: the identities an author writes are 1..Authored
    Values,      \* values the program gives a component: name -> set
    Names,       \* names the program gives an entity
    NoType,      \* the type is not registered
    Forgotten,   \* registered, then taken out of the reflection system
    Nobody,      \* no parent
    Malformed,   \* text that is not a YAML mapping
    NoCook, Torn,
    MaxGuids,    \* bound: identities, those of Documents and those generated
    MaxEdits     \* bound: edits of the scene, the document or the types

\* The values a type has, and their two forms: Serialize models them.
CONSTANTS
    Held(_),                      \* the values a component of a type may have
    Construct(_),                 \* the one it is constructed with
    WriteProperties(_, _),        \* a value as a YAML node
    ReadProperties(_, _, _),      \* a node read over a value
    CookProperties(_, _),         \* a value in the cook
    ReadCookedProperties(_, _, _) \* the same, read over a value

Elements(s) == {s[i] : i \in DOMAIN s}

-----------------------------------------------------------------------------
(* What is assumed of the constants.                                        *)

Unwritten == 0   \* an entity without a guid
Mistyped == -1   \* a guid that is not 16 hex digits

CoreNames == {Core[i].type : i \in DOMAIN Core}
Definitions == {Core[i].def : i \in DOMAIN Core} \cup Builds
Records == UNION {Elements(d.entities) : d \in Documents \ {Malformed}}
Parts == UNION {Elements(r.components) : r \in Records}
Nodes == {c.node : c \in Parts}
         \cup UNION {{WriteProperties(t, v) : v \in Held(t)} : t \in Definitions}

ASSUME BoundsAssumption ==
    /\ MaxEdits \in Nat /\ MaxGuids \in Nat /\ Authored \in 0..MaxGuids
    /\ Nobody \notin 1..MaxGuids

\* A name has one type; the hierarchy is nobody's component.
ASSUME TypesAssumption ==
    /\ Core \in Seq(Elements(Core))
    /\ \A i \in DOMAIN Core : Core[i] = [type |-> Core[i].type, def |-> Core[i].def]
    /\ \A i, j \in DOMAIN Core : Core[i].type = Core[j].type => i = j
    /\ Gameplay \notin CoreNames /\ Intrinsic \subseteq CoreNames
    /\ Excluded \cap (CoreNames \cup {Gameplay}) = {}
    /\ NoType # Forgotten /\ NoType \notin Builds /\ Forgotten \notin Definitions

\* What an author writes is a list of records of lists of components.
ASSUME DocumentsAssumption ==
    /\ \A d \in Documents \ {Malformed} :
          d \in [version : Nat, entities : Seq(Elements(d.entities))]
    /\ \A r \in Records :
          r \in [guid : {Unwritten, Mistyped} \cup 1..Authored, name : {r.name},
                 parent : {r.parent}, components : Seq(Elements(r.components))]
    /\ \A c \in Parts : c \in [type : {c.type}, node : {c.node}]

\* Whatever is read into a component of a type is a value of that type, and a
\* value comes back from the form it was written in.
ASSUME ValuesAssumption ==
    /\ \A t \in Definitions : Construct(t) \in Held(t)
    /\ \A t \in Definitions, node \in Nodes : ReadProperties(t, node, Construct(t)) \in Held(t)
    /\ \A t, u \in Definitions : \A v \in Held(u) :
          ReadCookedProperties(t, CookProperties(u, v), Construct(t)) \in Held(t)
    /\ \A t \in Definitions : \A v \in Held(t) :
          /\ ReadProperties(t, WriteProperties(t, v), Construct(t)) = v
          /\ ReadCookedProperties(t, CookProperties(t, v), Construct(t)) = v
    /\ \A i \in DOMAIN Core : Core[i].type \in DOMAIN Values =>
          Values[Core[i].type] \subseteq Held(Core[i].def)
    /\ Gameplay \in DOMAIN Values => \A t \in Builds : Values[Gameplay] \subseteq Held(t)

-----------------------------------------------------------------------------
VARIABLES
    gameplay,  \* what the process knows of Gameplay
    scene,     \* its entities, in storage order
    file,      \* the document
    cook,      \* the cook beside it
    minted,    \* identities generated so far
    synced,    \* history: the scene is what file holds, loaded or saved last
    owed,      \* history: <<entity, type>> a loaded document carried and
               \* nobody has taken away since
    edits

vars == <<gameplay, scene, file, cook, minted, synced, owed, edits>>

\* The items of s of the types T, and those of the others, in their order.
TypesIn(s) == {s[i].type : i \in DOMAIN s}
Of(s, T) ==
    LET upto[n \in 0..Len(s)] ==
            IF n = 0 THEN <<>>
            ELSE IF s[n].type \in T THEN Append(upto[n - 1], s[n]) ELSE upto[n - 1]
    IN  upto[Len(s)]
Without(s, T) == Of(s, TypesIn(s) \ T)

-----------------------------------------------------------------------------
(* The table of component types, in order of registration.  An entry is     *)
(* never taken out of it.                                                   *)

Types == IF gameplay = NoType THEN Core
         ELSE Append(Core, [type |-> Gameplay, def |-> gameplay])
Known == TypesIn(Types)
TypeOf(t) == Types[CHOOSE i \in DOMAIN Types : Types[i].type = t].def
Live == {t \in Known : TypeOf(t) # Forgotten}
Read(t, node) == ReadProperties(TypeOf(t), node, Construct(TypeOf(t)))

-----------------------------------------------------------------------------
(* The scene.                                                               *)

Ids(s) == {e.guid : e \in Elements(s)}
At(s, g) == CHOOSE i \in DOMAIN s : s[i].guid = g

\* The entities gs and what is below them: what every set that holds them and
\* the children of whom it holds has.
Below(s, gs) ==
    LET all == Ids(s) \cup gs
        Closed(D) == gs \subseteq D /\ \A e \in Elements(s) : e.parent \in D => e.guid \in D
    IN  {g \in all : \A D \in SUBSET all : Closed(D) => g \in D}

Entity(g, name) ==
    [guid |-> g, name |-> name, parent |-> Nobody,
     comps |-> [t \in Intrinsic |-> Construct(TypeOf(t))], kept |-> <<>>]

\* createWithGuid: a GUID the scene knows gives the entity that has it.
\* Mutant: it makes a second entity.
Created_Again(s, g, name) == Append(s, Entity(g, name))
Created(s, g, name) == IF g \in Ids(s) THEN s ELSE Append(s, Entity(g, name))

With(f, k, v) == [x \in DOMAIN f \cup {k} |-> IF x = k THEN v ELSE f[x]]
Attached(e, t, v) == [e EXCEPT !.comps = With(@, t, v)]

\* setParent refuses the entity itself and what is below it.
Linked(s, c, p) ==
    IF p \in Below(s, {c}) THEN s ELSE [s EXCEPT ![At(s, c)].parent = p]

\* A pool is packed: the last entity takes the place of one that goes.
Packed(s, i) == SubSeq([s EXCEPT ![i] = s[Len(s)]], 1, Len(s) - 1)
Gone(s, order) ==
    LET left[n \in 0..Len(order)] ==
            IF n = 0 THEN s ELSE Packed(left[n - 1], At(left[n - 1], order[n]))
    IN  left[Len(order)]

-----------------------------------------------------------------------------
(* Saving.                                                                  *)

\* Mutant: the order of the view, last created first.
InCreationOrder_View(s) == Reverse(s)
InCreationOrder(s) == s

Reference(p) == [is |-> IF p = Nobody THEN "none" ELSE "guid", to |-> p]

\* Known types in the order of the table, then the text of the others.
Components(e) ==
    LET known == Of(Types, DOMAIN e.comps)
        written == [i \in DOMAIN known |->
                      [type |-> known[i].type,
                       node |-> WriteProperties(known[i].def, e.comps[known[i].type])]]
    IN  written \o Without(e.kept, DOMAIN e.comps)

Saved(s) ==
    LET order == InCreationOrder(s)
    IN  [version |-> 1,
         entities |-> [i \in DOMAIN order |->
            [guid |-> order[i].guid, name |-> order[i].name,
             parent |-> Reference(order[i].parent), components |-> Components(order[i])]]]

-----------------------------------------------------------------------------
(* Loading the document.                                                    *)

\* The records with a guid or without one, and the guid each comes to have.
Accepted(d) == {i \in DOMAIN d.entities : d.entities[i].guid # Mistyped}
Fresh(d, i) == Cardinality({j \in 1..i : d.entities[j].guid = Unwritten})
Given(d) == [i \in Accepted(d) |-> IF d.entities[i].guid = Unwritten
                                   THEN minted + Fresh(d, i) ELSE d.entities[i].guid]

\* The components of a record in turn: ignored, kept as text, dropped where the
\* type cannot be constructed, or read over a default and attached; the last
\* one of a type stays.
ReadComponents(e, cs) ==
    LET read == TypesIn(cs) \cap (Live \ Excluded)
    IN  [e EXCEPT !.comps = [t \in DOMAIN @ \cup read |->
                                IF t \in read THEN Read(t, Last(Of(cs, {t})).node) ELSE @[t]],
                  !.kept = @ \o Without(cs, Known \cup Excluded)]

\* The first pass: entities and their components, in the document's order.
Opened(s, g, r) ==
    LET t == Created(s, g, r.name)
    IN  [t EXCEPT ![At(t, g)] = ReadComponents(@, r.components)]
FirstPass(d, ids) ==
    LET pass[n \in 0..Len(d.entities)] ==
            IF n = 0 THEN <<>>
            ELSE IF n \notin DOMAIN ids THEN pass[n - 1]
            ELSE Opened(pass[n - 1], ids[n], d.entities[n])
    IN  pass[Len(d.entities)]

\* A parent is named by its GUID, or by a name that only one record has.
Resolved(s, d, ids, ref) ==
    IF ref.is = "guid" THEN {ref.to} \cap Ids(s)
    ELSE LET bearers == {i \in DOMAIN ids : d.entities[i].name = ref.to}
         IN  IF ref.is = "name" /\ Cardinality(bearers) = 1
             THEN {ids[i] : i \in bearers} ELSE {}

\* The second pass: the links, once every entity is there.
Joined(s, d, ids, n) ==
    LET found == Resolved(s, d, ids, d.entities[n].parent)
    IN  IF found = {} THEN s ELSE Linked(s, ids[n], CHOOSE p \in found : TRUE)
SecondPass(s, d, ids) ==
    LET pass[n \in 0..Len(d.entities)] ==
            IF n = 0 THEN s
            ELSE IF n \notin DOMAIN ids THEN pass[n - 1]
            ELSE Joined(pass[n - 1], d, ids, n)
    IN  pass[Len(d.entities)]

Loaded(d) == SecondPass(FirstPass(d, Given(d)), d, Given(d))

Carried(d) ==
    UNION {{Given(d)[i]} \X (TypesIn(d.entities[i].components) \ Excluded) : i \in Accepted(d)}

-----------------------------------------------------------------------------
(* The cook.  A hash stands for the text it was made from.                  *)

Cooked(s, text) ==
    [source |-> text,
     by |-> gameplay,   \* history: the types of the build that cooked
     entities |-> [i \in DOMAIN s |->
        [s[i] EXCEPT !.comps = [t \in DOMAIN @ |-> CookProperties(TypeOf(t), @[t])]]]]

\* Mutant: the hash of the source is not compared.
Usable_AnySource(c, text) == c \notin {NoCook, Torn}
\* readCook: whole, of this container and schema, and of this text.
Usable(c, text) == c \notin {NoCook, Torn} /\ c.source = text

\* A type this build cannot construct makes the cook stale.
Stale(c) == \E e \in Elements(c.entities) : ~(DOMAIN e.comps \subseteq Live)

Uncooked(c) ==
    [i \in DOMAIN c.entities |->
        [c.entities[i] EXCEPT !.comps = [t \in DOMAIN @ |->
            ReadCookedProperties(TypeOf(t), @[t], Construct(TypeOf(t)))]]]

-----------------------------------------------------------------------------
(* Kept text whose type has come.                                           *)

\* Mutant: an item whose type is still absent is dropped.
Materialised_Dropped(e) == [ReadComponents(e, Of(e.kept, Live)) EXCEPT !.kept = <<>>]
\* materialiseUnknownComponents, for one entity.
Materialised(e) ==
    [ReadComponents(e, Of(e.kept, Live)) EXCEPT !.kept = Without(e.kept, Live)]

-----------------------------------------------------------------------------
(* Steps of the program.                                                    *)

Text == file # Malformed /\ file.version <= 1
Unwrittens(d) == Fresh(d, Len(d.entities))

Save ==
    /\ file' = Saved(scene)
    /\ synced' = TRUE
    /\ UNCHANGED <<gameplay, scene, cook, minted, owed, edits>>

\* Replaces the scene, or returns before it is touched.
LoadYaml ==
    /\ IF Text
       THEN /\ minted + Unwrittens(file) <= MaxGuids
            /\ scene' = Loaded(file)
            /\ minted' = minted + Unwrittens(file)
            /\ owed' = Carried(file)
            /\ synced' = TRUE
       ELSE UNCHANGED <<scene, minted, owed, synced>>
    /\ UNCHANGED <<gameplay, file, cook, edits>>

\* A cook is made of a scene that has just been loaded or saved.
CookScene ==
    /\ synced /\ gameplay # Forgotten
    /\ cook' = Cooked(scene, file)
    /\ UNCHANGED <<gameplay, scene, file, minted, synced, owed, edits>>

LoadCooked ==
    /\ Usable(cook, file) /\ ~Stale(cook)
    /\ scene' = Uncooked(cook)
    /\ owed' = {p \in Carried(file) : p[1] \in {r.guid : r \in Elements(file.entities)}}
    /\ synced' = FALSE
    /\ UNCHANGED <<gameplay, file, cook, minted, edits>>

Materialise ==
    /\ scene' = [i \in DOMAIN scene |-> Materialised(scene[i])]
    /\ synced' = FALSE
    /\ UNCHANGED <<gameplay, file, cook, minted, owed, edits>>

\* registerComponentOps and reflect, in the module's onLoad.
RegisterModule(t) ==
    /\ gameplay = NoType
    /\ gameplay' = t
    /\ UNCHANGED <<scene, file, cook, minted, synced, owed, edits>>

-----------------------------------------------------------------------------
(* Steps of the program on its scene, of the author, and of the process.    *)

Edits == edits < MaxEdits /\ edits' = edits + 1

Create(name) ==
    /\ Edits
    /\ minted < MaxGuids
    /\ minted' = minted + 1
    /\ scene' = Created(scene, minted + 1, name)
    /\ synced' = FALSE
    /\ UNCHANGED <<gameplay, file, cook, owed>>

\* The subtree goes; children before parents, in the order of child lists.
Destroy(g) ==
    /\ Edits
    /\ g \in Ids(scene)
    /\ LET gone == Below(scene, {g})
       IN  /\ \E order \in SetToSeqs(gone) : scene' = Gone(scene, order)
           /\ owed' = {p \in owed : p[1] \notin gone}
    /\ synced' = FALSE
    /\ UNCHANGED <<gameplay, file, cook, minted>>

SetParent(c, p) ==
    /\ Edits
    /\ {c, p} \subseteq Ids(scene)
    /\ scene' = Linked(scene, c, p)
    /\ synced' = FALSE
    /\ UNCHANGED <<gameplay, file, cook, minted, owed>>

SetComponent(g, t, v) ==
    /\ Edits
    /\ g \in Ids(scene) /\ t \in Live
    /\ scene' = [scene EXCEPT ![At(scene, g)] = Attached(@, t, v)]
    /\ synced' = FALSE
    /\ UNCHANGED <<gameplay, file, cook, minted, owed>>

Author(d) ==
    /\ Edits
    /\ file' = d
    /\ synced' = FALSE
    /\ UNCHANGED <<gameplay, scene, cook, minted, owed>>

\* The cook is lost or cut short on its way to the disk; it may be removed.
SpoilCook(c) ==
    /\ Edits
    /\ cook # c /\ cook' = c
    /\ UNCHANGED <<gameplay, scene, file, minted, synced, owed>>

\* forgetType, which a module calls in onUnload.  No component of the type is
\* alive: its pool would be code of an image that goes.
Forget ==
    /\ Edits
    /\ gameplay \notin {NoType, Forgotten}
    /\ \A e \in Elements(scene) : Gameplay \notin DOMAIN e.comps
    /\ gameplay' = Forgotten
    /\ UNCHANGED <<scene, file, cook, minted, synced, owed>>

\* The process is started again; what it loads next may be another build.
Restart ==
    /\ Edits
    /\ gameplay' = NoType
    /\ scene' = <<>>
    /\ synced' = FALSE /\ owed' = {}
    /\ UNCHANGED <<file, cook, minted>>

Init ==
    /\ gameplay = NoType
    /\ scene = <<>>
    /\ file \in Documents
    /\ cook = NoCook
    /\ minted = Authored
    /\ synced = FALSE /\ owed = {}
    /\ edits = 0

Next ==
    \/ Save \/ LoadYaml \/ CookScene \/ LoadCooked \/ Materialise
    \/ \E t \in Builds : RegisterModule(t)
    \/ \E name \in Names : Create(name)
    \/ \E g \in Ids(scene) : \/ Destroy(g)
                             \/ \E p \in Ids(scene) : SetParent(g, p)
                             \/ \E t \in DOMAIN Values : \E v \in Values[t] : SetComponent(g, t, v)
    \/ \E d \in Documents : Author(d)
    \/ \E c \in {NoCook, Torn} : SpoilCook(c)
    \/ Forget
    \/ Restart

Spec == Init /\ [][Next]_vars

-----------------------------------------------------------------------------
(* Properties.                                                              *)

\* A scene has one entity for each identity, and no link leads out of it or
\* round in a circle, whatever the documents say that it was loaded from.
Forest(s) ==
    /\ \A i, j \in DOMAIN s : s[i].guid = s[j].guid => i = j
    /\ \A e \in Elements(s) :
         e.parent # Nobody => e.parent \in Ids(s) \ Below(s, {e.guid})
Sound == Forest(scene)

\* What a scene holds: a component that is attached, or else the text kept for
\* its type as that type reads it, and the text of types that are not there.
Content(s) ==
    [i \in DOMAIN s |->
        LET e == s[i]
            settled == Materialised(e).comps
        IN  [guid |-> e.guid, name |-> e.name, parent |-> e.parent,
             values |-> [t \in DOMAIN settled |->
                            IF t \in DOMAIN e.comps THEN e.comps[t] ELSE settled[t]],
             texts |-> Without(e.kept, Live)]]

\* Saving loses nothing of the scene and its order, whatever was loaded into
\* it, edited or kept as text; and saving again what was saved and loaded
\* gives the same document.
SaveRoundTrips ==
    gameplay # Forgotten =>
        LET again == Loaded(Saved(scene))
        IN  /\ Content(again) = Content(scene)
            /\ Saved(Loaded(Saved(again))) = Saved(again)

Whole(d) == \A i \in DOMAIN d.entities : d.entities[i].guid # Unwritten

\* A cook that is taken in place of the document gives what the document
\* gives, as long as no type has another definition than when it was made.
CookAgrees ==
    (/\ Text /\ Whole(file) /\ Usable(cook, file) /\ ~Stale(cook)
     /\ gameplay # Forgotten /\ cook.by \in {NoType, gameplay}) =>
        Content(Uncooked(cook)) = Content(Loaded(file))

\* What every loaded document carried is in what a save would write, until
\* somebody takes it away: components of absent types included.
OwedIsWritten == gameplay # Forgotten => owed \subseteq Carried(Saved(scene))

\* The header of SceneSerialize.hpp of components whose type no longer exists
\* here: "From YAML these are preserved, not dropped".
PreservedNotDropped == owed \subseteq Carried(Saved(scene))

\* Of the cook: "rather than dropping data the YAML beside it still has, a
\* cook that names an absent type declares itself stale".
CacheIsDerived ==
    (/\ Text /\ Whole(file) /\ Usable(cook, file) /\ ~Stale(cook)
     /\ gameplay # Forgotten) =>
        Content(Uncooked(cook)) = Content(Loaded(file))
=============================================================================
