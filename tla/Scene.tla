------------------------------- MODULE Scene -------------------------------
(***************************************************************************)
(* A scene: its entities, the GUID index, the parent links and the world   *)
(* transforms derived from them (engine/src/Scene.cpp).                    *)
(*                                                                         *)
(* An entity is a registry slot, reused once its entity is destroyed.  A   *)
(* transform stands for its matrix, and matrices are abstract: what is     *)
(* known of them is the algebra of TransformAssumption, in which taking a  *)
(* matrix apart into a transform may lose some of it (shear, mirroring).   *)
(* A call with a handle that is not valid returns at once and is no step.  *)
(***************************************************************************)
EXTENDS Integers, Sequences

CONSTANTS
    Slots,          \* the registry's entity slots
    Guids,          \* identities a file or a generator may supply
    Null,           \* entt::null
    Matrices,       \* float4x4
    Transforms,     \* the matrices of a position, a rotation and a scale
    Clean,          \* those without mirroring, which taking apart gives back
    Identity,
    Compose(_, _),  \* product: a transform and its parent's world
    Inverse(_),
    Decomposed(_),  \* position, rotation and scale read off a matrix
    Origin(_)       \* where a matrix puts the entity's origin

ASSUME SceneAssumption == Null \notin Slots

\* Decomposed takes the position over as it is, so the origin ends up in the
\* same place under any parent.  Nothing is assumed of the inverse here: a
\* matrix of scale zero has none.
ASSUME TransformAssumption ==
    /\ Identity \in Clean /\ Clean \subseteq Transforms /\ Transforms \subseteq Matrices
    /\ \A a, b \in Matrices : Compose(a, b) \in Matrices
    /\ \A a, b, c \in Matrices : Compose(Compose(a, b), c) = Compose(a, Compose(b, c))
    /\ \A a \in Matrices : Compose(a, Identity) = a
    /\ \A a \in Matrices : Inverse(a) \in Matrices /\ Decomposed(a) \in Transforms
    /\ \A t \in Clean : Decomposed(t) = t
    /\ \A a, w \in Matrices : Origin(Compose(Decomposed(a), w)) = Origin(Compose(a, w))

\* A component is a function on the entities that have it: all of them, but
\* for DirtyTransform.
VARIABLES
    alive,     \* slots in use
    id,        \* Id component
    byGuid,    \* byGuid_: the slot that holds each known GUID
    parent, children,       \* Hierarchy component
    local,                  \* Transform component
    current, previous,      \* WorldTransform component
    dirty                   \* slots with a DirtyTransform component

links == <<parent, children>>
vars == <<alive, id, byGuid, parent, children, local, current, previous, dirty>>

Extend(f, e, v) == [x \in DOMAIN f \cup {e} |-> IF x = e THEN v ELSE f[x]]
Only(f, S) == [x \in S |-> f[x]]

Elements(s) == {s[i] : i \in DOMAIN s}

\* erase(remove(...)) of one child of a list that holds it once.
Without(s, e) ==
    LET k == CHOOSE i \in DOMAIN s : s[i] = e
    IN  [i \in 1..(Len(s) - 1) |-> IF i < k THEN s[i] ELSE s[i + 1]]

-----------------------------------------------------------------------------
(* Walking the hierarchy.  A set closed under a link is one that the walk   *)
(* along it never leaves; what the walk meets is in all of them.            *)

ClosedUp(S) == \A e \in S : parent[e] # Null => parent[e] \in S
ClosedDown(S) == \A e \in S : Elements(children[e]) \cap alive \subseteq S

\* The entities met by walking up from e, e included.
Above(e) == {a \in alive : \A S \in SUBSET alive : e \in S /\ ClosedUp(S) => a \in S}

\* The entities a recursion over the child lists reaches from e.
Below(e) == {d \in alive : \A S \in SUBSET alive : e \in S /\ ClosedDown(S) => d \in S}

\* Mutant: an entity does not hand its mark down to its children.
Stale_Own(e) == e \in dirty

\* e or an entity above it awaits recomputation.
Stale(e) == Above(e) \cap dirty # {}

-----------------------------------------------------------------------------
(* Creation and destruction. *)

\* createWithGuid() on a GUID the scene does not know.
CreateWithGuid(g, e) ==
    /\ g \notin DOMAIN byGuid /\ e \notin alive
    /\ alive' = alive \cup {e}
    /\ id' = Extend(id, e, g)
    /\ byGuid' = Extend(byGuid, g, e)
    /\ parent' = Extend(parent, e, Null)
    /\ children' = Extend(children, e, <<>>)
    /\ local' = Extend(local, e, Identity)
    /\ current' = Extend(current, e, Identity)
    /\ previous' = Extend(previous, e, Identity)
    /\ dirty' = dirty \cup {e}

\* createWithGuid() on a GUID the scene knows is refused: the caller gets the
\* entity that has it and nothing changes.
CreateDuplicate(g) == g \in DOMAIN byGuid /\ UNCHANGED vars

\* Mutant: the parent's list keeps the child.
ChildrenWithout_Kept(c) == children

\* detachFromParent(): both ends of the link, or nothing for a root.
ChildrenWithout(c) ==
    IF parent[c] = Null THEN children
    ELSE [children EXCEPT ![parent[c]] = Without(@, c)]

\* Mutant: only the destroyed entity's own GUID is taken out of the index.
Forgotten_Own(e) == {id[e]}

\* destroyRecursive() takes the GUID of every entity it destroys out of byGuid_.
Forgotten(e) == {id[d] : d \in Below(e)}

Destroy(e) ==
    /\ e \in alive
    /\ alive' = alive \ Below(e)
    /\ id' = Only(id, alive')
    /\ byGuid' = Only(byGuid, DOMAIN byGuid \ Forgotten(e))
    /\ parent' = Only(parent, alive')
    /\ children' = Only(ChildrenWithout(e), alive')
    /\ local' = Only(local, alive')
    /\ current' = Only(current, alive')
    /\ previous' = Only(previous, alive')
    /\ dirty' = dirty \cap alive'

-----------------------------------------------------------------------------
(* Reparenting. *)

\* Mutant: the new parent's transform is not undone.
Solve_World(world, parentWorld) == Decomposed(world)

\* applyWorldTransform(): the local transform read off the matrix that gives
\* `world` under a parent whose world transform is `parentWorld`.
Solve(world, parentWorld) == Decomposed(Compose(world, Inverse(parentWorld)))

Modes == {"KeepLocal", "KeepWorld"}

Reparented(c, mode, parentWorld) ==
    /\ local' = IF mode = "KeepWorld"
                THEN [local EXCEPT ![c] = Solve(current[c], parentWorld)] ELSE local
    /\ dirty' = dirty \cup {c}

\* setParent() with the null entity: c becomes a root.
Unparent(c, mode) ==
    /\ c \in alive
    /\ parent' = [parent EXCEPT ![c] = Null]
    /\ children' = ChildrenWithout(c)
    /\ Reparented(c, mode, Identity)
    /\ UNCHANGED <<alive, id, byGuid, current, previous>>

\* Mutant: only the direct cycle is refused.
MayParent_Direct(c, p) == p # c

\* Whether setParent() accepts p: not c itself and nothing below it.
MayParent(c, p) == p # c /\ c \notin Above(p)

\* setParent(); the world transforms it reads are those of the last
\* propagation.  Setting the parent c already has moves c to the list's end.
SetParent(c, p, mode) ==
    /\ {c, p} \subseteq alive
    /\ MayParent(c, p)
    /\ parent' = [parent EXCEPT ![c] = p]
    /\ children' = [ChildrenWithout(c) EXCEPT ![p] = Append(@, c)]
    /\ Reparented(c, mode, current[p])
    /\ UNCHANGED <<alive, id, byGuid, current, previous>>

-----------------------------------------------------------------------------
(* Transforms. *)

SetLocalTransform(e, t) ==
    /\ e \in alive
    /\ local' = [local EXCEPT ![e] = t]
    /\ dirty' = dirty \cup {e}
    /\ UNCHANGED <<alive, id, byGuid, links, current, previous>>

\* propagateSubtree() from every root: an entity that is stale is recomputed
\* under its parent's new world transform, and remembers its last one.
NewWorlds[e \in alive] ==
    IF ~Stale(e) THEN current[e]
    ELSE Compose(local[e], IF parent[e] = Null THEN Identity ELSE NewWorlds[parent[e]])

PropagateTransforms ==
    /\ current' = NewWorlds
    /\ previous' = [e \in alive |-> IF Stale(e) THEN current[e] ELSE previous[e]]
    /\ dirty' = {}
    /\ UNCHANGED <<alive, id, byGuid, links, local>>

-----------------------------------------------------------------------------
(* clone().  The program goes on with the copy; the source is not touched.  *)

Injections(A, B) == {f \in [A -> B] : \A x, y \in A : f[x] = f[y] => x = y}

RemapLink(p, remap) == IF p = Null THEN Null ELSE remap[p]

\* Every component is copied to the entity its source maps to, links are
\* mapped at both ends, and every copy starts dirty.
Clone(remap, newId) ==
    LET source(s) == CHOOSE e \in alive : remap[e] = s
        linked(s) == [i \in DOMAIN children[s] |-> remap[children[s][i]]]
    IN  /\ alive' = {remap[e] : e \in alive}
        /\ id' = [s \in alive' |-> newId[source(s)]]
        /\ byGuid' = [g \in {newId[e] : e \in alive} |->
                        remap[CHOOSE e \in alive : newId[e] = g]]
        /\ parent' = [s \in alive' |-> RemapLink(parent[source(s)], remap)]
        /\ children' = [s \in alive' |-> linked(source(s))]
        /\ local' = [s \in alive' |-> local[source(s)]]
        /\ current' = [s \in alive' |-> current[source(s)]]
        /\ previous' = [s \in alive' |-> previous[source(s)]]
        /\ dirty' = alive'

\* Mutant: a duplicate keeps its source's GUIDs.
NewIds_Kept(ids) == {[e \in alive |-> id[e]]}

\* Preserve keeps every GUID; Regenerate issues new ones.
CloneIds == {"Preserve", "Regenerate"}
NewIds(ids) ==
    IF ids = "Preserve" THEN {[e \in alive |-> id[e]]}
    ELSE Injections(alive, Guids \ DOMAIN byGuid)

CloneScene(ids) ==
    \E remap \in Injections(alive, Slots), newId \in NewIds(ids) : Clone(remap, newId)

-----------------------------------------------------------------------------
Empty == [s \in {} |-> Null]

Init ==
    /\ alive = {} /\ dirty = {}
    /\ id = Empty /\ byGuid = Empty
    /\ parent = Empty /\ children = Empty
    /\ local = Empty /\ current = Empty /\ previous = Empty

Next ==
    \/ \E g \in Guids : CreateDuplicate(g) \/ \E e \in Slots : CreateWithGuid(g, e)
    \/ \E e \in Slots : \/ Destroy(e)
                        \/ \E mode \in Modes : \/ Unparent(e, mode)
                                               \/ \E p \in Slots : SetParent(e, p, mode)
                        \/ \E t \in Transforms : SetLocalTransform(e, t)
    \/ PropagateTransforms
    \/ \E ids \in CloneIds : CloneScene(ids)

Spec == Init /\ [][Next]_vars

-----------------------------------------------------------------------------
(* What a scene promises. *)

\* Every variable holds a value of its type.
TypeOK ==
    /\ alive \subseteq Slots /\ dirty \subseteq alive
    /\ id \in [alive -> Guids]
    /\ parent \in [alive -> Slots \cup {Null}]
    /\ children \in [alive -> Seq(Slots)]
    /\ local \in [alive -> Transforms]
    /\ current \in [alive -> Matrices]
    /\ previous \in [alive -> Matrices]

\* The invariant the Hierarchy component states: a parent's list holds exactly
\* the entities whose parent it is, each once, and no link leads to an entity
\* that is gone (setParent, destroy, clone).
HierarchyConsistent ==
    /\ \A c \in alive : parent[c] # Null => parent[c] \in alive
    /\ \A p \in alive : /\ Elements(children[p]) = {c \in alive : parent[c] = p}
                        /\ \A i, j \in DOMAIN children[p] :
                              children[p][i] = children[p][j] => i = j

\* The parent links never close a cycle, on which every traversal would hang:
\* each set of entities has one whose parent is outside it (setParent).
Acyclic == \A S \in SUBSET alive : S # {} => \E e \in S : parent[e] \notin S

\* The GUID index and the entities agree in both directions, so a GUID names
\* one entity and every entity can be found (createWithGuid, destroy, clone).
RegistryConsistent ==
    /\ DOMAIN byGuid = {id[e] : e \in alive}
    /\ \A g \in DOMAIN byGuid : byGuid[g] \in alive /\ id[byGuid[g]] = g
    /\ \A e \in alive : byGuid[id[e]] = e

ParentWorld(e) == IF parent[e] = Null THEN Identity ELSE current[parent[e]]

\* A world transform that is not up to date is marked, on its entity or above
\* it: whoever moves or relinks an entity marks it dirty (markTransformDirty).
WorldsMarked ==
    \A e \in alive : ~Stale(e) => current[e] = Compose(local[e], ParentWorld(e))

Settles ==
    PropagateTransforms =>
        /\ dirty' = {}
        /\ \A e \in alive : current'[e] = Compose(local[e], ParentWorld(e))'

\* One propagation leaves nothing stale: every world transform is the product
\* of the entity's local one and its parent's, and no mark is left.
PropagationSettles == [][Settles]_vars

Regular(m) == Compose(m, Inverse(m)) = Identity /\ Compose(Inverse(m), m) = Identity
WorldOf(p, worlds) == IF p = Null THEN Identity ELSE worlds[p]

KeepsWorlds ==
    \A c \in alive \cap dirty' :
        LET p      == parent'[c]
            shown  == WorldOf(p, current)
            before == [e \in alive |-> NewWorlds[e]]
            after  == [e \in alive |-> NewWorlds'[e]]
            next   == WorldOf(p, before)
        IN  (IF p = Null THEN Unparent(c, "KeepWorld") ELSE SetParent(c, p, "KeepWorld"))
            => /\ \A e \in alive \ Below(c) : after[e] = before[e]
               /\ \A t \in Clean :
                     Regular(shown) /\ Compose(t, shown) = current[c]
                        => after[c] = Compose(t, next)
               /\ Regular(shown) /\ next = shown
                     => Origin(after[c]) = Origin(current[c])
               /\ after[c] = before[c] => \A e \in Below(c) : after[e] = before[e]

\* A reparent that keeps the world transform moves nothing but the subtree it
\* takes along.  If some unmirrored transform puts the entity, under its new
\* parent, where the last propagation showed it, the next one gives it that
\* transform: it stays exactly where it was, whatever move of its own was
\* pending, and it follows the parent if a move of the parent's was.  Where
\* only a sheared matrix would do, its origin still stays.  And where it stays,
\* all below it does (setParent with Reparent::KeepWorld, applyWorldTransform).
KeepWorldKeeps == [][KeepsWorlds]_vars

FaithfulCopy(ids) ==
    \E copy \in Injections(alive, alive') :
        /\ {copy[e] : e \in alive} = alive'
        /\ \A e \in alive :
              /\ parent'[copy[e]] = RemapLink(parent[e], copy)
              /\ Len(children'[copy[e]]) = Len(children[e])
              /\ \A i \in DOMAIN children[e] :
                    children'[copy[e]][i] = copy[children[e][i]]
              /\ NewWorlds'[copy[e]] = NewWorlds[e]
              /\ ids = "Preserve" => byGuid'[id[e]] = copy[e]

CopiesFaithfully ==
    \A ids \in CloneIds : dirty' = alive' /\ CloneScene(ids) =>
        /\ FaithfulCopy(ids)
        /\ ids = "Regenerate" => DOMAIN byGuid' \cap DOMAIN byGuid = {}

\* A clone is the same forest, in the same order, and the next propagation
\* gives its entities the transforms it would have given their sources; they
\* are found by the same GUIDs or by none of the old ones (clone).
CloneIsFaithful == [][CopiesFaithfully]_vars

\* What WorldTransform documents: an entity that did not move between two
\* propagations has equal previous and current world transforms.
StillMeansEqual ==
    [][PropagateTransforms =>
          \A e \in alive : current'[e] = current[e] => previous'[e] = current'[e]]_vars
=============================================================================
