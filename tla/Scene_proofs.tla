---------------------------- MODULE Scene_proofs ----------------------------
(***************************************************************************)
(* However many slots and GUIDs there are and whatever is called: the      *)
(* structure of a scene, its hierarchy and GUID index, stays sound; what   *)
(* moves is marked, and a propagation brings every transform up to date; a *)
(* reparent that keeps the world transform moves what it must, no more; a  *)
(* clone is the same scene.  Of transforms no more is known than           *)
(* TransformAssumption says.                                               *)
(***************************************************************************)
EXTENDS Scene, TLAPS

\* The types of the variables the structure is made of.
Structure ==
    /\ alive \subseteq Slots
    /\ id \in [alive -> Guids]
    /\ parent \in [alive -> Slots \cup {Null}]
    /\ children \in [alive -> Seq(Slots)]

\* The inductive invariant.  None of its conjuncts is inductive alone: a link
\* that is kept at one end only, or leads to a slot that is gone, is what the
\* next reparent or destroy breaks the other conjuncts with.
SInv == Structure /\ HierarchyConsistent /\ Acyclic /\ RegistryConsistent

shape == <<alive, id, byGuid, parent, children>>

Distinct(s) == \A i, j \in DOMAIN s : s[i] = s[j] => i = j

-----------------------------------------------------------------------------
(* Lists of children. *)

\* Taking one element out of a list that holds it once (detachFromParent).
LEMMA WithoutSound ==
  ASSUME NEW S, NEW s \in Seq(S), NEW e \in Elements(s), Distinct(s)
  PROVE  /\ Without(s, e) \in Seq(S)
         /\ Elements(Without(s, e)) = Elements(s) \ {e}
         /\ Distinct(Without(s, e))
<1> DEFINE k == CHOOSE i \in DOMAIN s : s[i] = e
           w == [i \in 1..(Len(s) - 1) |-> IF i < k THEN s[i] ELSE s[i + 1]]
<1>1. DOMAIN s = 1..Len(s) /\ Len(s) \in Nat /\ \A i \in 1..Len(s) : s[i] \in S
  OBVIOUS
<1>2. k \in 1..Len(s) /\ s[k] = e
  BY <1>1 DEF Elements
<1>3. Without(s, e) = w
  BY DEF Without
<1> HIDE DEF k
<1>4. DOMAIN w = 1..(Len(s) - 1) /\ Len(s) - 1 \in Nat
  BY <1>1, <1>2
<1>5. \A i \in 1..(Len(s) - 1) : w[i] \in S
  BY <1>1, <1>2
<1>6. w \in Seq(S)
  <2>1. w \in [1..(Len(s) - 1) -> S]
    BY <1>5
  <2> HIDE DEF w
  <2> QED
    BY <2>1, <1>4
<1>7. Distinct(w)
  <2> SUFFICES ASSUME NEW i \in 1..(Len(s) - 1), NEW j \in 1..(Len(s) - 1), w[i] = w[j]
               PROVE  i = j
    BY <1>4 DEF Distinct
  <2>1. /\ w[i] = s[IF i < k THEN i ELSE i + 1]
        /\ w[j] = s[IF j < k THEN j ELSE j + 1]
    OBVIOUS
  <2>2. (IF i < k THEN i ELSE i + 1) \in 1..Len(s) /\ (IF j < k THEN j ELSE j + 1) \in 1..Len(s)
    BY <1>1, <1>2
  <2>3. (IF i < k THEN i ELSE i + 1) = (IF j < k THEN j ELSE j + 1)
    BY <2>1, <2>2, <1>1 DEF Distinct
  <2> QED
    BY <2>3, <1>1, <1>2
<1>8. Elements(w) = Elements(s) \ {e}
  <2>1. ASSUME NEW x \in Elements(w)  PROVE  x \in Elements(s) /\ x # e
    <3>1. PICK i \in 1..(Len(s) - 1) : w[i] = x
      BY <2>1, <1>4 DEF Elements
    <3>2. PICK j \in 1..Len(s) : j # k /\ s[j] = x
      BY <3>1, <1>1, <1>2
    <3> QED
      BY <3>2, <1>1, <1>2 DEF Elements, Distinct
  <2>2. ASSUME NEW x \in Elements(s), x # e  PROVE  x \in Elements(w)
    <3>1. PICK j \in 1..Len(s) : s[j] = x
      BY <1>1 DEF Elements
    <3>2. j # k
      BY <3>1, <2>2, <1>2
    <3>3. PICK i \in 1..(Len(s) - 1) : j = IF i < k THEN i ELSE i + 1
      <4>1. CASE j < k
        BY <4>1, <1>1, <1>2
      <4>2. CASE j > k
        <5>1. j - 1 \in 1..(Len(s) - 1) /\ j = IF j - 1 < k THEN j - 1 ELSE (j - 1) + 1
          BY <4>2, <1>1, <1>2
        <5> QED
          BY <5>1
      <4> QED
        BY <4>1, <4>2, <3>2, <1>1, <1>2
    <3>4. w[i] = x
      BY <3>1, <3>3
    <3> QED
      BY <3>4, <1>4 DEF Elements
  <2> QED
    BY <2>1, <2>2
<1> QED
  BY <1>3, <1>6, <1>7, <1>8

\* Whichever entity c is, detaching it leaves every list with its own children
\* but c (detachFromParent).
LEMMA ChildrenWithoutSound ==
  ASSUME Structure, HierarchyConsistent, NEW c \in alive
  PROVE  /\ ChildrenWithout(c) \in [alive -> Seq(Slots)]
         /\ \A p \in alive :
               /\ Elements(ChildrenWithout(c)[p]) = {x \in alive : parent[x] = p} \ {c}
               /\ Distinct(ChildrenWithout(c)[p])
<1>0. \A p \in alive : /\ Elements(children[p]) = {x \in alive : parent[x] = p}
                       /\ Distinct(children[p]) /\ children[p] \in Seq(Slots)
  BY DEF HierarchyConsistent, Distinct, Structure
<1>1. CASE parent[c] = Null
  <2>1. ChildrenWithout(c) = children
    BY <1>1 DEF ChildrenWithout
  <2>2. \A p \in alive : c \notin {x \in alive : parent[x] = p} \/ p = Null
    BY <1>1
  <2>3. ASSUME NEW p \in alive, p = Null  PROVE  FALSE
    BY <2>3, SceneAssumption DEF Structure
  <2> QED
    BY <2>1, <2>2, <2>3, <1>0 DEF Structure
<1>2. CASE parent[c] # Null
  <2> DEFINE q == parent[c]
  <2>1. q \in alive /\ c \in Elements(children[q])
    BY <1>0, <1>2 DEF HierarchyConsistent
  <2>2. ChildrenWithout(c) = [children EXCEPT ![q] = Without(children[q], c)]
    BY <1>2 DEF ChildrenWithout
  <2>3. /\ Without(children[q], c) \in Seq(Slots)
        /\ Elements(Without(children[q], c)) = Elements(children[q]) \ {c}
        /\ Distinct(Without(children[q], c))
    BY <2>1, <1>0, WithoutSound
  <2>4. ChildrenWithout(c) \in [alive -> Seq(Slots)]
    BY <2>2, <2>3, <2>1 DEF Structure
  <2>5. ASSUME NEW p \in alive
        PROVE  /\ Elements(ChildrenWithout(c)[p]) = {x \in alive : parent[x] = p} \ {c}
               /\ Distinct(ChildrenWithout(c)[p])
    <3>1. CASE p = q
      <4>1. ChildrenWithout(c)[p] = Without(children[q], c)
        BY <3>1, <2>2, <2>1 DEF Structure
      <4> QED
        BY <4>1, <3>1, <2>3, <2>1, <1>0
    <3>2. CASE p # q
      <4>1. ChildrenWithout(c)[p] = children[p]
        BY <3>2, <2>2, <2>1 DEF Structure
      <4> QED
        BY <4>1, <3>2, <1>0
    <3> QED
      BY <3>1, <3>2
  <2> QED
    BY <2>4, <2>5
<1> QED
  BY <1>1, <1>2

-----------------------------------------------------------------------------
(* Walks. *)

\* The recursion over the child lists is closed, and what it reaches besides
\* its start it reaches through a parent (destroyRecursive).
LEMMA BelowSound ==
  ASSUME Structure, HierarchyConsistent, NEW e \in alive
  PROVE  /\ Below(e) \subseteq alive /\ e \in Below(e)
         /\ \A x \in alive : parent[x] \in Below(e) => x \in Below(e)
         /\ \A x \in Below(e) : x = e \/ parent[x] \in Below(e)
<1>1. Below(e) \subseteq alive /\ e \in Below(e)
  BY DEF Below
<1>2. \A x, y \in alive : x \in Elements(children[y]) <=> parent[x] = y
  BY DEF HierarchyConsistent
<1>3. ASSUME NEW x \in alive, parent[x] \in Below(e)  PROVE  x \in Below(e)
  <2> SUFFICES ASSUME NEW S \in SUBSET alive, e \in S, ClosedDown(S)  PROVE  x \in S
    BY DEF Below
  <2>1. parent[x] \in S /\ parent[x] \in alive
    BY <1>3 DEF Below
  <2> QED
    BY <2>1, <1>2 DEF ClosedDown
<1>4. ASSUME NEW x \in Below(e)  PROVE  x = e \/ parent[x] \in Below(e)
  <2> DEFINE S == {d \in Below(e) : d = e \/ parent[d] \in Below(e)}
  <2>1. S \in SUBSET alive /\ e \in S
    BY <1>1
  <2>2. ClosedDown(S)
    <3> SUFFICES ASSUME NEW d \in S, NEW y \in Elements(children[d]) \cap alive
                 PROVE  y \in S
      BY DEF ClosedDown
    <3>1. parent[y] = d /\ d \in Below(e)
      BY <1>1, <1>2
    <3>2. y \in Below(e)
      BY <3>1, <1>3
    <3> QED
      BY <3>1, <3>2
  <2>3. x \in S
    BY <2>1, <2>2, <1>4 DEF Below
  <2> QED
    BY <2>3
<1> QED
  BY <1>1, <1>3, <1>4

-----------------------------------------------------------------------------
(* The initial state and the actions. *)

LEMMA InitInv == Init => SInv
<1> SUFFICES ASSUME Init  PROVE  SInv
  OBVIOUS
<1>1. /\ alive = {} /\ DOMAIN id = {} /\ DOMAIN byGuid = {}
      /\ DOMAIN parent = {} /\ DOMAIN children = {}
  BY DEF Init, Empty
<1>2. Structure
  BY DEF Structure, Init, Empty
<1> QED
  BY <1>1, <1>2 DEF SInv, HierarchyConsistent, Acyclic, RegistryConsistent

\* Moving entities and propagating leave the structure alone.
LEMMA ShapeKept == SInv /\ UNCHANGED shape => SInv'
<1> SUFFICES ASSUME SInv, UNCHANGED shape  PROVE  SInv'
  OBVIOUS
<1>1. /\ alive' = alive /\ id' = id /\ byGuid' = byGuid
      /\ parent' = parent /\ children' = children
  BY DEF shape
<1>2. Structure' /\ Acyclic' /\ RegistryConsistent'
  <2>1. Structure'
    BY <1>1 DEF SInv, Structure
  <2>2. Acyclic'
    BY <1>1 DEF SInv, Acyclic
  <2>3. RegistryConsistent'
    BY <1>1 DEF SInv, RegistryConsistent
  <2> QED
    BY <2>1, <2>2, <2>3
<1>3. HierarchyConsistent'
  BY <1>1 DEF SInv, HierarchyConsistent, Elements
<1> QED
  BY <1>2, <1>3 DEF SInv

LEMMA CreateInv ==
  ASSUME SInv, NEW g \in Guids, NEW e \in Slots, CreateWithGuid(g, e)
  PROVE  SInv'
<1>1. /\ e \notin alive /\ alive' = alive \cup {e} /\ g \notin DOMAIN byGuid
      /\ id' = Extend(id, e, g) /\ byGuid' = Extend(byGuid, g, e)
      /\ parent' = Extend(parent, e, Null) /\ children' = Extend(children, e, <<>>)
  BY DEF CreateWithGuid
<1>2. /\ DOMAIN id = alive /\ DOMAIN parent = alive /\ DOMAIN children = alive
      /\ Null \notin alive
  BY SceneAssumption DEF SInv, Structure
<1>3. /\ id'[e] = g /\ parent'[e] = Null /\ children'[e] = <<>>
      /\ \A x \in alive : id'[x] = id[x] /\ parent'[x] = parent[x] /\ children'[x] = children[x]
  BY <1>1, <1>2 DEF Extend
<1>4. Structure'
  <2>1. \A x \in alive' : /\ id'[x] \in Guids /\ parent'[x] \in Slots \cup {Null}
                          /\ children'[x] \in Seq(Slots)
    <3>1. <<>> \in Seq(Slots)
      OBVIOUS
    <3>2. \A x \in alive : /\ id[x] \in Guids /\ parent[x] \in Slots \cup {Null}
                           /\ children[x] \in Seq(Slots)
      BY DEF SInv, Structure
    <3> QED
      BY <3>1, <3>2, <1>1, <1>3
  <2>2. /\ id' = [x \in alive' |-> id'[x]] /\ parent' = [x \in alive' |-> parent'[x]]
        /\ children' = [x \in alive' |-> children'[x]]
    BY <1>1, <1>2 DEF Extend
  <2> QED
    BY <2>1, <2>2, <1>1 DEF SInv, Structure
<1>5. HierarchyConsistent'
  <2>1. \A x \in alive : parent[x] # e
    BY <1>1, SceneAssumption DEF SInv, HierarchyConsistent
  <2>2. Elements(<<>>) = {} /\ DOMAIN <<>> = {}
    BY DEF Elements
  <2>3. ASSUME NEW c \in alive', parent'[c] # Null  PROVE  parent'[c] \in alive'
    BY <2>3, <1>1, <1>3 DEF SInv, HierarchyConsistent
  <2>4. ASSUME NEW p \in alive'
        PROVE  /\ Elements(children'[p]) = {c \in alive' : parent'[c] = p}
               /\ Distinct(children'[p])
    <3>1. CASE p = e
      <4>1. \A c \in alive' : parent'[c] # e
        BY <2>1, <1>1, <1>3, SceneAssumption
      <4> QED
        BY <3>1, <4>1, <2>2, <1>3 DEF Distinct
    <3>2. CASE p \in alive
      <4>1. {c \in alive' : parent'[c] = p} = {c \in alive : parent[c] = p}
        BY <3>2, <1>1, <1>2, <1>3
      <4>2. children'[p] = children[p]
        BY <3>2, <1>3
      <4> QED
        BY <3>2, <4>1, <4>2 DEF SInv, HierarchyConsistent, Distinct
    <3> QED
      BY <3>1, <3>2, <1>1
  <2> QED
    BY <2>3, <2>4 DEF HierarchyConsistent, Elements, Distinct
<1>6. Acyclic'
  <2> SUFFICES ASSUME NEW S \in SUBSET alive', S # {}
               PROVE  \E x \in S : parent'[x] \notin S
    BY DEF Acyclic
  <2>1. CASE e \in S
    BY <2>1, <1>1, <1>2, <1>3, SceneAssumption
  <2>2. CASE e \notin S
    <3>1. S \in SUBSET alive
      BY <2>2, <1>1
    <3>2. PICK x \in S : parent[x] \notin S
      BY <3>1 DEF SInv, Acyclic
    <3> QED
      BY <3>1, <3>2, <1>3
  <2> QED
    BY <2>1, <2>2
<1>7. RegistryConsistent'
  <2>1. DOMAIN byGuid' = DOMAIN byGuid \cup {g}
    BY <1>1 DEF Extend
  <2>2. byGuid'[g] = e /\ \A h \in DOMAIN byGuid : byGuid'[h] = byGuid[h]
    BY <1>1 DEF Extend
  <2>3. DOMAIN byGuid' = {id'[x] : x \in alive'}
    BY <2>1, <1>1, <1>3 DEF SInv, RegistryConsistent
  <2>4. \A h \in DOMAIN byGuid' : byGuid'[h] \in alive' /\ id'[byGuid'[h]] = h
    BY <2>1, <2>2, <1>1, <1>3 DEF SInv, RegistryConsistent
  <2>5. \A x \in alive' : byGuid'[id'[x]] = x
    BY <2>1, <2>2, <1>1, <1>3 DEF SInv, RegistryConsistent
  <2> QED
    BY <2>3, <2>4, <2>5 DEF RegistryConsistent
<1> QED
  BY <1>4, <1>5, <1>6, <1>7 DEF SInv

\* What is below a destroyed entity goes with it, links and GUIDs included.
LEMMA DestroyInv ==
  ASSUME SInv, NEW e \in Slots, Destroy(e)
  PROVE  SInv'
<1> DEFINE gone == Below(e)
<1>1. /\ e \in alive /\ alive' = alive \ gone
      /\ id' = Only(id, alive') /\ byGuid' = Only(byGuid, DOMAIN byGuid \ Forgotten(e))
      /\ parent' = Only(parent, alive') /\ children' = Only(ChildrenWithout(e), alive')
  BY DEF Destroy
<1>2. /\ gone \subseteq alive /\ e \in gone
      /\ \A x \in alive : parent[x] \in gone => x \in gone
      /\ \A x \in gone : x = e \/ parent[x] \in gone
  BY <1>1, BelowSound DEF SInv
<1>3. /\ ChildrenWithout(e) \in [alive -> Seq(Slots)]
      /\ \A p \in alive :
            /\ Elements(ChildrenWithout(e)[p]) = {x \in alive : parent[x] = p} \ {e}
            /\ Distinct(ChildrenWithout(e)[p])
  BY <1>1, ChildrenWithoutSound DEF SInv
<1> HIDE DEF gone
<1>4. \A x \in alive' : /\ id'[x] = id[x] /\ parent'[x] = parent[x]
                        /\ children'[x] = ChildrenWithout(e)[x]
  BY <1>1 DEF Only
<1>5. Structure'
  <2>1. \A x \in alive' : /\ id[x] \in Guids /\ parent[x] \in Slots \cup {Null}
                          /\ ChildrenWithout(e)[x] \in Seq(Slots)
    BY <1>1, <1>3 DEF SInv, Structure
  <2> QED
    BY <2>1, <1>1 DEF SInv, Structure, Only
<1>6. HierarchyConsistent'
  <2>1. ASSUME NEW c \in alive', parent'[c] # Null  PROVE  parent'[c] \in alive'
    BY <2>1, <1>1, <1>2, <1>4 DEF SInv, HierarchyConsistent
  <2>2. ASSUME NEW p \in alive'
        PROVE  /\ Elements(children'[p]) = {c \in alive' : parent'[c] = p}
               /\ Distinct(children'[p])
    <3>1. {c \in alive' : parent'[c] = p} = {x \in alive : parent[x] = p} \ {e}
      BY <1>1, <1>2, <1>4
    <3> QED
      BY <3>1, <1>1, <1>3, <1>4
  <2> QED
    BY <2>1, <2>2 DEF HierarchyConsistent, Elements, Distinct
<1>7. Acyclic'
  <2> SUFFICES ASSUME NEW S \in SUBSET alive', S # {}
               PROVE  \E x \in S : parent'[x] \notin S
    BY DEF Acyclic
  <2>1. S \in SUBSET alive
    BY <1>1
  <2>2. PICK x \in S : parent[x] \notin S
    BY <2>1 DEF SInv, Acyclic
  <2> QED
    BY <2>2, <1>4
<1>8. RegistryConsistent'
  <2>1. \A h \in DOMAIN byGuid : h \in Forgotten(e) <=> byGuid[h] \in gone
    BY <1>2 DEF SInv, RegistryConsistent, Forgotten, gone
  <2>2. \A h \in DOMAIN byGuid' : h \in DOMAIN byGuid /\ byGuid'[h] = byGuid[h] /\ byGuid[h] \in alive'
    BY <1>1, <2>1 DEF SInv, RegistryConsistent, Only
  <2>3. \A x \in alive' : id[x] \in DOMAIN byGuid' /\ byGuid'[id[x]] = x
    BY <1>1, <2>1 DEF SInv, RegistryConsistent, Only
  <2>4. DOMAIN byGuid' = {id'[x] : x \in alive'}
    BY <2>2, <2>3, <1>4 DEF SInv, RegistryConsistent
  <2> QED
    BY <2>2, <2>3, <2>4, <1>4 DEF SInv, RegistryConsistent
<1> QED
  BY <1>5, <1>6, <1>7, <1>8 DEF SInv

\* setParent() in all its forms: c loses its parent and q, when there is one,
\* is not c and not below it.
LEMMA RelinkInv ==
  ASSUME SInv, NEW c \in alive, NEW q \in alive \cup {Null},
         q # Null => MayParent(c, q),
         parent' = [parent EXCEPT ![c] = q],
         children' = IF q = Null THEN ChildrenWithout(c)
                     ELSE [ChildrenWithout(c) EXCEPT ![q] = Append(@, c)],
         alive' = alive, id' = id, byGuid' = byGuid
  PROVE  SInv'
<1>1. /\ ChildrenWithout(c) \in [alive -> Seq(Slots)]
      /\ \A p \in alive :
            /\ Elements(ChildrenWithout(c)[p]) = {x \in alive : parent[x] = p} \ {c}
            /\ Distinct(ChildrenWithout(c)[p])
  BY ChildrenWithoutSound DEF SInv
<1>2. /\ alive \subseteq Slots /\ Null \notin alive
      /\ parent \in [alive -> Slots \cup {Null}]
  BY SceneAssumption DEF SInv, Structure
<1>3. parent'[c] = q /\ \A x \in alive \ {c} : parent'[x] = parent[x]
  BY <1>2
<1>4. ASSUME NEW s \in Seq(Slots), c \notin Elements(s), Distinct(s)
      PROVE  /\ Append(s, c) \in Seq(Slots) /\ Distinct(Append(s, c))
             /\ Elements(Append(s, c)) = Elements(s) \cup {c}
  <2> DEFINE t == Append(s, c)
             n == Len(s)
  <2>1. n \in Nat /\ DOMAIN s = 1..n
    OBVIOUS
  <2>2. t \in Seq(Slots) /\ DOMAIN t = 1..(n + 1)
    BY <1>2
  <2>3. t[n + 1] = c /\ \A i \in 1..n : t[i] = s[i]
    BY <1>2
  <2>4. \A i \in 1..n : s[i] # c
    BY <1>4, <2>1 DEF Elements
  <2>5. \A i \in 1..(n + 1) : i \in 1..n \/ i = n + 1
    BY <2>1
  <2> HIDE DEF t, n
  <2>6. Distinct(t)
    BY <1>4, <2>1, <2>2, <2>3, <2>4, <2>5 DEF Distinct
  <2>7. Elements(t) = Elements(s) \cup {c}
    <3>1. 1..n \subseteq 1..(n + 1) /\ n + 1 \in 1..(n + 1)
      BY <2>1
    <3> QED
      BY <3>1, <2>1, <2>2, <2>3, <2>5 DEF Elements
  <2> QED
    BY <2>2, <2>6, <2>7 DEF t
<1>5. /\ children' \in [alive -> Seq(Slots)]
      /\ \A p \in alive : /\ Elements(children'[p]) = {x \in alive : parent'[x] = p}
                         /\ Distinct(children'[p])
  <2>1. CASE q = Null
    <3>1. \A p \in alive : {x \in alive : parent[x] = p} \ {c} = {x \in alive : parent'[x] = p}
      BY <2>1, <1>2, <1>3
    <3> QED
      BY <2>1, <3>1, <1>1
  <2>2. CASE q # Null
    <3>1. q \in alive /\ children' = [ChildrenWithout(c) EXCEPT ![q] = Append(ChildrenWithout(c)[q], c)]
      BY <2>2
    <3>2. /\ Append(ChildrenWithout(c)[q], c) \in Seq(Slots)
          /\ Distinct(Append(ChildrenWithout(c)[q], c))
          /\ Elements(Append(ChildrenWithout(c)[q], c)) = Elements(ChildrenWithout(c)[q]) \cup {c}
      BY <3>1, <1>1, <1>4
    <3>3. children'[q] = Append(ChildrenWithout(c)[q], c)
      BY <3>1, <1>1
    <3>4. \A p \in alive : p # q => children'[p] = ChildrenWithout(c)[p]
      BY <3>1, <1>1
    <3>5. children' \in [alive -> Seq(Slots)]
      BY <3>1, <3>2, <1>1
    <3>6. {x \in alive : parent'[x] = q} = ({x \in alive : parent[x] = q} \ {c}) \cup {c}
      BY <1>3
    <3>7. \A p \in alive : p # q =>
            {x \in alive : parent'[x] = p} = {x \in alive : parent[x] = p} \ {c}
      BY <1>3
    <3> QED
      BY <3>2, <3>3, <3>4, <3>5, <3>6, <3>7, <1>1, <3>1
  <2> QED
    BY <2>1, <2>2
<1>6. Structure'
  BY <1>2, <1>5 DEF SInv, Structure
<1>7. HierarchyConsistent'
  <2>1. ASSUME NEW x \in alive', parent'[x] # Null  PROVE  parent'[x] \in alive'
    BY <2>1, <1>3 DEF SInv, HierarchyConsistent
  <2> QED
    BY <2>1, <1>5 DEF HierarchyConsistent, Elements, Distinct
<1>8. Acyclic'
  <2> SUFFICES ASSUME NEW S \in SUBSET alive, S # {}
               PROVE  \E x \in S : parent'[x] \notin S
    BY DEF Acyclic
  <2>1. PICK y \in S : parent[y] \notin S
    BY DEF SInv, Acyclic
  <2>2. CASE q = Null
    BY <2>1, <2>2, <1>2, <1>3
  <2>3. CASE q # Null
    \* U holds q and everything above it, and not c.
    <3>1. PICK U \in SUBSET alive : q \in U /\ ClosedUp(U) /\ c \notin U
      BY <2>3 DEF MayParent, Above
    <3>2. CASE S \cap U # {}
      <4>1. PICK x \in S \cap U : parent[x] \notin S \cap U
        BY <3>2 DEF SInv, Acyclic
      <4>2. parent'[x] = parent[x]
        BY <4>1, <3>1, <1>3
      <4>3. parent[x] = Null \/ parent[x] \in U
        BY <4>1, <3>1 DEF ClosedUp
      <4> QED
        BY <4>1, <4>2, <4>3, <1>2
    <3>3. CASE S \cap U = {}
      <4>1. CASE c \in S
        BY <4>1, <3>1, <3>3, <1>3
      <4>2. CASE c \notin S
        BY <4>2, <2>1, <1>3
      <4> QED
        BY <4>1, <4>2
    <3> QED
      BY <3>2, <3>3
  <2> QED
    BY <2>2, <2>3
<1>9. RegistryConsistent'
  BY DEF SInv, RegistryConsistent
<1> QED
  BY <1>6, <1>7, <1>8, <1>9 DEF SInv

\* A clone is the image of the scene under two injections, and so is as sound.
LEMMA CloneInv ==
  ASSUME SInv, NEW remap \in Injections(alive, Slots), NEW newId \in Injections(alive, Guids),
         Clone(remap, newId)
  PROVE  SInv'
<1> DEFINE source(s) == CHOOSE e \in alive : remap[e] = s
           linked(s) == [i \in DOMAIN children[s] |-> remap[children[s][i]]]
<1>1. /\ remap \in [alive -> Slots] /\ \A x, y \in alive : remap[x] = remap[y] => x = y
      /\ newId \in [alive -> Guids] /\ \A x, y \in alive : newId[x] = newId[y] => x = y
  BY DEF Injections
<1>2. /\ alive' = {remap[e] : e \in alive}
      /\ id' = [s \in alive' |-> newId[source(s)]]
      /\ byGuid' = [g \in {newId[e] : e \in alive} |->
                      remap[CHOOSE e \in alive : newId[e] = g]]
      /\ parent' = [s \in alive' |-> RemapLink(parent[source(s)], remap)]
      /\ children' = [s \in alive' |-> linked(source(s))]
  BY DEF Clone
<1>3. /\ Null \notin alive /\ Null \notin alive' /\ alive' \subseteq Slots
      /\ \A e \in alive : parent[e] = Null \/ parent[e] \in alive
  BY <1>1, <1>2, SceneAssumption DEF SInv, Structure, HierarchyConsistent
<1>4. \A e \in alive : source(remap[e]) = e
  BY <1>1
<1>5. \A e \in alive : (CHOOSE x \in alive : newId[x] = newId[e]) = e
  BY <1>1
<1> HIDE DEF source
<1>6. \A e \in alive : /\ remap[e] \in alive' /\ id'[remap[e]] = newId[e]
                      /\ parent'[remap[e]] = RemapLink(parent[e], remap)
                      /\ children'[remap[e]] = linked(e)
                      /\ byGuid'[newId[e]] = remap[e]
  BY <1>2, <1>4, <1>5
<1>7. ASSUME NEW e \in alive
      PROVE  /\ linked(e) \in Seq(Slots) /\ Distinct(linked(e))
             /\ Elements(linked(e)) = {remap[x] : x \in {y \in alive : parent[y] = e}}
  <2>1. /\ children[e] \in Seq(Slots) /\ Distinct(children[e])
        /\ Elements(children[e]) = {y \in alive : parent[y] = e}
    BY DEF SInv, Structure, HierarchyConsistent, Distinct
  <2>2. PICK n \in Nat : DOMAIN children[e] = 1..n
    BY <2>1
  <2>3. \A i \in 1..n : children[e][i] \in alive
    BY <2>1, <2>2 DEF Elements
  <2>4. linked(e) \in [1..n -> Slots]
    BY <2>2, <2>3, <1>1
  <2>5. linked(e) \in Seq(Slots)
    BY <2>4
  <2>6. Distinct(linked(e))
    BY <2>1, <2>2, <2>3, <1>1 DEF Distinct
  <2>7. Elements(linked(e)) = {remap[x] : x \in Elements(children[e])}
    BY <2>2 DEF Elements
  <2> QED
    BY <2>1, <2>5, <2>6, <2>7
<1>8. \A x, y \in alive : parent'[remap[x]] = remap[y] <=> parent[x] = y
  <2> SUFFICES ASSUME NEW x \in alive, NEW y \in alive
               PROVE  parent'[remap[x]] = remap[y] <=> parent[x] = y
    OBVIOUS
  <2>1. parent'[remap[x]] = RemapLink(parent[x], remap) /\ remap[y] # Null /\ y # Null
    BY <1>3, <1>6
  <2>2. CASE parent[x] = Null
    <3>1. RemapLink(parent[x], remap) = Null
      BY <2>2 DEF RemapLink
    <3> QED
      BY <2>1, <2>2, <3>1
  <2>3. CASE parent[x] \in alive
    <3>1. RemapLink(parent[x], remap) = remap[parent[x]]
      BY <2>3, <1>3 DEF RemapLink
    <3> QED
      BY <2>1, <2>3, <3>1, <1>1
  <2> QED
    BY <1>3, <2>2, <2>3
<1> HIDE DEF linked
<1>9. Structure'
  <2>1. \A e \in alive : RemapLink(parent[e], remap) \in Slots \cup {Null}
    BY <1>1, <1>3 DEF RemapLink
  <2>2. \A s \in alive' : /\ newId[source(s)] \in Guids /\ linked(source(s)) \in Seq(Slots)
                          /\ RemapLink(parent[source(s)], remap) \in Slots \cup {Null}
    BY <1>1, <1>2, <1>4, <1>7, <2>1
  <2>3. id' \in [alive' -> Guids] /\ parent' \in [alive' -> Slots \cup {Null}]
    BY <1>2, <2>2
  <2>4. children' \in [alive' -> Seq(Slots)]
    BY <1>2, <2>2
  <2> QED
    BY <1>3, <2>3, <2>4 DEF Structure
<1>10. HierarchyConsistent'
  <2>1. ASSUME NEW c \in alive', parent'[c] # Null  PROVE  parent'[c] \in alive'
    <3>1. PICK e \in alive : c = remap[e]
      BY <1>2
    <3> QED
      BY <2>1, <3>1, <1>3, <1>6 DEF RemapLink
  <2>2. ASSUME NEW p \in alive'
        PROVE  /\ Elements(children'[p]) = {c \in alive' : parent'[c] = p}
               /\ Distinct(children'[p])
    <3>1. PICK e \in alive : p = remap[e]
      BY <1>2
    <3>2. {c \in alive' : parent'[c] = p} = {remap[x] : x \in {y \in alive : parent[y] = e}}
      BY <3>1, <1>2, <1>8
    <3> QED
      BY <3>1, <3>2, <1>6, <1>7
  <2> QED
    BY <2>1, <2>2 DEF HierarchyConsistent, Elements, Distinct
<1>11. Acyclic'
  <2> SUFFICES ASSUME NEW S \in SUBSET alive', S # {}
               PROVE  \E x \in S : parent'[x] \notin S
    BY DEF Acyclic
  <2> DEFINE T == {e \in alive : remap[e] \in S}
  <2>1. T \in SUBSET alive /\ T # {}
    BY <1>2
  <2>2. PICK e \in T : parent[e] \notin T
    BY <2>1 DEF SInv, Acyclic
  <2>3. parent'[remap[e]] = RemapLink(parent[e], remap)
    BY <2>2, <1>6
  <2>4. parent'[remap[e]] \notin S
    BY <2>2, <2>3, <1>3 DEF RemapLink
  <2> QED
    BY <2>2, <2>4
<1>12. RegistryConsistent'
  <2>1. DOMAIN byGuid' = {newId[e] : e \in alive}
    BY <1>2
  <2>2. {id'[s] : s \in alive'} = {newId[e] : e \in alive}
    <3>1. ASSUME NEW s \in alive'  PROVE  \E e \in alive : id'[s] = newId[e]
      <4>1. PICK e \in alive : s = remap[e]
        BY <1>2
      <4> QED
        BY <4>1, <1>6
    <3>2. ASSUME NEW e \in alive  PROVE  \E s \in alive' : id'[s] = newId[e]
      BY <1>6
    <3> QED
      BY <3>1, <3>2
  <2>3. \A g \in DOMAIN byGuid' : byGuid'[g] \in alive' /\ id'[byGuid'[g]] = g
    BY <2>1, <1>6
  <2>4. ASSUME NEW s \in alive'  PROVE  byGuid'[id'[s]] = s
    <3>1. PICK e \in alive : s = remap[e]
      BY <1>2
    <3> QED
      BY <3>1, <1>6
  <2> QED
    BY <2>1, <2>2, <2>3, <2>4 DEF RegistryConsistent
<1> QED
  BY <1>9, <1>10, <1>11, <1>12 DEF SInv

\* Whatever identities a clone is given, no two are the same.
LEMMA NewIdsDistinct ==
  ASSUME SInv, NEW ids, NEW newId \in NewIds(ids)
  PROVE  newId \in Injections(alive, Guids)
<1>1. CASE ids = "Preserve"
  <2>1. newId = [e \in alive |-> id[e]]
    BY <1>1 DEF NewIds
  <2>2. \A x, y \in alive : id[x] = id[y] => x = y
    BY DEF SInv, RegistryConsistent
  <2> QED
    BY <2>1, <2>2 DEF Injections, SInv, Structure
<1>2. CASE ids # "Preserve"
  BY <1>2 DEF NewIds, Injections
<1> QED
  BY <1>1, <1>2

-----------------------------------------------------------------------------
(* The whole step. *)

LEMMA NextInv == SInv /\ [Next]_vars => SInv'
<1> SUFFICES ASSUME SInv, [Next]_vars  PROVE  SInv'
  OBVIOUS
<1>1. CASE UNCHANGED vars
  BY <1>1, ShapeKept DEF vars, shape
<1>2. ASSUME NEW g \in Guids, CreateDuplicate(g)  PROVE  SInv'
  BY <1>2, ShapeKept DEF CreateDuplicate, vars, shape
<1>3. ASSUME NEW g \in Guids, NEW e \in Slots, CreateWithGuid(g, e)  PROVE  SInv'
  BY <1>3, CreateInv
<1>4. ASSUME NEW e \in Slots, Destroy(e)  PROVE  SInv'
  BY <1>4, DestroyInv
<1>5. ASSUME NEW e \in Slots, NEW mode \in Modes, Unparent(e, mode)  PROVE  SInv'
  <2>1. /\ e \in alive /\ parent' = [parent EXCEPT ![e] = Null] /\ children' = ChildrenWithout(e)
        /\ alive' = alive /\ id' = id /\ byGuid' = byGuid
    BY <1>5 DEF Unparent
  <2> QED
    BY <2>1, RelinkInv
<1>6. ASSUME NEW e \in Slots, NEW p \in Slots, NEW mode \in Modes, SetParent(e, p, mode)
      PROVE  SInv'
  <2>1. /\ e \in alive /\ p \in alive /\ MayParent(e, p)
        /\ parent' = [parent EXCEPT ![e] = p]
        /\ children' = [ChildrenWithout(e) EXCEPT ![p] = Append(@, e)]
        /\ alive' = alive /\ id' = id /\ byGuid' = byGuid
    BY <1>6 DEF SetParent
  <2>2. p # Null
    BY SceneAssumption
  <2> QED
    BY <2>1, <2>2, RelinkInv
<1>7. ASSUME NEW e \in Slots, NEW t \in Transforms, SetLocalTransform(e, t)  PROVE  SInv'
  BY <1>7, ShapeKept DEF SetLocalTransform, shape, links
<1>8. CASE PropagateTransforms
  BY <1>8, ShapeKept DEF PropagateTransforms, shape, links
<1>9. ASSUME NEW ids \in CloneIds, CloneScene(ids)  PROVE  SInv'
  <2>1. PICK remap \in Injections(alive, Slots), newId \in NewIds(ids) : Clone(remap, newId)
    BY <1>9 DEF CloneScene
  <2>2. newId \in Injections(alive, Guids)
    BY <2>1, NewIdsDistinct
  <2> QED
    BY <2>1, <2>2, CloneInv
<1> QED
  BY <1>1, <1>2, <1>3, <1>4, <1>5, <1>6, <1>7, <1>8, <1>9 DEF Next

LEMMA SpecInv == Spec => []SInv
BY InitInv, NextInv, PTL DEF Spec

-----------------------------------------------------------------------------
(* Transforms and matrices. *)

LEMMA IdentityTransform == Identity \in Transforms /\ Identity \in Matrices
BY TransformAssumption

LEMMA ComposeSound ==
  ASSUME NEW a \in Matrices, NEW b \in Matrices
  PROVE  Compose(a, b) \in Matrices
BY TransformAssumption

LEMMA SolveSound ==
  ASSUME NEW w \in Matrices, NEW v \in Matrices
  PROVE  Solve(w, v) \in Transforms
BY TransformAssumption DEF Solve

\* What applyWorldTransform() solves for puts the origin where `w` has it.
LEMMA SolveOrigin ==
  ASSUME NEW w \in Matrices, NEW v \in Matrices, Regular(v)
  PROVE  Origin(Compose(Solve(w, v), v)) = Origin(w)
<1> DEFINE a == Compose(w, Inverse(v))
<1>1. a \in Matrices /\ Solve(w, v) = Decomposed(a)
  BY TransformAssumption DEF Solve
<1>2. Compose(a, v) = w
  <2>1. Compose(a, v) = Compose(w, Compose(Inverse(v), v))
    BY TransformAssumption
  <2> QED
    BY <2>1, TransformAssumption DEF Regular
<1> HIDE DEF a
<1> QED
  BY <1>1, <1>2, TransformAssumption

\* Where an unmirrored transform would do, that is what it solves for.
LEMMA SolveClean ==
  ASSUME NEW t \in Clean, NEW v \in Matrices, Regular(v)
  PROVE  Solve(Compose(t, v), v) = t
<1>1. t \in Matrices
  BY TransformAssumption
<1>2. Compose(Compose(t, v), Inverse(v)) = Compose(t, Compose(v, Inverse(v)))
  BY <1>1, TransformAssumption
<1>3. Compose(Compose(t, v), Inverse(v)) = t
  BY <1>1, <1>2, TransformAssumption DEF Regular
<1> QED
  BY <1>3, TransformAssumption DEF Solve

-----------------------------------------------------------------------------
(* Marks and the walk that hands them down. *)

\* An entity is stale by its own mark or by its parent's staleness
\* (propagateSubtree).
LEMMA StaleHandedDown ==
  ASSUME SInv, NEW e \in alive
  PROVE  Stale(e) <=> e \in dirty \/ (parent[e] # Null /\ Stale(parent[e]))
<1>1. Null \notin alive /\ (parent[e] # Null => parent[e] \in alive)
  BY SceneAssumption DEF SInv, Structure, HierarchyConsistent
<1>2. e \in Above(e)
  BY DEF Above
<1>3. CASE parent[e] = Null
  <2>1. ClosedUp({e})
    BY <1>3 DEF ClosedUp
  <2>2. Above(e) = {e}
    BY <2>1, <1>2 DEF Above
  <2> QED
    BY <2>2, <1>3 DEF Stale
<1>4. CASE parent[e] # Null
  <2> DEFINE p == parent[e]
             U == Above(p) \cup {e}
  <2>1. Above(p) \subseteq Above(e)
    BY <1>4 DEF Above, ClosedUp
  <2>2. ASSUME NEW a \in Above(p), parent[a] # Null  PROVE  parent[a] \in Above(p)
    <3>1. parent[a] \in alive
      BY <2>2 DEF Above, SInv, HierarchyConsistent
    <3> QED
      BY <2>2, <3>1 DEF Above, ClosedUp
  <2>3. p \in Above(p)
    BY <1>1, <1>4 DEF Above
  <2>4. ClosedUp(U) /\ U \in SUBSET alive /\ e \in U
    BY <2>2, <2>3 DEF ClosedUp, Above
  <2>5. Above(e) \subseteq U
    BY <2>4 DEF Above
  <2>6. Above(e) = U
    BY <2>1, <2>5, <1>2
  <2> QED
    BY <2>6, <1>4 DEF Stale
<1> QED
  BY <1>3, <1>4

\* A step that leaves whatever it does not mark as it was takes no one's
\* staleness away.
Untouched ==
    \A x \in alive' \ dirty' :
        /\ x \in alive \ dirty
        /\ parent'[x] = parent[x] /\ local'[x] = local[x] /\ current'[x] = current[x]

LEMMA StaleStays ==
  ASSUME SInv, SInv', Untouched, NEW e \in alive', ~Stale(e)'
  PROVE  /\ e \in alive' \ dirty' /\ e \in alive /\ ~Stale(e)
         /\ parent'[e] # Null => parent'[e] \in alive' \ dirty'
<1> DEFINE U == {a \in alive' : \A S \in SUBSET alive' :
                    e \in S /\ (\A x \in S : parent'[x] # Null => parent'[x] \in S) => a \in S}
<1>1. U \cap dirty' = {}
  BY DEF Stale, Above, ClosedUp
<1>2. e \in U
  OBVIOUS
<1>3. \A x \in U : parent'[x] # Null => parent'[x] \in U
  BY DEF SInv, HierarchyConsistent
<1> HIDE DEF U
<1>4. U \subseteq alive' \ dirty'
  BY <1>1 DEF U
<1>5. /\ U \in SUBSET alive /\ U \cap dirty = {}
      /\ \A x \in U : parent[x] # Null => parent[x] \in U
  BY <1>3, <1>4 DEF Untouched
<1>6. Above(e) \subseteq U
  BY <1>2, <1>5 DEF Above, ClosedUp
<1> QED
  BY <1>2, <1>3, <1>4, <1>5, <1>6 DEF Stale

\* So a step like that leaves no transform out of date and unmarked.
LEMMA MarksKept ==
  ASSUME SInv, SInv', WorldsMarked, Untouched
  PROVE  WorldsMarked'
<1> SUFFICES ASSUME NEW e \in alive', ~Stale(e)'
             PROVE  current'[e] = Compose(local'[e], IF parent'[e] = Null THEN Identity
                                                     ELSE current'[parent'[e]])
  BY DEF WorldsMarked, ParentWorld
<1>1. e \in alive' \ dirty' /\ e \in alive /\ ~Stale(e)
  BY StaleStays
<1>2. parent'[e] = parent[e] /\ local'[e] = local[e] /\ current'[e] = current[e]
  BY <1>1 DEF Untouched
<1>3. current[e] = Compose(local[e], IF parent[e] = Null THEN Identity ELSE current[parent[e]])
  BY <1>1 DEF WorldsMarked, ParentWorld
<1>4. CASE parent[e] = Null
  BY <1>2, <1>3, <1>4
<1>5. CASE parent[e] # Null
  <2>1. current'[parent'[e]] = current[parent[e]]
    BY <1>2, <1>5, StaleStays DEF Untouched
  <2> QED
    BY <1>2, <1>3, <1>5, <2>1
<1> QED
  BY <1>4, <1>5

-----------------------------------------------------------------------------
(* What one propagation computes. *)

\* What propagateSubtree() gives e when g is what it gave the parents.
Given(e, g) ==
    IF ~Stale(e) THEN current[e]
    ELSE Compose(local[e], IF parent[e] = Null THEN Identity ELSE g[parent[e]])

\* g is what the recursion gives all of S.
Solves(g, S) == ClosedUp(S) /\ \A e \in S : g[e] = Given(e, g)

TInv == SInv /\ TypeOK

LEMMA GivenSound ==
  ASSUME TInv, NEW e \in alive, NEW g,
         parent[e] # Null => g[parent[e]] \in Matrices
  PROVE  Given(e, g) \in Matrices
<1>1. /\ local[e] \in Transforms /\ current[e] \in Matrices
  BY DEF TInv, TypeOK
<1>2. (IF parent[e] = Null THEN Identity ELSE g[parent[e]]) \in Matrices
  BY IdentityTransform
<1>3. Compose(local[e], IF parent[e] = Null THEN Identity ELSE g[parent[e]]) \in Matrices
  BY <1>1, <1>2, ComposeSound, TransformAssumption
<1> QED
  BY <1>1, <1>3 DEF Given

\* The links close no cycle, so the recursion has one answer where it has any.
LEMMA SolutionsAgree ==
  ASSUME TInv, NEW S \in SUBSET alive, NEW T \in SUBSET alive, NEW g, NEW h,
         Solves(g, S), Solves(h, T)
  PROVE  \A e \in S \cap T : g[e] = h[e]
<1> DEFINE D == {e \in S \cap T : g[e] # h[e]}
<1> SUFFICES ASSUME D # {}  PROVE  FALSE
  OBVIOUS
<1>1. PICK e \in D : parent[e] \notin D
  BY DEF TInv, SInv, Acyclic
<1>2. parent[e] # Null => parent[e] \in S \cap T
  BY <1>1 DEF Solves, ClosedUp
<1>3. parent[e] # Null => g[parent[e]] = h[parent[e]]
  BY <1>1, <1>2
<1>4. Given(e, g) = Given(e, h)
  BY <1>3 DEF Given
<1> QED
  BY <1>1, <1>4 DEF Solves

\* And it has one for every entity.
Solved(e, v) == \E S \in SUBSET alive : e \in S /\ \E g \in [S -> Matrices] : Solves(g, S) /\ g[e] = v

LEMMA AllSolved ==
  ASSUME TInv, NEW e \in alive
  PROVE  \E v \in Matrices : Solved(e, v)
<1> DEFINE D == {x \in alive : \A v \in Matrices : ~Solved(x, v)}
<1> SUFFICES ASSUME D # {}  PROVE  FALSE
  OBVIOUS
<1>1. PICK x \in D : parent[x] \notin D
  BY DEF TInv, SInv, Acyclic
<1>2. parent[x] # Null => parent[x] \in alive
  BY <1>1 DEF TInv, SInv, HierarchyConsistent
<1>3. PICK S, g : /\ S \in SUBSET alive /\ g \in [S -> Matrices]
                 /\ Solves(g, S) /\ (parent[x] # Null => parent[x] \in S)
  <2>1. CASE parent[x] = Null
    <3> DEFINE none == [y \in {} |-> Identity]
    <3>1. none \in [{} -> Matrices] /\ Solves(none, {})
      BY DEF Solves, ClosedUp
    <3> QED
      BY <2>1, <3>1
  <2>2. CASE parent[x] # Null
    <3>1. PICK v \in Matrices : Solved(parent[x], v)
      BY <1>1, <1>2, <2>2
    <3> QED
      BY <3>1 DEF Solved
  <2> QED
    BY <2>1, <2>2
<1>4. x \notin S
  <2> SUFFICES ASSUME x \in S  PROVE  FALSE
    OBVIOUS
  <2>1. g[x] \in Matrices /\ Solved(x, g[x])
    BY <1>3 DEF Solved
  <2> QED
    BY <1>1, <2>1
<1> DEFINE T == S \cup {x}
           h == [y \in T |-> IF y = x THEN Given(x, g) ELSE g[y]]
<1>5. Given(x, g) \in Matrices
  BY <1>1, <1>3, GivenSound
<1>6. T \in SUBSET alive /\ h \in [T -> Matrices]
  BY <1>1, <1>3, <1>5
<1>7. ClosedUp(T)
  BY <1>3 DEF Solves, ClosedUp
<1>8. \A y \in T : parent[y] # Null => parent[y] \in S
  BY <1>3 DEF Solves, ClosedUp
<1>9. \A y \in S : h[y] = g[y]
  BY <1>4
<1>10. \A y \in T : Given(y, h) = Given(y, g)
  <2> HIDE DEF h, T
  <2> QED
    BY <1>8, <1>9 DEF Given
<1>11. \A y \in T : h[y] = Given(y, g)
  BY <1>3, <1>4 DEF Solves
<1>12. Solves(h, T)
  <2> HIDE DEF h, T
  <2> QED
    BY <1>6, <1>7, <1>10, <1>11 DEF Solves
<1>13. h[x] \in Matrices /\ Solved(x, h[x])
  <2>1. x \in T
    OBVIOUS
  <2> HIDE DEF h, T
  <2> QED
    BY <1>6, <1>12, <2>1 DEF Solved
<1> QED
  BY <1>1, <1>13

\* NewWorlds is that answer: every entity is given what its parent's new world
\* transform calls for, and nothing else would do.
WorldsSolved ==
    /\ NewWorlds \in [alive -> Matrices]
    /\ Solves(NewWorlds, alive)
    /\ \A g \in [alive -> Matrices] : Solves(g, alive) => g = NewWorlds

LEMMA PropagationSolves == TInv => WorldsSolved
<1> SUFFICES ASSUME TInv  PROVE  WorldsSolved
  OBVIOUS
<1> DEFINE F == [e \in alive |-> CHOOSE v \in Matrices : Solved(e, v)]
<1>1. \A e \in alive : F[e] \in Matrices /\ Solved(e, F[e])
  BY AllSolved
<1>2. F \in [alive -> Matrices]
  BY <1>1
<1> HIDE DEF F
<1>3. ASSUME NEW e \in alive  PROVE  F[e] = Given(e, F)
  <2>1. PICK S, g : /\ S \in SUBSET alive /\ e \in S
                   /\ Solves(g, S) /\ g[e] = F[e]
    BY <1>1 DEF Solved
  <2>2. ASSUME parent[e] # Null  PROVE  F[parent[e]] = g[parent[e]]
    <3>1. parent[e] \in S /\ parent[e] \in alive
      BY <2>1, <2>2 DEF Solves, ClosedUp
    <3>2. PICK T, h : /\ T \in SUBSET alive /\ parent[e] \in T
                     /\ Solves(h, T) /\ h[parent[e]] = F[parent[e]]
      BY <1>1, <3>1 DEF Solved
    <3> QED
      BY <2>1, <3>1, <3>2, SolutionsAgree
  <2>3. Given(e, F) = Given(e, g)
    BY <2>2 DEF Given
  <2> QED
    BY <2>1, <2>3 DEF Solves
<1>4. ClosedUp(alive)
  BY DEF TInv, SInv, HierarchyConsistent, ClosedUp
<1>5. Solves(F, alive)
  BY <1>2, <1>3, <1>4 DEF Solves
<1>6. F = [e \in alive |-> Given(e, F)]
  BY <1>2, <1>3
<1>7. NewWorlds = CHOOSE g : g = [e \in alive |-> Given(e, g)]
  BY DEF NewWorlds, Given
<1>8. NewWorlds = [e \in alive |-> Given(e, NewWorlds)]
  <2> HIDE DEF F
  <2> QED
    BY <1>6, <1>7
<1>9. Solves(NewWorlds, alive)
  <2> DEFINE W == NewWorlds
  <2>1. W = [e \in alive |-> Given(e, W)]
    BY <1>8
  <2> HIDE DEF W
  <2>2. \A e \in alive : W[e] = Given(e, W)
    BY <2>1
  <2> QED
    BY <2>2, <1>4 DEF Solves, W
<1>10. \A e \in alive : NewWorlds[e] = F[e]
  BY <1>5, <1>9, SolutionsAgree
<1>11. NewWorlds = F
  <2> DEFINE W == NewWorlds
  <2>1. W = [e \in alive |-> Given(e, W)] /\ \A e \in alive : W[e] = F[e]
    BY <1>8, <1>10
  <2> HIDE DEF W
  <2>2. W = F
    BY <2>1, <1>2
  <2> QED
    BY <2>2 DEF W
<1>12. ASSUME NEW g \in [alive -> Matrices], Solves(g, alive)  PROVE  g = F
  BY <1>2, <1>5, <1>12, SolutionsAgree
<1> QED
  BY <1>2, <1>5, <1>11, <1>12 DEF WorldsSolved

-----------------------------------------------------------------------------
(* The three promises about transforms. *)

\* What a scene keeps of its transforms between two calls.
WInv == TInv /\ WorldsMarked

\* An entity that awaits nothing already has what a propagation would give it,
\* and so every entity gets the product, stale or not.
LEMMA WorldsAreProducts ==
  ASSUME WInv, NEW e \in alive
  PROVE  /\ ~Stale(e) => NewWorlds[e] = current[e]
         /\ NewWorlds[e] = Compose(local[e], IF parent[e] = Null THEN Identity
                                              ELSE NewWorlds[parent[e]])
<1> DEFINE product(g) == Compose(local[e], IF parent[e] = Null THEN Identity ELSE g[parent[e]])
<1>0. PICK W : W = NewWorlds
  OBVIOUS
<1>1. \A x \in alive : W[x] = Given(x, W)
  BY <1>0, PropagationSolves DEF WInv, WorldsSolved, Solves
<1>2. \A x \in alive : ~Stale(x) => W[x] = current[x]
  BY <1>1 DEF Given
<1>3. CASE Stale(e)
  <2>1. W[e] = product(W)
    BY <1>1, <1>3 DEF Given
  <2> QED
    BY <2>1, <1>0, <1>2
<1>4. CASE ~Stale(e)
  <2>1. current[e] = Compose(local[e], ParentWorld(e))
    BY <1>4 DEF WInv, WorldsMarked
  <2>2. parent[e] # Null => parent[e] \in alive /\ ~Stale(parent[e])
    BY <1>4, StaleHandedDown DEF WInv, TInv, SInv, HierarchyConsistent
  <2>3. ParentWorld(e) = IF parent[e] = Null THEN Identity ELSE W[parent[e]]
    BY <2>2, <1>2 DEF ParentWorld
  <2>4. W[e] = product(W)
    BY <2>1, <2>3, <1>2, <1>4
  <2> QED
    BY <2>4, <1>0, <1>2
<1> QED
  BY <1>3, <1>4

\* A propagation leaves every transform up to date.
LEMMA PropagationStep ==
  ASSUME WInv, PropagateTransforms
  PROVE  /\ dirty' = {}
         /\ \A e \in alive : current'[e] = Compose(local[e], ParentWorld(e))'
<1>1. /\ dirty' = {} /\ current' = NewWorlds
      /\ alive' = alive /\ parent' = parent /\ local' = local
  BY DEF PropagateTransforms, links
<1>2. ASSUME NEW e \in alive
      PROVE  current'[e] = Compose(local'[e], IF parent'[e] = Null THEN Identity
                                              ELSE current'[parent'[e]])
  BY <1>1, WorldsAreProducts
<1> QED
  BY <1>1, <1>2 DEF ParentWorld

\* A transition sees what a propagation would give before it and after it.
Products ==
    /\ NewWorlds \in [alive -> Matrices]
    /\ \A e \in alive : NewWorlds[e] = Compose(local[e], WorldOf(parent[e], NewWorlds))

LEMMA WorldsProduct == WInv => Products
<1> SUFFICES ASSUME WInv  PROVE  Products
  OBVIOUS
<1>1. NewWorlds \in [alive -> Matrices]
  BY PropagationSolves DEF WInv, WorldsSolved
<1>2. ASSUME NEW e \in alive
      PROVE  NewWorlds[e] = Compose(local[e], WorldOf(parent[e], NewWorlds))
  BY WorldsAreProducts DEF WorldOf
<1> QED
  BY <1>1, <1>2 DEF Products

\* What is not below an entity is not below its children either, and nothing it
\* may become a child of is below it (Scene::setParent).
LEMMA BelowClosed ==
  ASSUME SInv, NEW c \in alive
  PROVE  /\ c \in Below(c) /\ Below(c) \subseteq alive
         /\ \A e \in alive : parent[e] \in Below(c) => e \in Below(c)
         /\ \A p \in alive : p \in Below(c) => c \in Above(p)
<1>1. c \in Below(c) /\ Below(c) \subseteq alive
  BY DEF Below
<1>2. ASSUME NEW e \in alive, parent[e] \in Below(c)  PROVE  e \in Below(c)
  <2>1. parent[e] \in alive /\ e \in Elements(children[parent[e]])
    BY <1>2 DEF Below, SInv, HierarchyConsistent
  <2> QED
    BY <1>2, <2>1 DEF Below, ClosedDown
<1>3. ASSUME NEW p \in alive, p \in Below(c)  PROVE  c \in Above(p)
  <2> SUFFICES ASSUME NEW S \in SUBSET alive, p \in S, ClosedUp(S), c \notin S
               PROVE  FALSE
    BY DEF Above
  <2> DEFINE T == alive \ S
  <2>1. ClosedDown(T)
    <3> SUFFICES ASSUME NEW e \in T, NEW d \in Elements(children[e]) \cap alive  PROVE  d \in T
      BY DEF ClosedDown
    <3>1. parent[d] = e /\ e # Null
      BY SceneAssumption DEF SInv, Structure, HierarchyConsistent
    <3> QED
      BY <3>1 DEF ClosedUp
  <2> QED
    BY <1>3, <2>1 DEF Below
<1> QED
  BY <1>1, <1>2, <1>3

\* Reparent::KeepWorld.  Where the links and the local transforms are the same,
\* so is the answer of the recursion, from the roots down; at the entity that
\* moved it is what applyWorldTransform() solved for.
LEMMA KeepWorldStep == WInv /\ WInv' => KeepsWorlds
<1> SUFFICES ASSUME WInv, WInv', NEW c \in alive \cap dirty',
                    IF parent'[c] = Null THEN Unparent(c, "KeepWorld")
                    ELSE SetParent(c, parent'[c], "KeepWorld")
             PROVE  LET p      == parent'[c]
                        shown  == WorldOf(p, current)
                        before == [e \in alive |-> NewWorlds[e]]
                        after  == [e \in alive |-> NewWorlds'[e]]
                        next   == WorldOf(p, before)
                    IN  /\ \A e \in alive \ Below(c) : after[e] = before[e]
                        /\ \A t \in Clean :
                              Regular(shown) /\ Compose(t, shown) = current[c]
                                 => after[c] = Compose(t, next)
                        /\ Regular(shown) /\ next = shown
                              => Origin(after[c]) = Origin(current[c])
                        /\ after[c] = before[c] => \A e \in Below(c) : after[e] = before[e]
  BY DEF KeepsWorlds
<1>0. PICK p, v, W, V : p = parent'[c] /\ v = WorldOf(p, current) /\ W = NewWorlds /\ V = NewWorlds'
  OBVIOUS
<1>1. /\ alive' = alive /\ p \in alive \cup {Null} /\ (p # Null => c \notin Above(p))
      /\ parent' = [parent EXCEPT ![c] = p]
      /\ local' = [local EXCEPT ![c] = Solve(current[c], v)]
  <2>1. CASE p = Null
    BY <1>0, <2>1 DEF Unparent, Reparented, WorldOf
  <2>2. CASE p # Null
    BY <1>0, <2>2 DEF SetParent, MayParent, Reparented, WorldOf
  <2> QED
    BY <2>1, <2>2
<1>2. /\ parent \in [alive -> Slots \cup {Null}] /\ local \in [alive -> Transforms]
      /\ current \in [alive -> Matrices] /\ Null \notin alive
      /\ \A e \in alive : parent[e] # Null => parent[e] \in alive
  BY SceneAssumption DEF WInv, TInv, TypeOK, SInv, HierarchyConsistent
<1>3. /\ W \in [alive -> Matrices] /\ V \in [alive -> Matrices]
      /\ \A e \in alive : W[e] = Compose(local[e], WorldOf(parent[e], W))
      /\ \A e \in alive : V[e] = Compose(local'[e], WorldOf(parent'[e], V))
  <2>1. Products'
    <3>1. WInv' => Products'
      BY WorldsProduct, PTL
    <3> QED
      BY <3>1
  <2>2. Products
    BY WorldsProduct
  <2>3. V \in [alive' -> Matrices] /\ \A e \in alive' : V[e] = Compose(local'[e], WorldOf(parent'[e], V))
    BY <1>0, <2>1 DEF Products, WorldOf
  <2> QED
    BY <1>0, <1>1, <2>2, <2>3 DEF Products
<1>4. /\ c \in Below(c) /\ Below(c) \subseteq alive
      /\ \A e \in alive : parent[e] \in Below(c) => e \in Below(c)
      /\ p \notin Below(c)
  <2>1. /\ c \in Below(c) /\ Below(c) \subseteq alive
        /\ \A e \in alive : parent[e] \in Below(c) => e \in Below(c)
        /\ \A q \in alive : q \in Below(c) => c \in Above(q)
    BY BelowClosed DEF WInv, TInv
  <2> QED
    BY <1>1, <1>2, <2>1
<1>5. ASSUME NEW D \in SUBSET alive, c \notin D, \A e \in D : V[e] # W[e],
             \A e \in D : parent[e] \notin D => WorldOf(parent[e], V) = WorldOf(parent[e], W)
      PROVE  D = {}
  <2> SUFFICES ASSUME D # {}  PROVE  FALSE
    OBVIOUS
  <2>1. PICK e \in D : parent[e] \notin D
    BY DEF WInv, TInv, SInv, Acyclic
  <2>2. parent'[e] = parent[e] /\ local'[e] = local[e]
    BY <1>1, <1>2, <1>5
  <2>3. WorldOf(parent[e], V) = WorldOf(parent[e], W)
    BY <1>5, <2>1
  <2> QED
    BY <1>3, <1>5, <2>2, <2>3
<1>6. \A e \in alive \ Below(c) : V[e] = W[e]
  <2> DEFINE D == {e \in alive \ Below(c) : V[e] # W[e]}
  <2>1. \A e \in D : parent[e] \notin D => WorldOf(parent[e], V) = WorldOf(parent[e], W)
    BY <1>2, <1>4 DEF WorldOf
  <2>2. D = {}
    <3>1. D \in SUBSET alive /\ c \notin D /\ \A e \in D : V[e] # W[e]
      BY <1>4
    <3> HIDE DEF D
    <3> QED
      BY <1>5, <2>1, <3>1
  <2> QED
    BY <2>2
<1>7. ASSUME V[c] = W[c]  PROVE  \A e \in Below(c) : V[e] = W[e]
  <2> DEFINE D == {e \in alive : V[e] # W[e]}
  <2>1. \A e \in D : parent[e] \notin D => WorldOf(parent[e], V) = WorldOf(parent[e], W)
    BY <1>2 DEF WorldOf
  <2>2. D = {}
    <3>1. D \in SUBSET alive /\ c \notin D /\ \A e \in D : V[e] # W[e]
      BY <1>7
    <3> HIDE DEF D
    <3> QED
      BY <1>5, <2>1, <3>1
  <2> QED
    BY <1>4, <2>2
<1>8. WorldOf(p, V) = WorldOf(p, W) /\ WorldOf(p, W) \in Matrices /\ v \in Matrices
  <2>1. CASE p = Null
    BY <1>0, <2>1, IdentityTransform DEF WorldOf
  <2>2. CASE p # Null
    <3>1. p \in alive \ Below(c)
      BY <1>1, <1>4, <2>2
    <3>2. V[p] = W[p] /\ W[p] \in Matrices /\ current[p] \in Matrices
      BY <1>2, <1>3, <1>6, <3>1
    <3> QED
      BY <1>0, <2>2, <3>2 DEF WorldOf
  <2> QED
    BY <2>1, <2>2
<1>9. V[c] = Compose(Solve(current[c], v), WorldOf(p, W))
  BY <1>1, <1>2, <1>3, <1>8
<1>10. ASSUME NEW t \in Clean, Regular(v), Compose(t, v) = current[c]
       PROVE  V[c] = Compose(t, WorldOf(p, W))
  BY <1>8, <1>9, <1>10, SolveClean
<1>11. ASSUME Regular(v), WorldOf(p, W) = v  PROVE  Origin(V[c]) = Origin(current[c])
  BY <1>2, <1>8, <1>9, <1>11, SolveOrigin
<1>12. [e \in alive |-> W[e]] = W /\ [e \in alive |-> V[e]] = V
  BY <1>3
<1>13. [e \in alive |-> NewWorlds[e]] = W /\ [e \in alive |-> NewWorlds'[e]] = V
  <2> DEFINE before == NewWorlds
             after == NewWorlds'
  <2>1. W = before /\ V = after
    BY <1>0
  <2> HIDE DEF before, after
  <2>2. [e \in alive |-> before[e]] = W /\ [e \in alive |-> after[e]] = V
    BY <1>12, <2>1
  <2> QED
    BY <2>2 DEF before, after
<1> QED
  BY <1>0, <1>6, <1>7, <1>10, <1>11, <1>13

\* What clone() makes of each entity.
LEMMA CloneImage ==
  ASSUME SInv, NEW remap \in Injections(alive, Slots), NEW newId \in Injections(alive, Guids),
         Clone(remap, newId)
  PROVE  /\ alive' = {remap[e] : e \in alive} /\ dirty' = alive'
         /\ DOMAIN byGuid' = {newId[e] : e \in alive}
         /\ local' \in [alive' -> {local[e] : e \in alive}]
         /\ current' \in [alive' -> {current[e] : e \in alive}]
         /\ previous' \in [alive' -> {previous[e] : e \in alive}]
         /\ \A e \in alive :
               /\ parent'[remap[e]] = RemapLink(parent[e], remap)
               /\ children'[remap[e]] = [i \in DOMAIN children[e] |-> remap[children[e][i]]]
               /\ local'[remap[e]] = local[e]
               /\ byGuid'[newId[e]] = remap[e]
<1> DEFINE source(s) == CHOOSE e \in alive : remap[e] = s
<1>1. /\ remap \in [alive -> Slots] /\ \A x, y \in alive : remap[x] = remap[y] => x = y
      /\ newId \in [alive -> Guids] /\ \A x, y \in alive : newId[x] = newId[y] => x = y
  BY DEF Injections
<1>2. /\ alive' = {remap[e] : e \in alive} /\ dirty' = alive'
      /\ byGuid' = [g \in {newId[e] : e \in alive} |->
                      remap[CHOOSE e \in alive : newId[e] = g]]
      /\ parent' = [s \in alive' |-> RemapLink(parent[source(s)], remap)]
      /\ children' = [s \in alive' |->
                        [i \in DOMAIN children[source(s)] |-> remap[children[source(s)][i]]]]
      /\ local' = [s \in alive' |-> local[source(s)]]
      /\ current' = [s \in alive' |-> current[source(s)]]
      /\ previous' = [s \in alive' |-> previous[source(s)]]
  BY DEF Clone
<1>3. \A e \in alive : source(remap[e]) = e
  BY <1>1
<1>4. \A e \in alive : (CHOOSE x \in alive : newId[x] = newId[e]) = e
  BY <1>1
<1>5. \A s \in alive' : source(s) \in alive
  BY <1>2
<1> HIDE DEF source
<1>6. \A e \in alive : remap[e] \in alive'
  BY <1>2
<1> QED
  BY <1>2, <1>3, <1>4, <1>5, <1>6

\* A clone's transforms are recomputed from the same local ones along the same
\* links.
LEMMA CloneStep == WInv /\ TInv' => CopiesFaithfully
<1> SUFFICES ASSUME WInv, TInv', NEW ids \in CloneIds, CloneScene(ids)
             PROVE  /\ FaithfulCopy(ids)
                    /\ ids = "Regenerate" => DOMAIN byGuid' \cap DOMAIN byGuid = {}
  BY DEF CopiesFaithfully
<1>1. PICK remap \in Injections(alive, Slots), newId \in NewIds(ids) : Clone(remap, newId)
  BY DEF CloneScene
<1>2. newId \in Injections(alive, Guids)
  BY <1>1, NewIdsDistinct DEF WInv, TInv
<1>3. /\ alive' = {remap[e] : e \in alive} /\ dirty' = alive'
      /\ DOMAIN byGuid' = {newId[e] : e \in alive}
      /\ \A e \in alive :
            /\ parent'[remap[e]] = RemapLink(parent[e], remap)
            /\ children'[remap[e]] = [i \in DOMAIN children[e] |-> remap[children[e][i]]]
            /\ local'[remap[e]] = local[e]
            /\ byGuid'[newId[e]] = remap[e]
  BY <1>1, <1>2, CloneImage DEF WInv, TInv
<1>4. /\ remap \in [alive -> Slots] /\ \A x, y \in alive : remap[x] = remap[y] => x = y
      /\ \A e \in alive : remap[e] \in alive'
  BY <1>3 DEF Injections
<1>5. /\ Null \notin alive /\ Null \notin alive'
      /\ \A e \in alive : parent[e] # Null => parent[e] \in alive
  BY SceneAssumption DEF WInv, TInv, SInv, Structure, HierarchyConsistent
<1>6. remap \in Injections(alive, alive') /\ {remap[e] : e \in alive} = alive'
  BY <1>3, <1>4 DEF Injections
<1>7. ASSUME NEW e \in alive
      PROVE  /\ Len(children'[remap[e]]) = Len(children[e])
             /\ \A i \in DOMAIN children[e] : children'[remap[e]][i] = remap[children[e][i]]
  <2>1. children'[remap[e]] \in Seq(Slots) /\ children[e] \in Seq(Slots)
    BY <1>4 DEF WInv, TInv, TypeOK
  <2>2. DOMAIN children'[remap[e]] = DOMAIN children[e]
    BY <1>3
  <2>3. Len(children'[remap[e]]) = Len(children[e])
    <3> DEFINE s == children'[remap[e]]
               t == children[e]
    <3>1. s \in Seq(Slots) /\ t \in Seq(Slots) /\ DOMAIN s = DOMAIN t
      BY <2>1, <2>2
    <3> HIDE DEF s, t
    <3>2. Len(s) = Len(t)
      BY <3>1
    <3> QED
      BY <3>2 DEF s, t
  <2>4. children'[remap[e]] = [i \in DOMAIN children[e] |-> remap[children[e][i]]]
    BY <1>3
  <2>5. \A i \in DOMAIN children[e] : children'[remap[e]][i] = remap[children[e][i]]
    BY <2>4
  <2> QED
    BY <2>3, <2>5
<1>8. PICK W : W = NewWorlds
  OBVIOUS
<1>9. /\ W \in [alive -> Matrices]
      /\ \A e \in alive : W[e] = Compose(local[e], IF parent[e] = Null THEN Identity
                                                    ELSE W[parent[e]])
  BY <1>8, PropagationSolves, WorldsAreProducts DEF WInv, WorldsSolved
<1>10. PICK G \in [alive' -> Matrices] : \A e \in alive : G[remap[e]] = W[e]
  <2> DEFINE g == [s \in alive' |-> W[CHOOSE e \in alive : remap[e] = s]]
  <2>1. \A s \in alive' : (CHOOSE e \in alive : remap[e] = s) \in alive
    BY <1>3
  <2>2. g \in [alive' -> Matrices]
    BY <2>1, <1>9
  <2>3. \A e \in alive : (CHOOSE x \in alive : remap[x] = remap[e]) = e
    BY <1>4
  <2>4. \A e \in alive : g[remap[e]] = W[e]
    BY <2>3, <1>4
  <2> QED
    BY <2>2, <2>4
<1>11. ASSUME NEW s \in alive'  PROVE  G[s] = Given(s, G)'
  <2>1. PICK e \in alive : s = remap[e]
    BY <1>3
  <2>2. Stale(s)'
    BY <1>3 DEF Stale, Above
  <2>3. (IF parent'[s] = Null THEN Identity ELSE G[parent'[s]])
          = IF parent[e] = Null THEN Identity ELSE W[parent[e]]
    <3>1. parent'[s] = RemapLink(parent[e], remap)
      BY <1>3, <2>1
    <3>2. CASE parent[e] = Null
      BY <3>1, <3>2 DEF RemapLink
    <3>3. CASE parent[e] # Null
      <4>1. parent[e] \in alive /\ parent'[s] = remap[parent[e]]
        BY <1>5, <3>1, <3>3 DEF RemapLink
      <4>2. parent'[s] # Null /\ G[parent'[s]] = W[parent[e]]
        BY <1>4, <1>5, <1>10, <4>1
      <4> QED
        BY <3>3, <4>2
    <3> QED
      BY <3>2, <3>3
  <2>4. G[s] = Compose(local'[s], IF parent'[s] = Null THEN Identity ELSE G[parent'[s]])
    <3>1. G[s] = W[e] /\ local'[s] = local[e]
      BY <1>3, <1>10, <2>1
    <3>2. W[e] = Compose(local[e], IF parent[e] = Null THEN Identity ELSE W[parent[e]])
      BY <1>9
    <3> QED
      BY <3>1, <3>2, <2>3
  <2> QED
    BY <2>2, <2>4 DEF Given
<1>12. Solves(G, alive)'
  <2>1. ClosedUp(alive)'
    BY DEF TInv, SInv, HierarchyConsistent, ClosedUp
  <2> QED
    BY <1>11, <2>1 DEF Solves
<1>13. NewWorlds' = G
  <2>1. TInv' => WorldsSolved'
    BY PropagationSolves, PTL
  <2>2. WorldsSolved'
    BY <2>1
  <2> QED
    BY <1>10, <1>12, <2>2 DEF WorldsSolved
<1>14. \A e \in alive : NewWorlds'[remap[e]] = NewWorlds[e]
  BY <1>8, <1>10, <1>13
<1>15. ids = "Preserve" => \A e \in alive : byGuid'[id[e]] = remap[e]
  <2> SUFFICES ASSUME ids = "Preserve", NEW e \in alive  PROVE  byGuid'[id[e]] = remap[e]
    OBVIOUS
  <2>1. newId = [x \in alive |-> id[x]]
    BY <1>1 DEF NewIds
  <2> QED
    BY <1>3, <2>1
<1>16. FaithfulCopy(ids)
  BY <1>3, <1>6, <1>7, <1>14, <1>15 DEF FaithfulCopy
<1>17. ids = "Regenerate" => DOMAIN byGuid' \cap DOMAIN byGuid = {}
  <2> SUFFICES ASSUME ids = "Regenerate"  PROVE  DOMAIN byGuid' \cap DOMAIN byGuid = {}
    OBVIOUS
  <2>1. newId \in [alive -> Guids \ DOMAIN byGuid]
    BY <1>1 DEF NewIds, Injections
  <2> QED
    BY <1>3, <2>1
<1> QED
  BY <1>16, <1>17
-----------------------------------------------------------------------------
(* The transforms stay marked whatever is called. *)

\* The types of what is not of the shape.
Placed ==
    /\ dirty \subseteq alive
    /\ local \in [alive -> Transforms]
    /\ current \in [alive -> Matrices]
    /\ previous \in [alive -> Matrices]

LEMMA TypesParted == TypeOK <=> Structure /\ Placed
BY DEF TypeOK, Structure, Placed

LEMMA InitWorlds == Init => WInv
<1> SUFFICES ASSUME Init  PROVE  WInv
  OBVIOUS
<1>1. SInv
  BY InitInv
<1>2. Placed /\ WorldsMarked
  BY DEF Init, Empty, Placed, WorldsMarked
<1> QED
  BY <1>1, <1>2, TypesParted DEF WInv, TInv, SInv

\* Every call but a propagation marks whatever it moves or relinks
\* (markTransformDirty).
LEMMA CreateMarks ==
  ASSUME WInv, NEW g \in Guids, NEW e \in Slots, CreateWithGuid(g, e)
  PROVE  Placed' /\ Untouched
<1>1. /\ e \notin alive /\ alive' = alive \cup {e} /\ dirty' = dirty \cup {e}
      /\ parent' = Extend(parent, e, Null) /\ local' = Extend(local, e, Identity)
      /\ current' = Extend(current, e, Identity) /\ previous' = Extend(previous, e, Identity)
  BY DEF CreateWithGuid
<1>2. /\ dirty \subseteq alive /\ DOMAIN parent = alive
      /\ local \in [alive -> Transforms] /\ current \in [alive -> Matrices]
      /\ previous \in [alive -> Matrices]
  BY DEF WInv, TInv, TypeOK
<1>3. ASSUME NEW S, Identity \in S, NEW f \in [alive -> S]
      PROVE  Extend(f, e, Identity) \in [alive' -> S]
  BY <1>1, <1>3 DEF Extend
<1>4. Placed'
  BY <1>1, <1>2, <1>3, IdentityTransform DEF Placed
<1>5. Untouched
  BY <1>1, <1>2 DEF Untouched, Extend
<1> QED
  BY <1>4, <1>5

LEMMA DestroyMarks ==
  ASSUME WInv, NEW e \in Slots, Destroy(e)
  PROVE  Placed' /\ Untouched
<1>1. /\ alive' \subseteq alive /\ dirty' = dirty \cap alive' /\ parent' = Only(parent, alive')
      /\ local' = Only(local, alive') /\ current' = Only(current, alive')
      /\ previous' = Only(previous, alive')
  BY DEF Destroy
<1>2. /\ local \in [alive -> Transforms] /\ current \in [alive -> Matrices]
      /\ previous \in [alive -> Matrices]
  BY DEF WInv, TInv, TypeOK
<1>3. Placed'
  BY <1>1, <1>2 DEF Placed, Only
<1>4. Untouched
  BY <1>1, <1>2 DEF Untouched, Only
<1> QED
  BY <1>3, <1>4

LEMMA RelinkMarks ==
  ASSUME WInv, NEW c \in alive, NEW q \in alive \cup {Null}, NEW mode \in Modes,
         parent' = [parent EXCEPT ![c] = q],
         Reparented(c, mode, IF q = Null THEN Identity ELSE current[q]),
         alive' = alive, current' = current, previous' = previous
  PROVE  Placed' /\ Untouched
<1> DEFINE v == IF q = Null THEN Identity ELSE current[q]
<1>1. /\ dirty \subseteq alive /\ DOMAIN parent = alive
      /\ local \in [alive -> Transforms] /\ current \in [alive -> Matrices]
      /\ previous \in [alive -> Matrices]
  BY DEF WInv, TInv, TypeOK
<1>2. v \in Matrices /\ current[c] \in Matrices
  BY <1>1, IdentityTransform
<1>3. Solve(current[c], v) \in Transforms
  BY <1>2, SolveSound
<1>4. /\ dirty' = dirty \cup {c}
      /\ local' = local \/ local' = [local EXCEPT ![c] = Solve(current[c], v)]
  BY DEF Reparented
<1> HIDE DEF v
<1>5. Placed'
  BY <1>1, <1>3, <1>4 DEF Placed
<1>6. Untouched
  BY <1>1, <1>4 DEF Untouched
<1> QED
  BY <1>5, <1>6

LEMMA CloneMarks ==
  ASSUME WInv, NEW ids \in CloneIds, CloneScene(ids)
  PROVE  Placed' /\ Untouched
<1>1. PICK remap \in Injections(alive, Slots), newId \in NewIds(ids) : Clone(remap, newId)
  BY DEF CloneScene
<1>2. newId \in Injections(alive, Guids)
  BY <1>1, NewIdsDistinct DEF WInv, TInv
<1>3. /\ dirty' = alive'
      /\ local' \in [alive' -> {local[e] : e \in alive}]
      /\ current' \in [alive' -> {current[e] : e \in alive}]
      /\ previous' \in [alive' -> {previous[e] : e \in alive}]
  BY <1>1, <1>2, CloneImage DEF WInv, TInv
<1>4. /\ {local[e] : e \in alive} \subseteq Transforms
      /\ {current[e] : e \in alive} \subseteq Matrices
      /\ {previous[e] : e \in alive} \subseteq Matrices
  BY DEF WInv, TInv, TypeOK
<1>5. Placed'
  BY <1>3, <1>4 DEF Placed
<1> QED
  BY <1>3, <1>5 DEF Untouched

LEMMA NextWorlds == WInv /\ [Next]_vars => WInv'
<1> SUFFICES ASSUME WInv, [Next]_vars  PROVE  WInv'
  OBVIOUS
<1>1. SInv'
  BY NextInv DEF WInv, TInv
<1>2. Placed /\ SInv /\ WorldsMarked /\ TInv
  BY TypesParted DEF WInv, TInv
<1>3. ASSUME Placed', Untouched  PROVE  WInv'
  <2>1. WorldsMarked'
    BY <1>1, <1>2, <1>3, MarksKept
  <2>2. TypeOK' <=> Structure' /\ Placed'
    BY TypesParted, PTL
  <2> QED
    BY <1>1, <1>3, <2>1, <2>2 DEF WInv, TInv, SInv
<1>4. ASSUME UNCHANGED vars  PROVE  Placed' /\ Untouched
  BY <1>2, <1>4 DEF vars, Placed, Untouched
<1>5. ASSUME NEW e \in Slots, NEW mode \in Modes, Unparent(e, mode)
      PROVE  Placed' /\ Untouched
  <2>1. /\ e \in alive /\ parent' = [parent EXCEPT ![e] = Null]
        /\ Reparented(e, mode, Identity)
        /\ alive' = alive /\ current' = current /\ previous' = previous
    BY <1>5 DEF Unparent
  <2> QED
    BY <2>1, RelinkMarks
<1>6. ASSUME NEW e \in Slots, NEW p \in Slots, NEW mode \in Modes, SetParent(e, p, mode)
      PROVE  Placed' /\ Untouched
  <2>1. /\ e \in alive /\ p \in alive /\ p # Null /\ parent' = [parent EXCEPT ![e] = p]
        /\ Reparented(e, mode, current[p])
        /\ alive' = alive /\ current' = current /\ previous' = previous
    BY <1>6, SceneAssumption DEF SetParent
  <2> QED
    BY <2>1, RelinkMarks
<1>7. ASSUME NEW e \in Slots, NEW t \in Transforms, SetLocalTransform(e, t)
      PROVE  Placed' /\ Untouched
  <2>1. /\ e \in alive /\ local' = [local EXCEPT ![e] = t] /\ dirty' = dirty \cup {e}
        /\ alive' = alive /\ parent' = parent /\ current' = current /\ previous' = previous
    BY <1>7 DEF SetLocalTransform, links
  <2> QED
    BY <1>2, <2>1 DEF Placed, Untouched
<1>8. ASSUME PropagateTransforms  PROVE  WInv'
  <2>1. /\ dirty' = {} /\ \A e \in alive : current'[e] = Compose(local[e], ParentWorld(e))'
    BY <1>8, PropagationStep
  <2>2. /\ alive' = alive /\ local' = local /\ current' = NewWorlds
        /\ previous' = [e \in alive |-> IF Stale(e) THEN current[e] ELSE previous[e]]
    BY <1>8 DEF PropagateTransforms
  <2>3. NewWorlds \in [alive -> Matrices]
    BY <1>2, PropagationSolves DEF WorldsSolved
  <2>4. Placed'
    BY <1>2, <2>1, <2>2, <2>3 DEF Placed
  <2>5. WorldsMarked'
    BY <2>1, <2>2 DEF WorldsMarked
  <2>6. TypeOK' <=> Structure' /\ Placed'
    BY TypesParted, PTL
  <2> QED
    BY <1>1, <2>4, <2>5, <2>6 DEF WInv, TInv, SInv
<1>9. ASSUME NEW g \in Guids, CreateDuplicate(g)  PROVE  WInv'
  BY <1>3, <1>4, <1>9 DEF CreateDuplicate
<1>10. ASSUME NEW g \in Guids, NEW e \in Slots, CreateWithGuid(g, e)  PROVE  WInv'
  BY <1>3, <1>10, CreateMarks
<1>11. ASSUME NEW e \in Slots, Destroy(e)  PROVE  WInv'
  BY <1>3, <1>11, DestroyMarks
<1>12. ASSUME NEW ids \in CloneIds, CloneScene(ids)  PROVE  WInv'
  BY <1>3, <1>12, CloneMarks
<1> QED
  BY <1>3, <1>4, <1>5, <1>6, <1>7, <1>8, <1>9, <1>10, <1>11, <1>12 DEF Next

LEMMA SpecWorlds == Spec => []WInv
BY InitWorlds, NextWorlds, PTL DEF Spec

-----------------------------------------------------------------------------
(* The theorems. *)

\* Both ends of every parent link agree, and no link leads to a slot that is
\* gone, through any reparenting, destruction and cloning (Scene.cpp).
THEOREM HierarchyAlwaysConsistent == Spec => []HierarchyConsistent
<1>1. SInv => HierarchyConsistent
  BY DEF SInv
<1> QED
  BY <1>1, SpecInv, PTL

\* No sequence of reparents closes a cycle: every walk ends (setParent).
THEOREM AlwaysAcyclic == Spec => []Acyclic
<1>1. SInv => Acyclic
  BY DEF SInv
<1> QED
  BY <1>1, SpecInv, PTL

\* The GUID index names every entity and nothing that is gone (destroy, clone).
THEOREM RegistryAlwaysConsistent == Spec => []RegistryConsistent
<1>1. SInv => RegistryConsistent
  BY DEF SInv
<1> QED
  BY <1>1, SpecInv, PTL

\* Every variable of a scene holds a value of its type, through any calls.
THEOREM SceneTypeCorrect == Spec => []TypeOK
<1>1. WInv => TypeOK
  BY DEF WInv, TInv
<1> QED
  BY <1>1, SpecWorlds, PTL

\* Nobody moves or relinks an entity and leaves its world transform out of
\* date without a mark on it or above it (markTransformDirty).
THEOREM WorldsAlwaysMarked == Spec => []WorldsMarked
<1>1. WInv => WorldsMarked
  BY DEF WInv
<1> QED
  BY <1>1, SpecWorlds, PTL

\* One propagation brings every world transform up to date, however deep the
\* scene and however many marks it has gathered (propagateTransforms).
THEOREM PropagationAlwaysSettles == Spec => PropagationSettles
<1>1. WInv => Settles
  BY PropagationStep DEF Settles
<1> QED
  BY <1>1, SpecWorlds, PTL DEF PropagationSettles

\* A reparent that keeps the world transform moves nothing but the subtree it
\* takes along, with moves pending at either end or not.  That stays where some
\* unmirrored transform can put it, and keeps its origin where only a sheared
\* matrix could (setParent with Reparent::KeepWorld, applyWorldTransform).
THEOREM KeepWorldAlwaysKeeps == Spec => KeepWorldKeeps
<1>1. WInv => TInv
  BY DEF WInv
<1> QED
  BY <1>1, KeepWorldStep, SpecWorlds, PTL DEF KeepWorldKeeps

\* A clone is the same forest in the same order and comes to rest where its
\* source would have (clone).
THEOREM ClonesAlwaysFaithful == Spec => CloneIsFaithful
<1>1. WInv => TInv
  BY DEF WInv
<1> QED
  BY <1>1, CloneStep, SpecWorlds, PTL DEF CloneIsFaithful
=============================================================================
