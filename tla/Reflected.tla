----------------------------- MODULE Reflected -----------------------------
(***************************************************************************)
(* What engine/src/Serialize.cpp does with one reflected value: a leaf, or *)
(* an object or a sequence given how its parts are converted.  Serialize   *)
(* applies it to types of any depth.                                       *)
(*                                                                         *)
(* A YAML scalar is the text it holds, tagged with what that text can be   *)
(* read as; floating point is exact in both forms and enters as a number.  *)
(* The cook's bytes are left out: its records are prefixed with their      *)
(* length and named by hash, so a cooked object is a function from field   *)
(* names to cooked values.                                                 *)
(***************************************************************************)
EXTENDS Integers, Sequences, SequencesExt

Leaf(kind) == [kind |-> kind]
Integer(signed, bits) == [kind |-> IF signed THEN "int" ELSE "nat", range |-> 2^bits]
Enum(names) == [kind |-> "enum", names |-> names]        \* name -> integer
Vector(n) == [kind |-> "vector", size |-> n]             \* float2 .. float4x4
SequenceOf(t) == [kind |-> "sequence", of |-> t]
Object(fields) == [kind |-> "object", fields |-> fields] \* name -> type

-----------------------------------------------------------------------------
(* YAML nodes.                                                              *)

Absent == [node |-> "absent"]
Scalar(as, text) == [node |-> "scalar", text |-> <<as, text>>]
List(items) == [node |-> "list", items |-> items]
Map(entries) == [node |-> "map", entries |-> entries]

\* operator[] of a node: absent where it is no mapping or has no such key.
Child(node, key) ==
    IF node.node = "map" /\ key \in DOMAIN node.entries THEN node.entries[key] ELSE Absent

\* What tryRead gives: one value, or none.
Reads(node, as) == node.node = "scalar" /\ node.text[1] = as
AsNumber(node) == IF Reads(node, "number") THEN {node.text[2]} ELSE {}
AsNatural(node) == AsNumber(node) \cap Nat
AsWord(node) == IF Reads(node, "word") THEN {node.text[2]} ELSE {}
AsGuid(node) == IF Reads(node, "guid") THEN {node.text[2]} ELSE {}
AsFlag(node) ==
    {b \in BOOLEAN : \/ node = Scalar("word", IF b THEN "true" ELSE "false")
                     \/ node = Scalar("number", IF b THEN 1 ELSE 0)}

Number(n) == Scalar("number", n)
Numbers(s) == List([i \in DOMAIN s |-> Number(s[i])])
AsNumbers(node) ==
    IF node.node = "list" /\ \A i \in DOMAIN node.items : AsNumber(node.items[i]) # {}
    THEN {[i \in DOMAIN node.items |-> node.items[i].text[2]]} ELSE {}

-----------------------------------------------------------------------------
(* Leaves.                                                                  *)

\* static_cast from 64 bits: the value wraps to the width of the type.
Narrow(t, n) ==
    LET low == n % t.range
    IN  IF t.kind = "int" /\ 2 * low >= t.range THEN low - t.range ELSE low

\* An enumerator is written by its name; a value without one by its number.
NamesOf(t, v) == {name \in DOMAIN t.names : t.names[name] = v}

WriteLeaf(t, v) ==
    CASE t.kind = "flag" -> Scalar("word", IF v THEN "true" ELSE "false")
      [] t.kind = "text" -> v
      [] t.kind = "guid" -> Scalar("guid", v)
      [] t.kind = "enum" -> IF NamesOf(t, v) = {} THEN Number(v)
                            ELSE Scalar("word", CHOOSE name \in NamesOf(t, v) : TRUE)
      [] t.kind = "vector" -> Numbers(v)
      [] t.kind = "shader" -> IF Len(v) = 1 THEN Number(v[1]) ELSE Numbers(v)
      [] OTHER -> Number(v)

\* assignEnumInteger: a number no enumerator has is refused, unless the type
\* has no enumerators at all.
EnumInteger(t, n) == IF DOMAIN t.names # {} /\ NamesOf(t, n) = {} THEN {} ELSE {n}

\* enumeratorByName.
EnumNamed(t, name) == IF name \in DOMAIN t.names THEN {t.names[name]} ELSE {}

ReadLeaf(t, node) ==
    CASE t.kind = "flag" -> AsFlag(node)
      [] t.kind = "text" -> IF node.node = "scalar" THEN {node} ELSE {}
      [] t.kind = "guid" -> AsGuid(node)
      [] t.kind = "enum" -> (UNION {EnumInteger(t, n) : n \in AsNumber(node)}) \cup
                            (UNION {EnumNamed(t, w) : w \in AsWord(node)})
      [] t.kind = "int" -> {Narrow(t, n) : n \in AsNumber(node)}
      [] t.kind = "nat" -> {Narrow(t, n) : n \in AsNatural(node)}
      [] t.kind = "number" -> AsNumber(node)
      [] t.kind = "vector" -> {s \in AsNumbers(node) : Len(s) = t.size}
      [] t.kind = "shader" -> {<<n>> : n \in AsNumber(node)} \cup
                              {s \in AsNumbers(node) : Len(s) \in 1..4}

\* The cook stores an enum as its number and refuses what the text refuses.
CookLeaf(t, v) == v
UncookLeaf(t, c) == IF t.kind = "enum" THEN EnumInteger(t, c) ELSE {c}

\* What a leaf is constructed with.
DefaultLeaf(t) ==
    CASE t.kind = "flag" -> FALSE
      [] t.kind = "text" -> Scalar("word", "")
      [] t.kind = "vector" -> [i \in 1..t.size |-> 0]
      [] t.kind = "shader" -> <<0>>
      [] OTHER -> 0

-----------------------------------------------------------------------------
(* Sequences and objects.  Converting gives one value, or none.             *)

\* All parts are there, or nothing is.
Complete(parts) ==
    IF \A i \in DOMAIN parts : parts[i] # {}
    THEN {[i \in DOMAIN parts |-> CHOOSE v \in parts[i] : TRUE]} ELSE {}

\* A type that no property was registered for is not converted.
IfDescribed(t, converted) == IF DOMAIN t.fields = {} THEN {} ELSE converted

\* An element is a leaf or has properties: a sequence in a sequence is neither
\* written nor read. Where nothing is given, the code has written a part.
AsElement(t, converted) == IF t.kind = "sequence" THEN {} ELSE converted

WriteSequence(t, v, Write(_, _)) ==
    {List(items) : items \in Complete([i \in DOMAIN v |-> AsElement(t.of, Write(t.of, v[i]))])}
WriteObject(t, v, Write(_, _)) ==
    IfDescribed(t, {Map(entries) :
        entries \in Complete([f \in DOMAIN t.fields |-> Write(t.fields[f], v[f])])})

\* A leaf that cannot be read is tried for its properties. Those of an
\* enumeration are its enumerators, which cannot be set: it keeps what it has,
\* and has been read.
ReadLeafOver(t, node, current) ==
    IF t.kind = "enum" /\ DOMAIN t.names # {} /\ ReadLeaf(t, node) = {} THEN {current}
    ELSE ReadLeaf(t, node)

\* A sequence is read whole or not at all, each element over a default.
ReadSequence(t, node, default, Read(_, _, _)) ==
    IF node.node # "list" THEN {}
    ELSE Complete([i \in DOMAIN node.items |->
                      AsElement(t.of, Read(t.of, node.items[i], default))])

\* An object keeps what current has of the fields that cannot be read.
Updated(current, read) ==
    [f \in DOMAIN read |-> IF read[f] = {} THEN current[f] ELSE CHOOSE v \in read[f] : TRUE]

ReadObject(t, node, current, Read(_, _, _)) ==
    IfDescribed(t, {Updated(current, [f \in DOMAIN t.fields |->
        LET child == Child(node, f)
        IN  IF child = Absent THEN {} ELSE Read(t.fields[f], child, current[f])])})

\* The cook takes sequences of anything.
CookSequence(t, v, Cook(_, _)) == Complete([i \in DOMAIN v |-> Cook(t.of, v[i])])
CookObject(t, v, Cook(_, _)) ==
    IfDescribed(t, Complete([f \in DOMAIN t.fields |-> Cook(t.fields[f], v[f])]))

\* An element that is an enumerator no more is left out of this: the code goes
\* on reading the next one at another place.
UncookSequence(t, c, default, Uncook(_, _, _)) ==
    Complete([i \in DOMAIN c |-> Uncook(t.of, c[i], default)])

\* A record of a field the type no longer has is stepped over.
UncookObject(t, c, current, Uncook(_, _, _)) ==
    IfDescribed(t, {Updated(current, [f \in DOMAIN t.fields |->
        IF f \in DOMAIN c THEN Uncook(t.fields[f], c[f], current[f]) ELSE {}])})
=============================================================================
