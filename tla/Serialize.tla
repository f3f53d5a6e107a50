----------------------------- MODULE Serialize -----------------------------
(***************************************************************************)
(* Reflected values to and from YAML and the binary cook, in objects and    *)
(* sequences of any depth (engine/src/Serialize.cpp over Yaml.cpp).         *)
(***************************************************************************)
EXTENDS Reflected

RECURSIVE Default(_)
Default(t) ==
    CASE t.kind = "sequence" -> <<>>
      [] t.kind = "object" -> [f \in DOMAIN t.fields |-> Default(t.fields[f])]
      [] OTHER -> DefaultLeaf(t)

\* writeReflected and writeProperties.
RECURSIVE WriteValue(_, _)
WriteValue(t, v) ==
    CASE t.kind = "sequence" -> WriteSequence(t, v, WriteValue)
      [] t.kind = "object" -> WriteObject(t, v, WriteValue)
      [] OTHER -> {WriteLeaf(t, v)}

\* readInto and readPropsInto.
RECURSIVE ReadInto(_, _, _)
ReadInto(t, node, current) ==
    CASE t.kind = "sequence" -> ReadSequence(t, node, Default(t.of), ReadInto)
      [] t.kind = "object" -> ReadObject(t, node, current, ReadInto)
      [] OTHER -> ReadLeafOver(t, node, current)

RECURSIVE CookValue(_, _)
CookValue(t, v) ==
    CASE t.kind = "sequence" -> CookSequence(t, v, CookValue)
      [] t.kind = "object" -> CookObject(t, v, CookValue)
      [] OTHER -> {CookLeaf(t, v)}

RECURSIVE UncookValue(_, _, _)
UncookValue(t, c, current) ==
    CASE t.kind = "sequence" -> UncookSequence(t, c, Default(t.of), UncookValue)
      [] t.kind = "object" -> UncookObject(t, c, current, UncookValue)
      [] OTHER -> UncookLeaf(t, c)
=============================================================================
