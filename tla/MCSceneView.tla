---------------------------- MODULE MCSceneView ----------------------------
(***************************************************************************)
(* One mesh with its own opaque material, two material assets; a module    *)
(* that reads the screen, one that does not, one that does not compile.    *)
(***************************************************************************)
EXTENDS SceneView, TLC

CONSTANTS rock, glass, film, ripple, tint, faulty, texture, small, large

Kind1(mode, module, transmissive) ==
    [mode |-> mode, module |-> module, transmissive |-> transmissive]
Surface1(item, slot) == [item |-> item, mesh |-> rock, slot |-> slot]

MCKinds == {Kind1("blend", tint, FALSE), Kind1("blend", ripple, FALSE),
            Kind1("opaque", ripple, FALSE), Kind1("blend", faulty, FALSE),
            Kind1("blend", Standard, TRUE)}
Symmetry == Permutations({small, large})
MCImported == Kind1("opaque", Standard, FALSE)
MCLists == {<<Surface1(1, Absent), Surface1(1, glass), Surface1(2, film)>>}
=============================================================================
