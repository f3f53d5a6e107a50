------------------------------ MODULE MCScene ------------------------------
(***************************************************************************)
(* Three entity slots, four GUIDs and the matrices 0..3, added modulo 4: a *)
(* transform is at 0 or at 1, a sum of two of them is sheared by 2, which  *)
(* taking it apart loses, and the origin is what remains.                  *)
(*                                                                         *)
(* No step and no property of MCScene.cfg reads the previous transforms,   *)
(* so states that differ in them alone count as one there.                 *)
(***************************************************************************)
EXTENDS Scene, TLC

CONSTANTS s1, s2, s3, g1, g2, g3, g4, none

Symmetry == Permutations({s1, s2, s3}) \cup Permutations({g1, g2, g3, g4})

Sum(a, b) == (a + b) % 4
Negative(a) == (4 - a) % 4
Unsheared(a) == a % 2

WithoutPrevious == <<alive, id, byGuid, links, local, current, dirty>>
=============================================================================
