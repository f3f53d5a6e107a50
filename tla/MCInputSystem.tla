--------------------------- MODULE MCInputSystem ---------------------------
(***************************************************************************)
(* Two keys and a mouse button; a game that jumps and walks, a menu over   *)
(* it and an overlay that watches without consuming.                       *)
(***************************************************************************)
EXTENDS InputSystem

CONSTANTS w, space, left, unknown, jump, walk, pick

Axis(a, negative, positive) ==
    [action |-> a, negativeX |-> negative, positiveX |-> positive,
     negativeY |-> unknown, positiveY |-> unknown]

Game == [digital |-> {<<jump, space>>, <<jump, left>>}, axes |-> <<Axis(walk, unknown, w)>>,
         priority |-> 0, consumes |-> TRUE]
Menu == [digital |-> {<<pick, w>>, <<pick, left>>}, axes |-> << >>,
         priority |-> 1, consumes |-> TRUE]
Overlay == [digital |-> {<<pick, w>>, <<pick, space>>}, axes |-> << >>,
            priority |-> 0, consumes |-> FALSE]
Kinds == {Game, Menu, Overlay}

\* One key to an action, so that no other key can let go of it.
SingleKinds == {[Game EXCEPT !.digital = {<<jump, space>>}], [Menu EXCEPT !.digital = {<<pick, w>>}]}
=============================================================================
