--------------------------- MODULE MCApplication ---------------------------
(***************************************************************************)
(* The editor's two layers with a panel and an overlay that come and go,   *)
(* two modules, one key bound to one action.                               *)
(***************************************************************************)
EXTENDS Application

CONSTANTS fire, unknown, shoot, game, tool, panel, hud

Gameplay == [digital |-> {<<shoot, fire>>}, axes |-> << >>, priority |-> 0, consumes |-> TRUE]
Kinds == {Gameplay}

Both == <<game, tool>>
=============================================================================
