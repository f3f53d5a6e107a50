--------------------------- MODULE MCShaderStore ---------------------------
(***************************************************************************)
(* An engine program, one with the game's module and one whose file is not *)
(* there; two builds, of which the second has another compiler.            *)
(***************************************************************************)
EXTENDS ShaderStore, TLC

CONSTANTS standard, custom, lost, old, new, good, broken

Machine(slang, keeps, env) == [slang |-> slang, keeps |-> keeps, env |-> env]

\* A developer's, and a player's, who has no compiler.
MCMachines == {Machine(TRUE, TRUE, "unset"), Machine(FALSE, FALSE, "unset")}

MCCompilerOf == [b \in Builds |-> b]

Symmetry == Permutations(Builds)

\* What the last program was served changes nothing of what can follow.
WithoutServed ==
    <<text, edits, cooks, launches, process, devFile, archive, cooked, dev, inserted,
      policy, IF job.at = Idle THEN NoJob ELSE job, raced, rendered, promised, owed>>
=============================================================================
