------------------------------ MODULE HotSwap ------------------------------
(***************************************************************************)
(* What hot reloading promises an application, without files, copies or    *)
(* images: the modules it has loaded, in load order, each with the number  *)
(* of times it has been loaded (ModuleHost.hpp, load and reloadChanged).   *)
(***************************************************************************)
EXTENDS Naturals, Sequences

CONSTANT Paths

VARIABLE running  \* the loaded modules: [path, gen]

Init == running = <<>>

\* A load that succeeded.
Start(p) == running' = Append(running, [path |-> p, gen |-> 1])

\* A reload that succeeded: the same module, one generation on.
Swap(i) == running' = [running EXCEPT ![i].gen = @ + 1]

\* Everything goes at once: unloadAll, or the end of the process.
Stop == running # <<>> /\ running' = <<>>

Next ==
    \/ \E p \in Paths : Start(p)
    \/ \E i \in DOMAIN running : Swap(i)
    \/ Stop

Spec == Init /\ [][Next]_running
=============================================================================
