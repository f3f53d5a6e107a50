-------------------------- MODULE SurfacePipeline --------------------------
(***************************************************************************)
(* The pipelines surfaces are drawn through (SurfacePipeline.cpp): one per *)
(* depth policy, alpha mode and shader module, built on the first draw     *)
(* that needs it and kept, a build that failed included.  Building one     *)
(* tells what is known of its module: whether it reads the screen, and     *)
(* what it declares.                                                       *)
(*                                                                         *)
(* The permutations of a module are taken to agree: it compiles or does    *)
(* not, and reads the screen or does not, under all of them.  The device   *)
(* is taken to accept what compiles.                                       *)
(***************************************************************************)
EXTENDS Naturals, Sequences, FiniteSets

CONSTANTS
    Modules,        \* the shader modules a game brings
    ReadsScreen,    \* those that sample the scene's colour or depth
    Broken,         \* those that do not compile
    Standard        \* no module: the engine's own material

ASSUME ModulesAssumption ==
    ReadsScreen \subseteq Modules /\ Broken \subseteq Modules /\ Standard \notin Modules

VARIABLES
    pipelines,      \* what was built: key -> whether there is a pipeline
    use,            \* module -> "unknown", "yes", "no": does it read the screen?
    layouts         \* the modules whose parameters are known

pipelineVars == <<pipelines, use, layouts>>

-----------------------------------------------------------------------------

\* Mutant: pipelines that differ in their depth comparison share a key.
Key_AnyDepth(depth, mode, module) == [depth |-> "writes", mode |-> mode, module |-> module]

\* What a pipeline is kept under: depth comparison, alpha mode and module.
\* The formats and the other flags belong to the renderer and the material.
Key(depth, mode, module) == [depth |-> depth, mode |-> mode, module |-> module]

\* Standard is known not to read; of a module nothing is known until it was built.
ScreenInputUse(module) == IF module = Standard THEN "no" ELSE use[module]

\* Only what blends may read the screen: the snapshot is taken after the
\* opaque pass.  A module that reads it is refused in any other mode.
Refused(key) == key.module \in ReadsScreen /\ key.mode # "blend"

Builds(key) == key.module \notin Broken /\ ~Refused(key)

\* The pipelines with the one a key asks for: nothing is built twice.
WithPipeline(built, key) ==
    [k \in DOMAIN built \union {key} |-> IF k \in DOMAIN built THEN built[k] ELSE Builds(k)]

\* A build reports on its module when it compiles, whether or not the
\* pipeline is then refused.
Learnt(key) == key.module \notin Broken

\* The last build of a module is what is known of it.
UseWith(known, key) ==
    IF key \in DOMAIN pipelines \/ key.module = Standard \/ ~Learnt(key) THEN known
    ELSE [known EXCEPT ![key.module] = IF key.module \in ReadsScreen THEN "yes" ELSE "no"]

LayoutsWith(known, key) ==
    IF key \in DOMAIN pipelines \/ key.module = Standard \/ ~Builds(key) THEN known
    ELSE known \union {key.module}

\* A renderer starts with nothing built.
NothingBuilt ==
    /\ pipelines' = [key \in {} |-> TRUE]
    /\ use' = [module \in Modules |-> "unknown"]
    /\ layouts' = {}
=============================================================================
