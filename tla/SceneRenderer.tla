--------------------------- MODULE SceneRenderer ---------------------------
(***************************************************************************)
(* One frame of a scene renderer (SceneRenderer.cpp, with the slots of     *)
(* Material.cpp): a draw list is walked surface by surface, first for what *)
(* is opaque, then, after the screen was copied for those who read it, for *)
(* what blends.  What a draw needs is cached per mesh and per material;    *)
(* the pool these come from, the targets and the textures a game feeds may *)
(* all change between two frames.                                          *)
(***************************************************************************)
EXTENDS SurfacePipeline, FrameTargets

CONSTANTS
    Meshes, Materials,      \* the identities of mesh and material assets
    Kinds,                  \* what a material is: [mode, module, transmissive]
    Imported,               \* the kind of the materials that come with a mesh
    Lists,                  \* the draw lists: sequences of surfaces
    Feeds,                  \* the textures a game layer may feed
    Idle,                   \* between two frames
    MaxEdits                \* bound: how often the pool and the feed change

ASSUME EditsAssumption == MaxEdits \in Nat

\* A list names meshes and slots; the material that comes with a mesh brings
\* no module.
ASSUME ListsAssumption ==
    \A list \in Lists :
        /\ list \in Seq({list[i] : i \in DOMAIN list})
        /\ \A i \in DOMAIN list :
               list[i].mesh \in Meshes /\ list[i].slot \in Materials \union {Absent}
ASSUME KindsAssumption ==
    /\ \A kind \in Kinds : kind.module \in Modules \union {Standard}
    /\ Imported.module = Standard

\* Where an object is and the edit or resize that made it; for a mesh, as
\* history, whether it came to be where its bindings remember another.
Places == [at : Nat, made : Nat]
Models == [at : Nat, made : Nat, mistaken : BOOLEAN]
Screens == Places \union {Absent}
Assets == [kind : Kinds, made : Nat]

\* What a shader's variable is bound to, or Absent for white; and, as history,
\* whether it was set again since.
Slots(views) == [view : views, again : BOOLEAN]

\* What a module's resources were bound for, what is bound for a mesh, and what
\* for a material.
Resources == [generation : Nat, fed : Slots(Feeds \union {Absent})]
Bound == [builtFor : Nat, of : Nat, screen : Slots(Screens)]
Dressed == [source : Assets, screen : Slots(Screens), module : Resources \union {Absent},
            missing : BOOLEAN]

\* What marks that something is not there is none of what could be.
ASSUME MarksAssumption ==
    /\ Idle \notin {"opaque", "blend"}
    /\ Absent \notin Nat \union Materials \union Places \union Resources \union Dressed

VARIABLES
    mesh,       \* pool: mesh -> [at, made, mistaken] or Absent
    material,   \* pool: material -> [kind, made] or Absent
    loaded,     \* pool: the shader modules that are there
    fed,        \* the game's texture, or Absent
    generation, \* how often it changed
    edits,      \* how often pool and feed changed
    bindings,   \* mesh -> what was bound for the model, or Absent
    materials,  \* material -> what was bound for the asset, or Absent
    fallback,   \* what was bound for the missing material, or Absent
    bound,      \* the address of the snapshot the bindings were given
    overwrites, \* may a variable that is not dynamic be set again?
    hasDepth,   \* was this renderer created with a depth target?
    frame,      \* the frame in hand
    draw        \* the last draw submitted, or Absent

poolVars == <<mesh, material, loaded>>
feedVars == <<fed, generation>>
cacheVars == <<bindings, materials, fallback, bound>>
rendererVars == <<pipelineVars, feedVars, cacheVars, overwrites, hasDepth, frame, draw>>

\* The kind the missing-material pattern is drawn with.
MissingKind == [mode |-> "opaque", module |-> Standard, transmissive |-> FALSE]

-----------------------------------------------------------------------------
(* The pool, between two frames.                                           *)

Edit == frame.at = Idle /\ edits < MaxEdits /\ edits' = edits + 1

\* Where a new mesh may be: not where one is that lives.
FreeAddresses ==
    0..Cardinality(Meshes) \ {mesh[m].at : m \in {n \in Meshes : mesh[n] # Absent}}

StoreMesh(m) ==
    /\ Edit
    /\ \E address \in FreeAddresses :
           mesh' = [mesh EXCEPT ![m] =
                        [at |-> address, made |-> edits + 1,
                         mistaken |-> bindings[m] # Absent /\ bindings[m].builtFor = address]]
    /\ UNCHANGED <<material, loaded, rendererVars>>

StoreMaterial(m, kind) ==
    /\ Edit
    /\ material' = [material EXCEPT ![m] = [kind |-> kind, made |-> edits + 1]]
    /\ UNCHANGED <<mesh, loaded, rendererVars>>

Remove(id) ==
    /\ Edit
    /\ mesh' = [m \in Meshes |-> IF m = id THEN Absent ELSE mesh[m]]
    /\ material' = [m \in Materials |-> IF m = id THEN Absent ELSE material[m]]
    /\ UNCHANGED <<loaded, rendererVars>>

LoadShader(module) ==
    /\ Edit /\ module \notin loaded
    /\ loaded' = loaded \union {module}
    /\ UNCHANGED <<mesh, material, rendererVars>>

\* A texture is fed, replaced or, with none, taken away; clearing takes all.
SetGameTexture(view) ==
    /\ Edit
    /\ fed' = view
    /\ generation' = IF view = fed THEN generation ELSE generation + 1
    /\ UNCHANGED <<poolVars, pipelineVars, cacheVars, overwrites, hasDepth, frame, draw>>

-----------------------------------------------------------------------------
(* What a surface is drawn with.                                           *)

\* The slot of a surface: unassigned, so the mesh's own material; or assigned
\* and in the pool; or missing.
Slot(s) == IF s.slot = Absent THEN "unassigned"
           ELSE IF material[s.slot] = Absent THEN "missing" ELSE "assigned"

\* A variable is bound as its set of bindings is made. Set again, one that is
\* not dynamic is left as it is unless the graphics library, which is not part
\* of the sources, lets it be overwritten without being told to.
Made(view) == [view |-> view, again |-> FALSE]
Set(slot, view) == [view |-> IF overwrites THEN view ELSE slot.view, again |-> TRUE]

\* A binding made now is given this frame's snapshot.
Screen == Made(frame.screen)

\* The bindings of a model are those made for it: the same object.
ModelBound(m) == bindings[m] # Absent /\ bindings[m].builtFor = mesh[m].at

EnsureBindings(m) ==
    IF ModelBound(m) THEN bindings[m]
    ELSE [builtFor |-> mesh[m].at, of |-> mesh[m].made, screen |-> Screen]

\* Those of a material are too; a shader that was missing is remembered with them.
MaterialBound(m) == materials[m] # Absent /\ materials[m].source = material[m]

EnsureMaterial(m) ==
    IF MaterialBound(m) THEN materials[m]
    ELSE [source |-> material[m], screen |-> Screen, module |-> Absent,
          missing |-> material[m].kind.module \notin loaded \union {Standard}]

EnsureFallback == IF fallback = Absent THEN [screen |-> Screen] ELSE fallback

\* Does the surface have to be drawn with the missing-material pattern?
Lost(s) ==
    \/ Slot(s) = "missing"
    \/ Slot(s) = "assigned" /\ EnsureMaterial(s.slot).missing

Kind(s) == IF Lost(s) THEN MissingKind
           ELSE IF Slot(s) = "assigned" THEN material[s.slot].kind ELSE Imported

\* Mutant: a module nothing is known of is taken not to read the screen.
ReadsOrMay_Known(kind) == ScreenInputUse(kind.module) = "yes"

\* Unknown counts as reading.
ReadsOrMay(kind) == ScreenInputUse(kind.module) # "no"

\* What blends is drawn in both passes, first for its opaque texels and their
\* depth; not without a depth target, not when it reads the screen, and not
\* when it lets light through.
Prepassed(kind) ==
    kind.mode = "blend" /\ hasDepth /\ ~ReadsOrMay(kind) /\ ~kind.transmissive

InPass(kind) ==
    IF frame.at = "opaque" THEN kind.mode # "blend" \/ Prepassed(kind)
    ELSE kind.mode = "blend"

\* A prepass draw is a masked draw; the blend pass writes no depth where the
\* prepass did.
PassKey(kind) ==
    Key(IF frame.at = "blend" /\ Prepassed(kind) THEN "tests" ELSE "writes",
        IF frame.at = "opaque" /\ Prepassed(kind) THEN "mask" ELSE kind.mode,
        kind.module)

-----------------------------------------------------------------------------
(* The frame.                                                              *)

NoFrame == [at |-> Idle]

\* Every binding that was made is given the snapshot of this frame, when that
\* is not at the address they were given last.
Rebound(cache, screen) ==
    [id \in DOMAIN cache |->
        IF cache[id] = Absent THEN Absent ELSE [cache[id] EXCEPT !.screen = Set(@, screen)]]

\* Mutant: the walk over what is bound leaves out the fallback.
RebindScreenResources_Materials(screen) ==
    /\ bindings' = Rebound(bindings, screen)
    /\ materials' = Rebound(materials, screen)
    /\ UNCHANGED fallback

RebindScreenResources(screen) ==
    /\ bindings' = Rebound(bindings, screen)
    /\ materials' = Rebound(materials, screen)
    /\ fallback' = IF fallback = Absent THEN Absent ELSE [screen |-> Set(fallback.screen, screen)]

\* A frame starts: its list, and the snapshot it may copy the screen to.
BeginFrame(list, screen) ==
    /\ frame.at = Idle
    /\ frame' = [at |-> "opaque", list |-> list, next |-> 1, screen |-> screen,
                 blended |-> {}, demand |-> FALSE, copied |-> FALSE,
                 ready |-> layouts, prepassed |-> {}, shaded |-> [i \in DOMAIN list |-> 0]]
    /\ LET address == IF screen = Absent THEN Absent ELSE screen.at
       IN /\ bound' = address
          /\ IF bound # address THEN RebindScreenResources(screen)
             ELSE UNCHANGED <<bindings, materials, fallback>>
    /\ draw' = Absent
    /\ UNCHANGED <<poolVars, edits, pipelineVars, feedVars, overwrites, hasDepth>>

Surface == frame.list[frame.next]
Walking == frame.at \in {"opaque", "blend"} /\ frame.next \in DOMAIN frame.list

\* A surface whose mesh is not loaded draws nothing; nor, in the second pass,
\* does an item of which nothing blends.
Skipped(s) ==
    \/ mesh[s.mesh] = Absent
    \/ frame.at = "blend" /\ s.item \notin frame.blended

Skip ==
    /\ Walking
    /\ Skipped(Surface)
    /\ frame' = [frame EXCEPT !.next = @ + 1]
    /\ draw' = Absent
    /\ UNCHANGED <<poolVars, edits, pipelineVars, feedVars, cacheVars, overwrites, hasDepth>>

\* What the walk notes: items that blend, and whether any of them reads the
\* screen, or may.
Noted(kind) ==
    [frame EXCEPT !.next = @ + 1,
                  !.blended = IF kind.mode = "blend" THEN @ \union {Surface.item} ELSE @,
                  !.demand = @ \/ (kind.mode = "blend" /\ ReadsOrMay(kind))]

\* The material of the surface with its module's resources, if any were bound.
MaterialsWith(resources) ==
    IF Slot(Surface) # "assigned" THEN materials
    ELSE [materials EXCEPT ![Surface.slot] =
             [EnsureMaterial(Surface.slot) EXCEPT !.module = IF resources = Absent THEN @ ELSE resources]]

\* A surface of the other pass: it is bound, and left.
PassOver ==
    /\ Walking /\ ~Skipped(Surface)
    /\ LET kind == Kind(Surface)
       IN ~InPass(kind) /\ frame' = Noted(kind)
    /\ bindings' = [bindings EXCEPT ![Surface.mesh] = EnsureBindings(Surface.mesh)]
    /\ materials' = MaterialsWith(Absent)
    /\ fallback' = IF Lost(Surface) THEN EnsureFallback ELSE fallback
    /\ draw' = Absent
    /\ UNCHANGED <<poolVars, edits, pipelineVars, feedVars, bound, overwrites, hasDepth>>

\* The resources a module declared, with the texture the game feeds; they are
\* bound again when that has changed.
EnsureModule(m) ==
    LET had == EnsureMaterial(m).module
    IN IF had # Absent /\ had.generation = generation THEN had
       ELSE [generation |-> generation,
             fed |-> IF had = Absent THEN Made(fed) ELSE Set(had.fed, fed)]

\* A surface is drawn. Where its module gives no pipeline, the missing-material
\* pattern is drawn in its place, with the depth policy of the surface.
DrawSurface ==
    /\ Walking /\ ~Skipped(Surface)
    /\ LET kind == Kind(Surface)
           key == PassKey(kind)
           built == WithPipeline(pipelines, key)
           works == built[key]
           custom == works /\ kind.module # Standard
           shown == IF Lost(Surface) \/ ~works THEN "fallback" ELSE Slot(Surface)
           first == frame.at = "opaque" /\ Prepassed(kind)
           resources == IF custom THEN EnsureModule(Surface.slot) ELSE Absent
       IN /\ InPass(kind)
          /\ pipelines' = IF works THEN built
                          ELSE WithPipeline(built, Key(key.depth, "opaque", Standard))
          /\ use' = UseWith(use, key)
          /\ layouts' = LayoutsWith(layouts, key)
          /\ bindings' = [bindings EXCEPT ![Surface.mesh] = EnsureBindings(Surface.mesh)]
          /\ materials' = MaterialsWith(resources)
          /\ fallback' = IF shown = "fallback" THEN EnsureFallback ELSE fallback
          /\ frame' = [Noted(kind) EXCEPT
                           !.prepassed = IF first THEN @ \union {frame.next} ELSE @,
                           !.shaded[frame.next] = IF first /\ works THEN @ ELSE @ + 1]
          /\ draw' =
               [surface |-> frame.next, shown |-> shown, depth |-> key.depth,
                module |-> IF works THEN kind.module ELSE Standard,
                of |-> CASE shown = "fallback" -> Absent
                         [] shown = "assigned" -> materials'[Surface.slot].source.made
                         [] shown = "unassigned" -> bindings'[Surface.mesh].of,
                screen |-> CASE shown = "fallback" -> fallback'.screen
                             [] shown = "assigned" -> materials'[Surface.slot].screen
                             [] shown = "unassigned" -> bindings'[Surface.mesh].screen,
                fed |-> IF resources = Absent THEN Made(Absent) ELSE resources.fed]
    /\ UNCHANGED <<poolVars, edits, feedVars, bound, overwrites, hasDepth>>

\* The opaque pass is over and something blends: the screen is copied if
\* anything reads it and there is somewhere to copy it to.
Snapshot ==
    /\ frame.at = "opaque" /\ ~Walking /\ frame.blended # {}
    /\ frame' = [frame EXCEPT !.at = "blend", !.next = 1,
                              !.copied = frame.demand /\ frame.screen # Absent]
    /\ draw' = Absent
    /\ UNCHANGED <<poolVars, edits, pipelineVars, feedVars, cacheVars, overwrites, hasDepth>>

EndFrame ==
    /\ ~Walking
    /\ frame.at = "blend" \/ (frame.at = "opaque" /\ frame.blended = {})
    /\ frame' = NoFrame
    /\ draw' = Absent
    /\ UNCHANGED <<poolVars, edits, pipelineVars, feedVars, cacheVars, overwrites, hasDepth>>

FrameStep == Skip \/ PassOver \/ DrawSurface \/ Snapshot \/ EndFrame

EditStep ==
    \/ \E m \in Meshes : StoreMesh(m)
    \/ \E m \in Materials, kind \in Kinds : StoreMaterial(m, kind)
    \/ \E id \in Meshes \union Materials : Remove(id)
    \/ \E module \in Modules : LoadShader(module)

-----------------------------------------------------------------------------
(* A renderer comes and goes.                                              *)

Empty ==
    /\ bindings = [m \in Meshes |-> Absent] /\ materials = [m \in Materials |-> Absent]
    /\ fallback = Absent /\ bound = Absent
    /\ fed = Absent /\ generation = 1
    /\ pipelines = [key \in {} |-> TRUE] /\ layouts = {}
    /\ use = [module \in Modules |-> "unknown"]
    /\ frame = NoFrame /\ draw = Absent

\* A renderer is made over, with all of its caches empty.
Renew ==
    /\ bindings' = [m \in Meshes |-> Absent] /\ materials' = [m \in Materials |-> Absent]
    /\ fallback' = Absent /\ bound' = Absent
    /\ fed' = Absent /\ generation' = 1
    /\ NothingBuilt
    /\ frame' = NoFrame /\ draw' = Absent
=============================================================================
