--------------------------- MODULE SceneView_proofs ---------------------------
(***************************************************************************)
(* Proofs about scene views: whoever reads the screen sees the frame it is *)
(* drawn in, every surface is drawn once a frame, nothing is drawn with    *)
(* what has gone, and the depth policy settles after one frame; for any    *)
(* meshes, materials, modules, draw lists and sizes.                       *)
(***************************************************************************)
EXTENDS SceneView, TLAPS

-----------------------------------------------------------------------------
(* The inductive invariant.                                                *)

\* What the variables of the pool, the feed and the caches range over.
TypeInv ==
    /\ mesh \in [Meshes -> Models \union {Absent}]
    /\ material \in [Materials -> Assets \union {Absent}]
    /\ edits \in Nat /\ resizes \in Nat /\ generation \in Nat
    /\ fed \in Feeds \union {Absent}
    /\ bindings \in [Meshes -> Bound \union {Absent}]
    /\ materials \in [Materials -> Dressed \union {Absent}]
    /\ fallback \in [screen : Slots(Screens)] \union {Absent}
    /\ overwrites \in BOOLEAN

\* What was built is what builds, and what is known of a module is true.
PipelinesInv ==
    /\ pipelines = [key \in DOMAIN pipelines |-> Builds(key)]
    /\ use \in [Modules -> {"unknown", "yes", "no"}]
    /\ \A module \in Modules :
           use[module] # "unknown" =>
               module \notin Broken /\ (use[module] = "yes" <=> module \in ReadsScreen)
    /\ layouts \subseteq {module \in Modules : use[module] # "unknown"}

\* Bindings whose address is that of their mesh were made for it, unless the
\* mesh came to be there later.
AddressInv ==
    \A m \in Meshes :
        mesh[m] # Absent /\ ModelBound(m) /\ ~mesh[m].mistaken => bindings[m].of = mesh[m].made

\* Resources of the current generation hold the texture that is fed.
ResourcesInv ==
    \A m \in Materials :
        materials[m] # Absent /\ materials[m].module # Absent =>
            /\ materials[m].module.generation <= generation
            /\ materials[m].module.generation = generation => Follows(materials[m].module.fed, fed)

\* The snapshot of the view.
Snap == IF view # Absent /\ view.inputs THEN View(view.targets, "snapshot") ELSE Absent

AddressOf(screen) == IF screen = Absent THEN Absent ELSE screen.at

\* The snapshot the bindings were given last: where the view's own is at its
\* address, it is that one.
Latest(screen) ==
    /\ bound = AddressOf(screen)
    /\ frame.at # Idle => screen = frame.screen
    /\ screen # Absent /\ Snap # Absent /\ screen.at = Snap.at => screen = Snap

\* A cache holds it, if setting it was all that was needed.
Fits(slot) == overwrites \/ ~slot.again => Latest(slot.view)

ScreensInv ==
    /\ \A m \in Meshes : bindings[m] # Absent => Fits(bindings[m].screen)
    /\ \A m \in Materials : materials[m] # Absent => Fits(materials[m].screen)
    /\ fallback # Absent => Fits(fallback.screen)

\* A view is targets and whether materials may read them.
ViewInv ==
    /\ Snap \in Screens
    /\ view # Absent =>
           view = [targets |-> view.targets, inputs |-> view.inputs]

\* A frame in hand.
Framed(f) == [at |-> f.at, list |-> f.list, next |-> f.next, screen |-> f.screen,
              blended |-> f.blended, demand |-> f.demand, copied |-> f.copied,
              ready |-> f.ready, prepassed |-> f.prepassed, shaded |-> f.shaded]

FrameInv ==
    /\ frame = Framed(frame)
    /\ frame.at \in {"opaque", "blend"}
    /\ frame.list \in Lists
    /\ frame.next \in 1..Len(frame.list) + 1
    /\ frame.screen = Snap /\ bound = AddressOf(Snap)
    /\ frame.ready \subseteq layouts
    /\ frame.shaded = [i \in DOMAIN frame.list |-> frame.shaded[i]]

Present(s) == mesh[s.mesh] # Absent
Blends(s) == Kind(s).mode = "blend"

\* The opaque pass has been over the surface.
Seen(i) == frame.at = "blend" \/ i < frame.next

\* What the opaque pass has noted of a surface that blends.
Noticed(i, kind) ==
    /\ frame.list[i].item \in frame.blended
    /\ ReadsOrMay(kind) => frame.demand
    /\ /\ kind.module \in (frame.ready \union {Standard}) \ ReadsScreen
       /\ ~kind.transmissive /\ hasDepth
       => i \in frame.prepassed

NoticedInv ==
    \A i \in DOMAIN frame.list :
        Seen(i) /\ Present(frame.list[i]) /\ Blends(frame.list[i]) =>
            Noticed(i, Kind(frame.list[i]))

CopiedInv == frame.at = "blend" => frame.copied \/ ~frame.demand \/ frame.screen = Absent

\* Has the pass that counts for the surface been over it?
Counted(i) ==
    Present(frame.list[i])
    /\ IF frame.at = "opaque" THEN i < frame.next /\ ~Blends(frame.list[i])
       ELSE i < frame.next \/ ~Blends(frame.list[i])

ShadedInv ==
    \A i \in DOMAIN frame.list : frame.shaded[i] = IF Counted(i) THEN 1 ELSE 0

Walked ==
    \/ frame = NoFrame /\ draw = Absent
    \/ FrameInv /\ NoticedInv /\ CopiedInv /\ ShadedInv

IInv ==
    /\ TypeInv /\ PipelinesInv /\ AddressInv
    /\ ResourcesInv /\ ScreensInv /\ ViewInv /\ Walked

\* What is said of a draw.
DrawInv ==
    /\ ReadersSeeThisFrame
    /\ BindingsCurrent
    /\ GraceIsOneFrame

-----------------------------------------------------------------------------
(* Between two frames.                                                     *)

LEMMA AtIdle ==
  ASSUME IInv, frame.at = Idle
  PROVE  frame = NoFrame /\ draw = Absent
BY MarksAssumption DEF IInv, Walked, FrameInv

LEMMA InFrame ==
  ASSUME IInv, frame.at # Idle
  PROVE  FrameInv /\ NoticedInv /\ CopiedInv /\ ShadedInv
BY DEF IInv, Walked, NoFrame

\* A draw says what it says until the next one, or is there no more.
LEMMA NothingDrawn ==
  ASSUME draw' = Absent
  PROVE  DrawInv'
BY DEF DrawInv, ReadersSeeThisFrame, BindingsCurrent, GraceIsOneFrame

LEMMA EditKeeps ==
  ASSUME IInv, frame.at = Idle, UNCHANGED <<rendererVars, view, resizes>>,
         TypeInv', AddressInv'
  PROVE  IInv' /\ DrawInv'
<1>1. frame' = NoFrame /\ draw' = Absent
  BY AtIdle DEF rendererVars
<1>2. PipelinesInv'
  BY DEF IInv, PipelinesInv, rendererVars, pipelineVars
<1>3. ResourcesInv'
  BY DEF IInv, ResourcesInv, Follows, rendererVars, feedVars, cacheVars
<1>4. ScreensInv' /\ ViewInv'
  BY DEF IInv, ScreensInv, ViewInv, Fits, Latest, Snap, rendererVars, cacheVars
<1> QED BY <1>1, <1>2, <1>3, <1>4, NothingDrawn DEF IInv, Walked

LEMMA StoreMeshKeeps ==
  ASSUME IInv, NEW m \in Meshes, StoreMesh(m), UNCHANGED <<view, resizes>>
  PROVE  IInv' /\ DrawInv'
<1>1. PICK address \in FreeAddresses :
         mesh' = [mesh EXCEPT ![m] =
                     [at |-> address, made |-> edits + 1,
                      mistaken |-> bindings[m] # Absent /\ bindings[m].builtFor = address]]
  BY DEF StoreMesh
<1>2. /\ TypeInv /\ AddressInv /\ UNCHANGED <<material, rendererVars>>
      /\ frame.at = Idle /\ edits' = edits + 1
  BY DEF IInv, StoreMesh, Edit
<1>3. PICK mistaken \in BOOLEAN :
         mistaken = (bindings[m] # Absent /\ bindings[m].builtFor = address)
  OBVIOUS
<1>4. address \in Nat
  BY DEF FreeAddresses
<1>5. [at |-> address, made |-> edits + 1, mistaken |-> mistaken] \in Models
  BY <1>2, <1>4 DEF TypeInv, Models
<1>6. TypeInv'
  BY <1>1, <1>2, <1>3, <1>5 DEF TypeInv, rendererVars, feedVars, cacheVars
<1>7. ASSUME NEW n \in Meshes, mesh'[n] # Absent, ModelBound(n)', ~mesh'[n].mistaken
      PROVE  bindings'[n].of = mesh'[n].made
  <2>1. bindings' = bindings
    BY <1>2 DEF rendererVars, cacheVars
  <2>2. CASE n = m
    BY <1>1, <1>2, <1>7, <2>1, <2>2 DEF TypeInv, ModelBound
  <2>3. CASE n # m
    BY <1>1, <1>2, <1>7, <2>1, <2>3 DEF TypeInv, ModelBound, AddressInv
  <2> QED BY <2>2, <2>3
<1>8. AddressInv'
  BY <1>7 DEF AddressInv
<1> QED BY <1>2, <1>6, <1>8, EditKeeps

LEMMA StoreMaterialKeeps ==
  ASSUME IInv, NEW m \in Materials, NEW kind \in Kinds, StoreMaterial(m, kind),
         UNCHANGED <<view, resizes>>
  PROVE  IInv' /\ DrawInv'
<1>1. /\ material' = [material EXCEPT ![m] = [kind |-> kind, made |-> edits + 1]]
      /\ UNCHANGED <<mesh, rendererVars>> /\ frame.at = Idle /\ edits' = edits + 1
      /\ TypeInv
  BY DEF IInv, StoreMaterial, Edit
<1>2. TypeInv'
  BY <1>1 DEF TypeInv, Assets, rendererVars, feedVars, cacheVars
<1>3. AddressInv => AddressInv'
  BY <1>1 DEF AddressInv, ModelBound, rendererVars, cacheVars
<1> QED BY <1>1, <1>2, <1>3, EditKeeps DEF IInv

LEMMA RemoveKeeps ==
  ASSUME IInv, NEW id, Remove(id), UNCHANGED <<view, resizes>>
  PROVE  IInv' /\ DrawInv'
<1>1. /\ mesh' = [m \in Meshes |-> IF m = id THEN Absent ELSE mesh[m]]
      /\ material' = [m \in Materials |-> IF m = id THEN Absent ELSE material[m]]
      /\ UNCHANGED rendererVars /\ frame.at = Idle /\ edits' = edits + 1 /\ TypeInv
  BY DEF IInv, Remove, Edit
<1>2. TypeInv'
  BY <1>1 DEF TypeInv, rendererVars, feedVars, cacheVars
<1>3. AddressInv => AddressInv'
  BY <1>1 DEF AddressInv, ModelBound, rendererVars, cacheVars
<1> QED BY <1>1, <1>2, <1>3, EditKeeps DEF IInv

LEMMA LoadShaderKeeps ==
  ASSUME IInv, NEW module \in Modules, LoadShader(module), UNCHANGED <<view, resizes>>
  PROVE  IInv' /\ DrawInv'
<1>1. /\ UNCHANGED <<mesh, material, rendererVars>>
      /\ frame.at = Idle /\ edits' = edits + 1 /\ TypeInv
  BY DEF IInv, LoadShader, Edit
<1>2. TypeInv'
  BY <1>1 DEF TypeInv, rendererVars, feedVars, cacheVars
<1>3. AddressInv => AddressInv'
  BY <1>1 DEF AddressInv, ModelBound, rendererVars, cacheVars
<1> QED BY <1>1, <1>2, <1>3, EditKeeps DEF IInv

LEMMA SetGameTextureKeeps ==
  ASSUME IInv, NEW feed \in Feeds \union {Absent}, SetGameTexture(feed),
         UNCHANGED <<view, resizes>>
  PROVE  IInv' /\ DrawInv'
<1> USE DEF SetGameTexture, Edit, poolVars, pipelineVars, cacheVars
<1>1. frame' = NoFrame /\ draw' = Absent
  BY AtIdle
<1>2. TypeInv /\ generation \in Nat
  BY DEF IInv, TypeInv
<1>3. TypeInv' /\ PipelinesInv' /\ AddressInv'
  BY <1>2 DEF IInv, TypeInv, PipelinesInv, AddressInv, ModelBound
<1>4. ResourcesInv'
  <2> SUFFICES ASSUME NEW m \in Materials, materials[m] # Absent,
                      materials[m].module # Absent
               PROVE  /\ materials[m].module.generation <= generation'
                      /\ materials[m].module.generation = generation'
                            => Follows(materials[m].module.fed, fed)'
    BY DEF ResourcesInv
  <2> DEFINE had == materials[m].module
  <2>1. /\ had.generation <= generation
        /\ had.generation = generation => Follows(had.fed, fed)
    BY DEF IInv, ResourcesInv
  <2>2. had.generation \in Nat
    BY <1>2 DEF TypeInv, Dressed, Resources
  <2>3. CASE feed = fed
    BY <2>1, <2>3 DEF Follows
  <2>4. CASE feed # fed
    <3>1. generation' = generation + 1
      BY <2>4
    <3> HIDE DEF SetGameTexture
    <3>2. had.generation <= generation' /\ had.generation # generation'
      BY <1>2, <2>1, <2>2, <3>1
    <3> QED BY <3>2
  <2> QED BY <2>3, <2>4
<1>5. ScreensInv' /\ ViewInv'
  BY DEF IInv, ScreensInv, ViewInv, Fits, Latest, Snap
<1> QED BY <1>1, <1>3, <1>4, <1>5, NothingDrawn DEF IInv, Walked

-----------------------------------------------------------------------------
(* Views come and go.                                                      *)

LEMMA RenewKeeps ==
  ASSUME IInv, Renew, UNCHANGED <<mesh, material, edits, overwrites>>, resizes' \in Nat, ViewInv'
  PROVE  IInv' /\ DrawInv'
<1> USE DEF Renew, NothingBuilt
<1>1. TypeInv'
  BY DEF IInv, TypeInv
<1>2. PipelinesInv'
  <2>1. pipelines' = [key \in DOMAIN pipelines' |-> Builds(key)]
    OBVIOUS
  <2>2. use' \in [Modules -> {"unknown", "yes", "no"}]
    OBVIOUS
  <2>3. \A module \in Modules : use'[module] = "unknown"
    OBVIOUS
  <2>4. layouts' = {}
    OBVIOUS
  <2> QED BY <2>1, <2>2, <2>3, <2>4 DEF PipelinesInv, Builds, Refused
<1>3. AddressInv'
  BY DEF AddressInv, ModelBound
<1>4. ResourcesInv' /\ ScreensInv'
  BY DEF ResourcesInv, ScreensInv
<1>5. frame' = NoFrame /\ draw' = Absent
  OBVIOUS
<1> QED BY <1>1, <1>2, <1>3, <1>4, <1>5, NothingDrawn DEF IInv, Walked

\* What a set of targets made now is.
LEMMA MadeTargets ==
  ASSUME NEW targets, NEW size, NEW held, resizes \in Nat,
         NEW views \in FreshViews(targets, held)
  PROVE  /\ Built(targets, size, views)
               = [declared |-> targets.declared, built |-> views, size |-> size]
         /\ View(Built(targets, size, views), "snapshot") \in Screens
         /\ View(Built(targets, size, views), "snapshot") # Absent
               => View(Built(targets, size, views), "snapshot").at \notin held
<1>1. Built(targets, size, views)
         = [declared |-> targets.declared, built |-> views, size |-> size]
  BY DEF Built
<1>2. PICK address \in 1..2 \ held :
         views = [name \in targets.declared |->
                     IF name = "snapshot" THEN [at |-> address, made |-> resizes + 1] ELSE name]
  BY DEF FreshViews
<1>3. View(Built(targets, size, views), "snapshot")
         \in {Absent, [at |-> address, made |-> resizes + 1]}
  BY <1>1, <1>2 DEF View
<1>4. [at |-> address, made |-> resizes + 1] \in Places
  BY <1>2 DEF Places
<1> QED BY <1>1, <1>2, <1>3, <1>4 DEF Screens

LEMMA CreateKeeps ==
  ASSUME IInv, NEW size, NEW inputs \in BOOLEAN, Create(size, inputs)
  PROVE  IInv' /\ DrawInv'
<1>1. resizes \in Nat /\ frame.at = Idle /\ UNCHANGED <<mesh, material, edits>>
  BY DEF IInv, TypeInv, Create, Making, poolVars
<1>2. CASE UNCHANGED <<view, rendererVars, resizes>>
  <2>1. TypeInv' /\ AddressInv'
    BY <1>1, <1>2 DEF IInv, TypeInv, AddressInv, ModelBound, rendererVars, feedVars, cacheVars
  <2> QED BY <1>1, <1>2, <2>1, EditKeeps
<1>3. ASSUME NEW views \in FreshViews(Declared(inputs), {}),
             view' = [targets |-> Built(Declared(inputs), size, views), inputs |-> inputs],
             Renew, resizes' = resizes + 1, UNCHANGED overwrites
      PROVE  IInv' /\ DrawInv'
  <2> DEFINE targets == Built(Declared(inputs), size, views)
  <2>1. /\ targets = [declared |-> Declared(inputs).declared, built |-> views, size |-> size]
        /\ View(targets, "snapshot") \in Screens
    BY <1>1, MadeTargets
  <2>2. ViewInv'
    BY <1>3, <2>1 DEF ViewInv, Snap, Screens
  <2>3. resizes' \in Nat
    BY <1>1, <1>3
  <2> QED BY <1>1, <1>3, <2>2, <2>3, RenewKeeps
<1> QED BY <1>2, <1>3 DEF Create

LEMMA ReleaseKeeps ==
  ASSUME IInv, Release
  PROVE  IInv' /\ DrawInv'
<1>1. ViewInv' /\ resizes' \in Nat
  BY DEF IInv, TypeInv, ViewInv, Snap, Screens, Release
<1> QED BY <1>1, RenewKeeps DEF Release, poolVars

\* What a cache holds is at an address no other snapshot is made at.
LEMMA HeldScreens ==
  ASSUME NEW cache, cache # Absent, cache.screen.view # Absent,
         \/ \E m \in Meshes : cache = bindings[m]
         \/ \E m \in Materials : cache = materials[m]
         \/ cache = fallback
  PROVE  cache.screen.view.at \in Held
BY DEF Held

LEMMA ResizeKeeps ==
  ASSUME IInv, NEW size, Resize(size)
  PROVE  IInv' /\ DrawInv'
<1>1. /\ resizes \in Nat /\ UNCHANGED <<mesh, material, edits, rendererVars>>
      /\ frame = NoFrame /\ draw = Absent /\ view # Absent /\ resizes' = resizes + 1
  BY AtIdle DEF IInv, TypeInv, Resize, Making, Valid, poolVars
<1>2. view = [targets |-> view.targets, inputs |-> view.inputs]
  BY <1>1 DEF IInv, ViewInv
<1>3. /\ TypeInv' /\ PipelinesInv' /\ AddressInv' /\ ResourcesInv'
  BY <1>1 DEF IInv, TypeInv, PipelinesInv, AddressInv, ModelBound, ResourcesInv, Follows,
              rendererVars, pipelineVars, feedVars, cacheVars
\* The snapshot is new, and nothing that is held is where it is.
<1>4. ViewInv' /\ (Snap' # Absent => Snap'.at \notin Held)
  <2>1. ASSUME NEW views \in FreshViews(view.targets, Held),
               view' = [view EXCEPT !.targets = Built(@, size, views)]
        PROVE  ViewInv' /\ (Snap' # Absent => Snap'.at \notin Held)
    <3> DEFINE targets == Built(view.targets, size, views)
    <3>1. /\ targets = [declared |-> view.targets.declared, built |-> views, size |-> size]
          /\ View(targets, "snapshot") \in Screens
          /\ View(targets, "snapshot") # Absent => View(targets, "snapshot").at \notin Held
      BY <1>1, <1>2, MadeTargets
    <3>2. view' = [targets |-> targets, inputs |-> view.inputs]
      BY <1>2, <2>1
    <3> HIDE DEF targets
    <3>3. Snap' \in {Absent, View(targets, "snapshot")}
      BY <3>2 DEF Snap
    <3> QED BY <3>1, <3>2, <3>3 DEF ViewInv, Screens
  <2>2. ASSUME view' = [view EXCEPT !.targets = Failed(@, size)]
        PROVE  ViewInv' /\ Snap' = Absent
    <3> DEFINE targets == Failed(view.targets, size)
    <3>1. targets = [declared |-> view.targets.declared,
                     built |-> [name \in {} |-> Absent], size |-> size]
      BY DEF Built, Failed
    <3>2. view' = [targets |-> targets, inputs |-> view.inputs]
      BY <1>2, <2>2
    <3>3. View(targets, "snapshot") = Absent
      BY <3>1 DEF View
    <3> HIDE DEF targets
    <3>4. Snap' = Absent
      BY <3>2, <3>3 DEF Snap
    <3> QED BY <3>1, <3>2, <3>4 DEF ViewInv, Screens
  <2> QED BY <2>1, <2>2 DEF Resize
<1>5. ASSUME NEW cache, cache # Absent, Fits(cache.screen),
             cache.screen.view # Absent => cache.screen.view.at \in Held
      PROVE  Fits(cache.screen)'
  BY <1>1, <1>4, <1>5 DEF Fits, Latest, rendererVars, cacheVars, NoFrame
<1>6. ScreensInv'
  <2>1. ASSUME NEW m \in Meshes, bindings[m] # Absent PROVE Fits(bindings[m].screen)'
    BY <1>1, <1>5, <2>1, HeldScreens DEF IInv, ScreensInv, rendererVars, cacheVars
  <2>2. ASSUME NEW m \in Materials, materials[m] # Absent PROVE Fits(materials[m].screen)'
    BY <1>1, <1>5, <2>2, HeldScreens DEF IInv, ScreensInv, rendererVars, cacheVars
  <2>3. ASSUME fallback # Absent PROVE Fits(fallback.screen)'
    BY <1>1, <1>5, <2>3, HeldScreens DEF IInv, ScreensInv, rendererVars, cacheVars
  <2> QED BY <1>1, <2>1, <2>2, <2>3 DEF ScreensInv, rendererVars, cacheVars
<1>7. frame' = NoFrame /\ draw' = Absent
  BY <1>1 DEF rendererVars
<1> QED BY <1>3, <1>4, <1>6, <1>7, NothingDrawn DEF IInv, Walked

-----------------------------------------------------------------------------
(* A frame starts.                                                         *)

LEMMA InitHolds ==
  ASSUME Init
  PROVE  IInv /\ DrawInv
<1> USE DEF Init, Empty
<1>1. TypeInv
  BY DEF TypeInv, Models, Screens, Assets
<1>2. PipelinesInv
  BY DEF PipelinesInv, Builds, Refused
<1>3. AddressInv /\ ResourcesInv /\ ScreensInv
  BY DEF AddressInv, ModelBound, ResourcesInv, ScreensInv
<1>4. ViewInv
  BY DEF ViewInv, Snap, Screens
<1>5. DrawInv
  BY DEF DrawInv, ReadersSeeThisFrame, BindingsCurrent, GraceIsOneFrame
<1> QED BY <1>1, <1>2, <1>3, <1>4, <1>5 DEF IInv, Walked

\* A frame starts with every cache holding its snapshot.
LEMMA RenderKeeps ==
  ASSUME IInv, NEW list \in Lists, Render(list)
  PROVE  IInv' /\ DrawInv'
<1>1. /\ TypeInv /\ PipelinesInv /\ AddressInv /\ ResourcesInv /\ ScreensInv /\ ViewInv
      /\ frame.at = Idle /\ view # Absent
      /\ UNCHANGED <<poolVars, edits, pipelineVars, feedVars, overwrites, hasDepth, view, resizes>>
      /\ draw' = Absent
  BY DEF IInv, Render, BeginFrame, Valid
<1>2. /\ Snap \in Screens /\ Snap' = Snap
      /\ bound' = AddressOf(Snap)
      /\ IF bound # AddressOf(Snap) THEN RebindScreenResources(Snap)
         ELSE UNCHANGED <<bindings, materials, fallback>>
      /\ frame' = [at |-> "opaque", list |-> list, next |-> 1, screen |-> Snap,
                   blended |-> {}, demand |-> FALSE, copied |-> FALSE, ready |-> layouts,
                   prepassed |-> {}, shaded |-> [i \in DOMAIN list |-> 0]]
  BY <1>1 DEF Render, BeginFrame, Snap, AddressOf, ViewInv
\* What is rebound keeps the rest of what it was.
<1>3. ASSUME bound # AddressOf(Snap)
      PROVE  TypeInv' /\ AddressInv' /\ ResourcesInv' /\ ScreensInv'
  <2>1. ASSUME NEW slot \in Slots(Screens), NEW given, given = Set(slot, Snap)
        PROVE  given \in Slots(Screens) /\ Fits(given)'
    BY <1>1, <1>2, <2>1 DEF Set, Slots, Fits, Latest, AddressOf
  <2>2. ASSUME NEW m \in Meshes
        PROVE  /\ bindings[m] = Absent => bindings'[m] = Absent
               /\ bindings[m] # Absent =>
                     /\ bindings'[m] \in Bound /\ Fits(bindings[m].screen)'
                     /\ bindings'[m].of = bindings[m].of
                     /\ bindings'[m].builtFor = bindings[m].builtFor
    <3>1. bindings'[m] = IF bindings[m] = Absent THEN Absent
                         ELSE [bindings[m] EXCEPT !.screen = Set(@, Snap)]
      BY <1>1, <1>2, <1>3 DEF RebindScreenResources, Rebound, TypeInv
    <3>2. bindings[m] \in Bound \union {Absent}
      BY <1>1 DEF TypeInv
    <3>3. ASSUME bindings[m] # Absent
          PROVE  /\ bindings'[m] \in Bound /\ bindings'[m].screen = Set(bindings[m].screen, Snap)
                 /\ bindings[m].screen \in Slots(Screens)
                 /\ bindings'[m].of = bindings[m].of
                 /\ bindings'[m].builtFor = bindings[m].builtFor
      <4> DEFINE given == Set(bindings[m].screen, Snap)
      <4>1. bindings[m].screen \in Slots(Screens)
        BY <3>2, <3>3 DEF Bound
      <4>2. given \in Slots(Screens)
        BY <2>1, <4>1
      <4>3. bindings'[m] = [bindings[m] EXCEPT !.screen = given]
        BY <3>1, <3>3
      <4> HIDE DEF given
      <4> QED BY <3>2, <3>3, <4>1, <4>2, <4>3 DEF Bound, given
    <3> QED BY <2>1, <3>1, <3>3
  <2>3. ASSUME NEW m \in Materials
        PROVE  /\ materials[m] = Absent => materials'[m] = Absent
               /\ materials[m] # Absent =>
                     /\ materials'[m] \in Dressed /\ Fits(materials[m].screen)'
                     /\ materials'[m].module = materials[m].module
    <3>1. materials'[m] = IF materials[m] = Absent THEN Absent
                          ELSE [materials[m] EXCEPT !.screen = Set(@, Snap)]
      BY <1>1, <1>2, <1>3 DEF RebindScreenResources, Rebound, TypeInv
    <3>2. materials[m] \in Dressed \union {Absent}
      BY <1>1 DEF TypeInv
    <3>3. ASSUME materials[m] # Absent
          PROVE  /\ materials'[m] \in Dressed /\ materials'[m].screen = Set(materials[m].screen, Snap)
                 /\ materials[m].screen \in Slots(Screens)
                 /\ materials'[m].module = materials[m].module
      <4> DEFINE given == Set(materials[m].screen, Snap)
      <4>1. materials[m].screen \in Slots(Screens)
        BY <3>2, <3>3 DEF Dressed
      <4>2. given \in Slots(Screens)
        BY <2>1, <4>1
      <4>3. materials'[m] = [materials[m] EXCEPT !.screen = given]
        BY <3>1, <3>3
      <4> HIDE DEF given
      <4> QED BY <3>2, <3>3, <4>1, <4>2, <4>3 DEF Dressed, given
    <3> QED BY <2>1, <3>1, <3>3
  <2>4. /\ fallback' \in [screen : Slots(Screens)] \union {Absent}
        /\ fallback' # Absent => Fits(fallback.screen)'
    <3>1. fallback' = IF fallback = Absent THEN Absent
                      ELSE [screen |-> Set(fallback.screen, Snap)]
      BY <1>2, <1>3 DEF RebindScreenResources
    <3>2. fallback # Absent => fallback.screen \in Slots(Screens)
      BY <1>1 DEF TypeInv
    <3> QED BY <2>1, <3>1, <3>2
  <2>5. /\ bindings' = [m \in Meshes |-> bindings'[m]]
        /\ materials' = [m \in Materials |-> materials'[m]]
    BY <1>1, <1>2, <1>3 DEF RebindScreenResources, Rebound, TypeInv
  <2>6. bindings' \in [Meshes -> Bound \union {Absent}]
    BY <2>2, <2>5, <1>1 DEF TypeInv
  <2>7. materials' \in [Materials -> Dressed \union {Absent}]
    BY <2>3, <2>5, <1>1 DEF TypeInv
  <2>8. TypeInv'
    BY <1>1, <2>4, <2>6, <2>7 DEF TypeInv, poolVars, feedVars
  <2>9. AddressInv'
    BY <1>1, <2>2 DEF AddressInv, ModelBound, poolVars
  <2>10. ResourcesInv'
    BY <1>1, <2>3 DEF ResourcesInv, Follows, feedVars
  <2>11. ScreensInv'
    BY <2>2, <2>3, <2>4 DEF ScreensInv
  <2> QED BY <2>8, <2>9, <2>10, <2>11
<1>4. ASSUME bound = AddressOf(Snap)
      PROVE  TypeInv' /\ AddressInv' /\ ResourcesInv' /\ ScreensInv'
  <2>1. UNCHANGED <<bindings, materials, fallback>>
    BY <1>2, <1>4
  <2>2. TypeInv' /\ AddressInv' /\ ResourcesInv'
    BY <1>1, <2>1 DEF TypeInv, AddressInv, ModelBound, ResourcesInv, Follows, poolVars, feedVars
  <2>3. ASSUME NEW slot \in Slots(Screens), Fits(slot)
        PROVE  Fits(slot)'
    <3> SUFFICES ASSUME overwrites \/ ~slot.again PROVE Latest(slot.view)'
      BY <1>1 DEF Fits
    <3>1. slot.view \in Screens /\ Latest(slot.view)
      BY <2>3 DEF Fits, Slots
    <3>2. slot.view = Snap
      BY <1>2, <1>4, <3>1, MarksAssumption DEF Latest, AddressOf, Screens, Places
    <3> QED BY <1>2, <3>2 DEF Latest, AddressOf
  <2>4. /\ \A m \in Meshes : bindings[m] # Absent => bindings[m].screen \in Slots(Screens)
        /\ \A m \in Materials : materials[m] # Absent => materials[m].screen \in Slots(Screens)
        /\ fallback # Absent => fallback.screen \in Slots(Screens)
    BY <1>1 DEF TypeInv, Bound, Dressed
  <2>5. ScreensInv'
    BY <1>1, <2>1, <2>3, <2>4 DEF ScreensInv
  <2> QED BY <2>2, <2>5
<1>5. PipelinesInv' /\ ViewInv'
  BY <1>1, <1>2 DEF PipelinesInv, ViewInv, pipelineVars
<1>6. Len(list) \in Nat
  BY ListsAssumption
<1>7. FrameInv'
  BY <1>1, <1>2, <1>6 DEF FrameInv, Framed, AddressOf, pipelineVars
<1>8. NoticedInv' /\ CopiedInv' /\ ShadedInv'
  <2>1. \A i \in DOMAIN list : i \in Nat /\ ~(i < 1)
    BY ListsAssumption
  <2> QED BY <1>2, <2>1 DEF NoticedInv, Seen, CopiedInv, ShadedInv, Counted
<1> QED BY <1>1, <1>3, <1>4, <1>5, <1>7, <1>8, NothingDrawn DEF IInv, Walked

-----------------------------------------------------------------------------
(* The walk.                                                               *)

LEMMA SkippedFrame ==
  ASSUME frame = Framed(frame), NEW f, f = [frame EXCEPT !.next = @ + 1]
  PROVE  /\ f = Framed(f) /\ f.at = frame.at /\ f.list = frame.list /\ f.next = frame.next + 1
         /\ f.screen = frame.screen /\ f.blended = frame.blended /\ f.demand = frame.demand
         /\ f.copied = frame.copied /\ f.ready = frame.ready
         /\ f.prepassed = frame.prepassed /\ f.shaded = frame.shaded
BY DEF Framed

Notes(f, kind) ==
    /\ f.at = frame.at /\ f.list = frame.list /\ f.next = frame.next + 1
    /\ f.screen = frame.screen
    /\ f.blended = IF kind.mode = "blend" THEN frame.blended \union {Surface.item}
                   ELSE frame.blended
    /\ f.demand = (frame.demand \/ (kind.mode = "blend" /\ ReadsOrMay(kind)))
    /\ f.copied = frame.copied /\ f.ready = frame.ready

LEMMA NotedFrame ==
  ASSUME frame = Framed(frame), NEW kind, NEW f, f = Noted(kind)
  PROVE  /\ f = Framed(f) /\ Notes(f, kind)
         /\ f.prepassed = frame.prepassed /\ f.shaded = frame.shaded
BY DEF Framed, Noted, Notes

LEMMA ListTypes ==
  ASSUME NEW list \in Lists
  PROVE  /\ Len(list) \in Nat /\ DOMAIN list = 1..Len(list)
         /\ \A i \in DOMAIN list :
                list[i].mesh \in Meshes /\ list[i].slot \in Materials \union {Absent}
<1> DEFINE S == {list[i] : i \in DOMAIN list}
<1>1. list \in Seq(S)
  BY ListsAssumption
<1> HIDE DEF S
<1>2. Len(list) \in Nat /\ DOMAIN list = 1..Len(list)
  BY <1>1
<1> QED BY <1>2, ListsAssumption

LEMMA WalkingHere ==
  ASSUME IInv, Walking
  PROVE  /\ FrameInv /\ NoticedInv /\ CopiedInv /\ ShadedInv
         /\ frame.next \in DOMAIN frame.list /\ frame.next \in Nat
         /\ frame.next + 1 \in 1..Len(frame.list) + 1
         /\ Surface = frame.list[frame.next]
         /\ Surface.mesh \in Meshes /\ Surface.slot \in Materials \union {Absent}
<1>1. FrameInv /\ NoticedInv /\ CopiedInv /\ ShadedInv /\ frame.next \in DOMAIN frame.list
  BY InFrame, MarksAssumption DEF Walking
<1>2. Len(frame.list) \in Nat /\ frame.next \in 1..Len(frame.list)
  BY <1>1, ListTypes DEF FrameInv
<1>3. frame.next + 1 \in 1..Len(frame.list) + 1
  BY <1>2
<1> QED BY <1>1, <1>2, <1>3, ListTypes DEF FrameInv, Surface

LEMMA InFrameFits ==
  ASSUME FrameInv, ViewInv, NEW slot
  PROVE  /\ frame.screen \in Screens /\ Latest(frame.screen)
         /\ Fits(slot) <=> Follows(slot, frame.screen)
<1>1. frame.screen \in Screens /\ Latest(frame.screen) /\ frame.at # Idle
  BY MarksAssumption DEF FrameInv, ViewInv, Latest
<1> QED BY <1>1 DEF Fits, Follows, Latest

\* What is bound now is bound for the first time.
LEMMA MadeNow ==
  ASSUME NEW views, NEW given \in views
  PROVE  Made(given) \in Slots(views) /\ Follows(Made(given), given)
BY DEF Made, Slots, Follows

LEMMA SetNow ==
  ASSUME NEW views, NEW given \in views, NEW slot \in Slots(views)
  PROVE  Set(slot, given) \in Slots(views) /\ Follows(Set(slot, given), given)
BY DEF Set, Slots, Follows

\* What is bound for a model, an asset or the pattern is this frame's.
LEMMA EnsuredBindings ==
  ASSUME TypeInv, AddressInv, ScreensInv, ViewInv, FrameInv, NEW m \in Meshes, mesh[m] # Absent
  PROVE  /\ EnsureBindings(m) \in Bound /\ Follows(EnsureBindings(m).screen, frame.screen)
         /\ ~mesh[m].mistaken => EnsureBindings(m).of = mesh[m].made
<1>1. mesh[m] \in Models
  BY DEF TypeInv
<1>2. CASE ModelBound(m)
  <2>1. EnsureBindings(m) = bindings[m] /\ bindings[m] \in Bound
    BY <1>2 DEF EnsureBindings, ModelBound, TypeInv
  <2>2. Follows(bindings[m].screen, frame.screen)
    BY <1>2, InFrameFits DEF ModelBound, ScreensInv
  <2> QED BY <1>2, <2>1, <2>2 DEF AddressInv
<1>3. CASE ~ModelBound(m)
  <2>1. EnsureBindings(m) = [builtFor |-> mesh[m].at, of |-> mesh[m].made, screen |-> Screen]
    BY <1>3 DEF EnsureBindings
  <2>2. Screen \in Slots(Screens) /\ Follows(Screen, frame.screen)
    BY InFrameFits, MadeNow DEF Screen
  <2> QED BY <1>1, <2>1, <2>2 DEF Bound, Models
<1> QED BY <1>2, <1>3

LEMMA EnsuredMaterial ==
  ASSUME TypeInv, ScreensInv, ViewInv, FrameInv, ResourcesInv,
         NEW m \in Materials, material[m] # Absent
  PROVE  LET made == EnsureMaterial(m)
         IN /\ made \in Dressed /\ Follows(made.screen, frame.screen) /\ made.source = material[m]
            /\ made.module # Absent =>
                  /\ made.module.generation <= generation
                  /\ made.module.generation = generation => Follows(made.module.fed, fed)
<1>1. material[m] \in Assets
  BY DEF TypeInv
<1>2. CASE MaterialBound(m)
  <2>1. EnsureMaterial(m) = materials[m] /\ materials[m] \in Dressed
        /\ materials[m].source = material[m]
    BY <1>2 DEF EnsureMaterial, MaterialBound, TypeInv
  <2>2. Follows(materials[m].screen, frame.screen)
    BY <1>2, InFrameFits DEF MaterialBound, ScreensInv
  <2> QED BY <1>2, <2>1, <2>2 DEF ResourcesInv, MaterialBound
<1>3. CASE ~MaterialBound(m)
  <2>1. EnsureMaterial(m) =
          [source |-> material[m], screen |-> Screen, module |-> Absent,
           missing |-> material[m].kind.module \notin loaded \union {Standard}]
    BY <1>3 DEF EnsureMaterial
  <2>2. (material[m].kind.module \notin loaded \union {Standard}) \in BOOLEAN
    OBVIOUS
  <2>3. Screen \in Slots(Screens) /\ Follows(Screen, frame.screen)
    BY InFrameFits, MadeNow DEF Screen
  <2>4. EnsureMaterial(m) \in Dressed
    BY <1>1, <2>1, <2>2, <2>3 DEF Dressed
  <2> QED BY <2>1, <2>3, <2>4
<1> QED BY <1>2, <1>3

LEMMA EnsuredFallback ==
  ASSUME TypeInv, ScreensInv, ViewInv, FrameInv
  PROVE  /\ EnsureFallback \in [screen : Slots(Screens)]
         /\ Follows(EnsureFallback.screen, frame.screen)
<1>1. CASE fallback = Absent
  <2>1. Screen \in Slots(Screens) /\ Follows(Screen, frame.screen)
    BY InFrameFits, MadeNow DEF Screen
  <2> QED BY <1>1, <2>1 DEF EnsureFallback
<1>2. CASE fallback # Absent
  BY <1>2, InFrameFits DEF EnsureFallback, TypeInv, ScreensInv
<1> QED BY <1>1, <1>2

\* The pool, the feed and the view stay as they are during a frame.
Stays == UNCHANGED <<poolVars, edits, feedVars, bound, overwrites, hasDepth, view, resizes>>

\* A surface is bound: its mesh, its material, the pattern.
LEMMA BoundKeeps ==
  ASSUME IInv, FrameInv, Stays, Walking, ~Skipped(Surface),
         NEW resources \in Resources \union {Absent},
         resources # Absent => resources.generation = generation /\ Follows(resources.fed, fed),
         bindings' = [bindings EXCEPT ![Surface.mesh] = EnsureBindings(Surface.mesh)],
         materials' = MaterialsWith(resources),
         fallback' \in {fallback, EnsureFallback},
         frame'.screen = frame.screen
  PROVE  /\ TypeInv' /\ ResourcesInv' /\ ScreensInv' /\ ViewInv'
         /\ AddressInv'
         /\ Slot(Surface) = "assigned" => materials'[Surface.slot] \in Dressed
<1> DEFINE m == Surface.mesh
           n == Surface.slot
<1> USE DEF Stays, poolVars, feedVars
<1>1. /\ TypeInv /\ AddressInv /\ ResourcesInv /\ ScreensInv /\ ViewInv
      /\ m \in Meshes /\ mesh[m] # Absent /\ n \in Materials \union {Absent}
  BY WalkingHere DEF IInv, Skipped
<1>2. ViewInv' /\ Snap' = Snap
  BY <1>1 DEF ViewInv, Snap
<1>3. \A slot : Follows(slot, frame.screen) => Fits(slot)'
  BY <1>1, <1>2, InFrameFits DEF Fits, Latest, Follows, AddressOf
<1>4. /\ bindings' \in [Meshes -> Bound \union {Absent}]
      /\ \A k \in Meshes : bindings'[k] # Absent => Follows(bindings'[k].screen, frame.screen)
  <2>1. \A k \in Meshes : bindings[k] # Absent => Follows(bindings[k].screen, frame.screen)
    BY <1>1, InFrameFits DEF ScreensInv
  <2> QED BY <1>1, <2>1, EnsuredBindings DEF TypeInv
<1>5. ASSUME Slot(Surface) = "assigned"
      PROVE  /\ n \in Materials /\ material[n] # Absent
             /\ materials' = [materials EXCEPT ![n] = materials'[n]]
             /\ materials'[n] \in Dressed /\ Follows(materials'[n].screen, frame.screen)
             /\ materials'[n].module # Absent =>
                   /\ materials'[n].module.generation <= generation
                   /\ materials'[n].module.generation = generation
                         => Follows(materials'[n].module.fed, fed)
  <2>1. n \in Materials /\ material[n] # Absent
    BY <1>1, <1>5 DEF Slot
  <2> DEFINE made == EnsureMaterial(n)
  <2>2. /\ made \in Dressed /\ Follows(made.screen, frame.screen)
        /\ made.module # Absent => /\ made.module.generation <= generation
                                   /\ made.module.generation = generation => Follows(made.module.fed, fed)
    BY <1>1, <2>1, EnsuredMaterial
  <2>3. materials' = [materials EXCEPT ![n] =
                        [made EXCEPT !.module = IF resources = Absent THEN @ ELSE resources]]
    BY <1>5 DEF MaterialsWith
  <2> HIDE DEF made
  <2>4. materials'[n] = [made EXCEPT !.module = IF resources = Absent THEN @ ELSE resources]
        /\ materials' = [materials EXCEPT ![n] = materials'[n]]
    BY <1>1, <2>1, <2>3 DEF TypeInv
  <2>5. /\ materials'[n] \in Dressed /\ materials'[n].screen = made.screen
        /\ materials'[n].module = IF resources = Absent THEN made.module ELSE resources
    BY <2>2, <2>4 DEF Dressed
  <2>6. generation \in Nat
    BY <1>1 DEF TypeInv
  <2>7. resources # Absent => resources.generation <= generation
    BY <2>6
  <2> QED BY <2>1, <2>2, <2>4, <2>5, <2>7
<1>6. Slot(Surface) # "assigned" => materials' = materials
  BY DEF MaterialsWith
<1>7. /\ materials' \in [Materials -> Dressed \union {Absent}]
      /\ \A k \in Materials : materials'[k] # Absent => Follows(materials'[k].screen, frame.screen)
  <2>1. \A k \in Materials : materials[k] # Absent => Follows(materials[k].screen, frame.screen)
    BY <1>1, InFrameFits DEF ScreensInv
  <2> QED BY <1>1, <1>5, <1>6, <2>1 DEF TypeInv
<1>8. ResourcesInv'
  <2>1. CASE Slot(Surface) # "assigned"
    BY <1>1, <1>6, <2>1 DEF ResourcesInv, Follows
  <2>2. CASE Slot(Surface) = "assigned"
    <3>1. \A k \in Materials : k # n => materials'[k] = materials[k]
      BY <1>1, <1>5, <2>2 DEF TypeInv
    <3> QED BY <1>1, <1>5, <2>2, <3>1 DEF ResourcesInv, Follows
  <2> QED BY <2>1, <2>2
<1>9. /\ fallback' \in [screen : Slots(Screens)] \union {Absent}
      /\ fallback' # Absent => Follows(fallback'.screen, frame.screen)
  <2>1. fallback # Absent => Follows(fallback.screen, frame.screen)
    BY <1>1, InFrameFits DEF ScreensInv
  <2> QED BY <1>1, <2>1, EnsuredFallback DEF TypeInv
<1>10. TypeInv'
  BY <1>1, <1>4, <1>7, <1>9 DEF TypeInv
<1>11. ScreensInv'
  BY <1>3, <1>4, <1>7, <1>9 DEF ScreensInv
<1>12. AddressInv'
  <2>1. ASSUME NEW k \in Meshes, mesh[k] # Absent, ModelBound(k)', ~mesh[k].mistaken
        PROVE  bindings'[k].of = mesh[k].made
    <3>1. CASE k = m
      BY <1>1, <2>1, <3>1, EnsuredBindings DEF TypeInv
    <3>2. CASE k # m
      BY <1>1, <2>1, <3>2 DEF TypeInv, AddressInv, ModelBound
    <3> QED BY <3>1, <3>2
  <2> QED BY <2>1 DEF AddressInv
<1> QED BY <1>2, <1>5, <1>8, <1>10, <1>11, <1>12

\* What a surface is drawn with does not change during a frame: neither the
\* pool does, nor what was found missing.
LEMMA KindStays ==
  ASSUME TypeInv, UNCHANGED poolVars, NEW resources,
         materials' = MaterialsWith(resources),
         Slot(Surface) = "assigned" => materials'[Surface.slot] \in Dressed,
         Surface.slot \in Materials \union {Absent},
         NEW s, s.slot \in Materials \union {Absent}
  PROVE  Kind(s)' = Kind(s) /\ Slot(s)' = Slot(s) /\ Lost(s)' = Lost(s)
<1> USE DEF poolVars
<1>1. Slot(s)' = Slot(s)
  BY DEF Slot
<1>2. ASSUME Slot(s) = "assigned"
      PROVE  EnsureMaterial(s.slot)'.missing = EnsureMaterial(s.slot).missing
  <2> DEFINE n == Surface.slot
             made == EnsureMaterial(n)
  <2>1. s.slot \in Materials /\ material[s.slot] # Absent
    BY <1>2 DEF Slot
  <2>2. CASE materials'[s.slot] = materials[s.slot]
    BY <2>2 DEF EnsureMaterial, MaterialBound, Screen
  <2>3. ASSUME Slot(Surface) = "assigned", s.slot = n, materials' = MaterialsWith(resources)
        PROVE  EnsureMaterial(s.slot)'.missing = EnsureMaterial(s.slot).missing
    <3>1. made = [source |-> material[n], screen |-> made.screen, module |-> made.module,
                  missing |-> made.missing]
      <4>1. materials[n] \in Dressed \union {Absent}
        BY <2>1, <2>3 DEF TypeInv
      <4> QED BY <4>1 DEF EnsureMaterial, MaterialBound, Dressed
    <3>2. materials'[n] = [made EXCEPT !.module = IF resources = Absent THEN @ ELSE resources]
      BY <2>1, <2>3 DEF MaterialsWith, TypeInv
    <3> HIDE DEF made
    <3>3. materials'[n].source = material[n] /\ materials'[n].missing = made.missing
      BY <3>1, <3>2
    <3>4. materials'[n] # Absent
      BY <2>3, MarksAssumption
    <3> QED BY <2>3, <3>3, <3>4 DEF EnsureMaterial, MaterialBound, made
  <2>4. s.slot # n \/ Slot(Surface) # "assigned" => materials'[s.slot] = materials[s.slot]
    BY <2>1 DEF MaterialsWith, TypeInv
  <2> QED BY <2>2, <2>3, <2>4
<1> QED BY <1>1, <1>2 DEF Lost, Kind

LEMMA KindModule ==
  ASSUME TypeInv, NEW s, s.slot \in Materials \union {Absent}
  PROVE  Kind(s).module \in Modules \union {Standard}
<1>1. material \in [Materials -> Assets \union {Absent}]
  BY DEF TypeInv
<1> QED BY <1>1, KindsAssumption DEF Kind, MissingKind, Slot, Assets

\* A module known not to read the screen stays known.
StillKnown == \A module \in Modules : use[module] = "no" => use'[module] = "no"

LEMMA ReadsStays ==
  ASSUME StillKnown, NEW kind, kind.module \in Modules \union {Standard}, ReadsOrMay(kind)'
  PROVE  ReadsOrMay(kind)
BY DEF StillKnown, ReadsOrMay, ScreenInputUse

\* What the walk notes of a surface keeps what is noted of all.
LEMMA NotedKeeps ==
  ASSUME FrameInv, NoticedInv, CopiedInv, frame.next \in DOMAIN frame.list,
         \A i \in DOMAIN frame.list :
             Kind(frame.list[i])' = Kind(frame.list[i])
             /\ Present(frame.list[i])' = Present(frame.list[i]),
         PipelinesInv, hasDepth' = hasDepth,
         StillKnown,
         \A i \in DOMAIN frame.list : Kind(frame.list[i]).module \in Modules \union {Standard},
         NEW kind, kind = Kind(Surface),
         Notes(frame', kind), frame.prepassed \subseteq frame'.prepassed,
         frame.at = "opaque" /\ Prepassed(kind) => frame.next \in frame'.prepassed
  PROVE  NoticedInv'
<1>1. DOMAIN frame.list \subseteq Nat
  BY ListTypes DEF FrameInv
<1> PICK here : here = frame.next
  OBVIOUS
<1>2. ReadsOrMay(kind) \in BOOLEAN
  BY DEF ReadsOrMay
<1> USE DEF Notes
<1>3. /\ frame.blended \subseteq frame'.blended
      /\ frame.demand => frame'.demand
      /\ kind.mode = "blend" => Surface.item \in frame'.blended
      /\ kind.mode = "blend" /\ ReadsOrMay(kind) => frame'.demand
  BY <1>2
<1>4. /\ ReadsOrMay(kind)' => ReadsOrMay(kind)
      /\ kind.module \in (frame.ready \union {Standard}) \ ReadsScreen => ~ReadsOrMay(kind)
  <2>1. kind.module \in Modules \union {Standard}
    BY DEF Surface
  <2> QED BY <2>1, ReadsStays, ModulesAssumption
          DEF PipelinesInv, FrameInv, ReadsOrMay, ScreenInputUse
<1>5. frame.at = "opaque" => Noticed(here, kind)' \/ kind.mode # "blend"
  BY <1>3, <1>4 DEF Noticed, Prepassed, Surface
<1>6. ASSUME NEW i \in DOMAIN frame.list, NEW k, Noticed(i, k), ReadsOrMay(k)' => ReadsOrMay(k)
      PROVE  Noticed(i, k)'
  BY <1>3, <1>6 DEF Noticed
<1>7. ASSUME NEW i \in DOMAIN frame.list, Seen(i)', Present(frame.list[i]),
             Kind(frame.list[i]).mode = "blend"
      PROVE  Noticed(i, Kind(frame.list[i]))'
  <2>1. CASE Seen(i)
    <3>1. Noticed(i, Kind(frame.list[i]))
      BY <1>7, <2>1 DEF NoticedInv, Blends
    <3> QED BY <1>6, <1>7, <3>1, ReadsStays DEF Noticed
  <2>2. CASE ~Seen(i)
    <3>1. frame.at = "opaque" /\ i = here
      BY <1>1, <1>7, <2>2 DEF Seen, FrameInv
    <3>2. Kind(frame.list[i])' = kind
      BY <3>1 DEF Surface
    <3> QED BY <1>5, <1>7, <3>1, <3>2 DEF Surface
  <2> QED BY <2>1, <2>2
<1> QED BY <1>7 DEF NoticedInv, Blends

\* One surface counts now, or has counted already: the others are what they were.
LEMMA ShadedKeeps ==
  ASSUME FrameInv, ShadedInv, frame.next \in DOMAIN frame.list,
         \A i \in DOMAIN frame.list :
             Kind(frame.list[i])' = Kind(frame.list[i])
             /\ Present(frame.list[i])' = Present(frame.list[i]),
         frame'.at = frame.at, frame'.list = frame.list, frame'.next = frame.next + 1,
         NEW times,
         times = IF Present(Surface) /\ (frame.at = "blend" \/ ~Blends(Surface)) THEN 1 ELSE 0,
         frame'.shaded = [frame.shaded EXCEPT ![frame.next] = times]
  PROVE  ShadedInv' /\ frame'.shaded = [i \in DOMAIN frame.list |-> frame'.shaded[i]]
<1> PICK here : here = frame.next
  OBVIOUS
<1>1. /\ DOMAIN frame.list \subseteq Nat /\ here \in DOMAIN frame.list
      /\ frame.at \in {"opaque", "blend"}
      /\ frame.shaded = [i \in DOMAIN frame.list |-> frame.shaded[i]]
  BY ListTypes DEF FrameInv
<1>2. \A i \in DOMAIN frame.list : Blends(frame.list[i])' = Blends(frame.list[i])
  BY DEF Blends
<1>3. \A i \in DOMAIN frame.list : i # here => (i < here + 1 <=> i < here)
  BY <1>1
<1>4. here < here + 1 /\ ~(here < here)
  BY <1>1
<1>5. \A i \in DOMAIN frame.list : i # here => Counted(i)' = Counted(i)
  BY <1>1, <1>2, <1>3 DEF Counted
<1>6. times = IF Counted(here)' THEN 1 ELSE 0
  BY <1>1, <1>2, <1>4 DEF Counted, Surface
<1>7. /\ frame'.shaded[here] = times
      /\ \A i \in DOMAIN frame.list : i # here => frame'.shaded[i] = frame.shaded[i]
  BY <1>1
<1>8. ASSUME NEW i \in DOMAIN frame.list
      PROVE  frame'.shaded[i] = IF Counted(i)' THEN 1 ELSE 0
  BY <1>5, <1>6, <1>7 DEF ShadedInv
<1> QED BY <1>1, <1>8 DEF ShadedInv

\* What every surface the pass has not come to counts: one that does not blend
\* after the opaque pass.
LEMMA CountedBefore ==
  ASSUME FrameInv, ShadedInv, frame.next \in DOMAIN frame.list
  PROVE  frame.shaded[frame.next]
            = IF Present(Surface) /\ frame.at = "blend" /\ ~Blends(Surface) THEN 1 ELSE 0
<1>1. ~(frame.next < frame.next)
  BY ListTypes DEF FrameInv
<1> QED BY <1>1 DEF ShadedInv, Counted, Surface, FrameInv

\* A surface is left as it is counted.
LEMMA SameShaded ==
  ASSUME FrameInv, frame.next \in DOMAIN frame.list, NEW times, times = frame.shaded[frame.next]
  PROVE  frame.shaded = [frame.shaded EXCEPT ![frame.next] = times]
BY DEF FrameInv

LEMMA SkipKeeps ==
  ASSUME IInv, Skip, UNCHANGED <<view, resizes>>
  PROVE  IInv' /\ DrawInv' /\ frame'.at # Idle
<1>1. /\ FrameInv /\ NoticedInv /\ CopiedInv /\ ShadedInv
      /\ frame.next \in DOMAIN frame.list /\ frame.next + 1 \in 1..Len(frame.list) + 1
      /\ Surface = frame.list[frame.next]
  BY WalkingHere DEF Skip
<1>2. /\ Skipped(Surface) /\ draw' = Absent
      /\ UNCHANGED <<poolVars, edits, pipelineVars, feedVars, cacheVars, overwrites, hasDepth, view, resizes>>
      /\ frame' = Framed(frame') /\ frame'.at = frame.at /\ frame'.list = frame.list
      /\ frame'.next = frame.next + 1
      /\ frame'.screen = frame.screen /\ frame'.blended = frame.blended
      /\ frame'.demand = frame.demand
      /\ frame'.copied = frame.copied /\ frame'.ready = frame.ready
      /\ frame'.prepassed = frame.prepassed /\ frame'.shaded = frame.shaded
  <2>1. frame' = [frame EXCEPT !.next = @ + 1]
    BY DEF Skip
  <2>2. frame = Framed(frame)
    BY <1>1 DEF FrameInv
  <2> HIDE DEF Skip
  <2> QED BY <2>1, <2>2, SkippedFrame DEF Skip
<1>3. TypeInv' /\ PipelinesInv' /\ AddressInv' /\ ResourcesInv'
  BY <1>2 DEF IInv, TypeInv, PipelinesInv, AddressInv, ModelBound, ResourcesInv, Follows,
              poolVars, pipelineVars, feedVars, cacheVars
<1>4. ViewInv' /\ Snap' = Snap
  BY <1>2 DEF IInv, ViewInv, Snap
<1>5. ScreensInv'
  BY <1>2, <1>4 DEF IInv, ScreensInv, Fits, Latest, cacheVars
<1>6. ASSUME NEW s
      PROVE  Kind(s)' = Kind(s) /\ Present(s)' = Present(s)
  BY <1>2 DEF Kind, Lost, Slot, EnsureMaterial, MaterialBound, Screen, Present,
              poolVars, cacheVars
<1>7. CopiedInv'
  BY <1>1, <1>2 DEF CopiedInv
<1>8. Present(Surface) => frame.at = "blend" /\ ~Blends(Surface)
  BY <1>1, <1>2 DEF Skipped, Present, NoticedInv, Seen, Noticed
<1>9. ShadedInv' /\ frame'.shaded = [i \in DOMAIN frame.list |-> frame'.shaded[i]]
  <2> DEFINE times == frame.shaded[frame.next]
  <2>1. times = IF Present(Surface) /\ (frame.at = "blend" \/ ~Blends(Surface)) THEN 1 ELSE 0
    BY <1>1, <1>8, CountedBefore
  <2>2. frame'.shaded = [frame.shaded EXCEPT ![frame.next] = times]
    BY <1>1, <1>2, SameShaded
  <2> HIDE DEF times
  <2> QED BY <1>1, <1>2, <1>6, <2>1, <2>2, ShadedKeeps
<1>10. FrameInv'
  BY <1>1, <1>2, <1>4, <1>9 DEF FrameInv, pipelineVars, cacheVars, AddressOf
<1>11. NoticedInv'
  <2>1. DOMAIN frame.list \subseteq Nat
    BY <1>1, ListTypes DEF FrameInv
  <2>2. ASSUME NEW i \in DOMAIN frame.list, Seen(i)', Present(frame.list[i]), Blends(frame.list[i])
        PROVE  Seen(i)
    <3>1. frame.at # "blend" => i # frame.next
      BY <1>1, <1>8, <2>2
    <3>2. i < frame.next + 1 /\ i # frame.next => i < frame.next
      BY <1>1, <2>1 DEF FrameInv
    <3> QED BY <1>2, <2>2, <3>1, <3>2 DEF Seen
  <2>3. \A i \in DOMAIN frame.list : \A k : Noticed(i, k) <=> Noticed(i, k)'
    BY <1>2 DEF Noticed, ReadsOrMay, ScreenInputUse, pipelineVars
  <2> QED BY <1>1, <1>2, <1>6, <2>2, <2>3 DEF NoticedInv, Blends
<1>12. frame'.at # Idle
  BY <1>10, MarksAssumption DEF FrameInv
<1> QED BY <1>2, <1>3, <1>4, <1>5, <1>7, <1>9, <1>10, <1>11, <1>12, NothingDrawn DEF IInv, Walked

\* What a pass makes of a surface it does not skip, whether it is drawn or left.
LEMMA VisitKeeps ==
  ASSUME IInv, Stays, Walking, ~Skipped(Surface),
         PipelinesInv', layouts \subseteq layouts', StillKnown,
         NEW resources \in Resources \union {Absent},
         resources # Absent => resources.generation = generation /\ Follows(resources.fed, fed),
         bindings' = [bindings EXCEPT ![Surface.mesh] = EnsureBindings(Surface.mesh)],
         materials' = MaterialsWith(resources),
         fallback' \in {fallback, EnsureFallback},
         NEW kind, kind = Kind(Surface), frame' = Framed(frame'), Notes(frame', kind),
         frame.prepassed \subseteq frame'.prepassed,
         frame.at = "opaque" /\ Prepassed(kind) => frame.next \in frame'.prepassed,
         NEW times, times = IF frame.at = "blend" \/ ~Blends(Surface) THEN 1 ELSE 0,
         frame'.shaded = [frame.shaded EXCEPT ![frame.next] = times]
  PROVE  /\ IInv'
         /\ \A i \in DOMAIN frame.list : Kind(frame.list[i])' = Kind(frame.list[i])
<1>1. /\ FrameInv /\ NoticedInv /\ CopiedInv /\ ShadedInv
      /\ frame.next \in DOMAIN frame.list /\ frame.next + 1 \in 1..Len(frame.list) + 1
      /\ Surface = frame.list[frame.next] /\ Surface.slot \in Materials \union {Absent}
      /\ frame.at \in {"opaque", "blend"} /\ frame.list \in Lists
  BY WalkingHere DEF FrameInv
<1>2. /\ frame'.at = frame.at /\ frame'.list = frame.list /\ frame'.next = frame.next + 1
      /\ frame'.screen = frame.screen
      /\ frame'.demand = (frame.demand \/ (kind.mode = "blend" /\ ReadsOrMay(kind)))
      /\ frame'.copied = frame.copied /\ frame'.ready = frame.ready
  BY DEF Notes
<1>3. /\ TypeInv' /\ ResourcesInv' /\ ScreensInv' /\ ViewInv'
      /\ AddressInv'
      /\ Slot(Surface) = "assigned" => materials'[Surface.slot] \in Dressed
  BY <1>1, <1>2, BoundKeeps
<1>4. UNCHANGED poolVars /\ TypeInv /\ PipelinesInv
  BY DEF Stays, IInv
<1>5. \A i \in DOMAIN frame.list :
          Kind(frame.list[i])' = Kind(frame.list[i])
          /\ Present(frame.list[i])' = Present(frame.list[i])
  <2>1. ASSUME NEW i \in DOMAIN frame.list
        PROVE  Kind(frame.list[i])' = Kind(frame.list[i])
               /\ Present(frame.list[i])' = Present(frame.list[i])
    <3> PICK s : s = frame.list[i]
      OBVIOUS
    <3>1. s.slot \in Materials \union {Absent}
      BY <1>1, ListTypes
    <3>2. Kind(s)' = Kind(s)
      BY <1>1, <1>3, <1>4, <3>1, KindStays
    <3> QED BY <1>2, <1>4, <3>2 DEF Present, poolVars
  <2> QED BY <2>1
<1>6. \A i \in DOMAIN frame.list : Kind(frame.list[i]).module \in Modules \union {Standard}
  BY <1>1, <1>4, ListTypes, KindModule
<1>7. NoticedInv'
  BY <1>1, <1>2, <1>4, <1>5, <1>6, NotedKeeps DEF Stays
<1>8. Present(Surface)
  BY DEF Skipped, Present
<1>9. ShadedInv' /\ frame'.shaded = [i \in DOMAIN frame.list |-> frame'.shaded[i]]
  BY <1>1, <1>2, <1>5, <1>8, ShadedKeeps
<1>10. Snap' = Snap /\ bound' = bound /\ UNCHANGED <<hasDepth>>
  BY DEF Snap, Stays
<1>11. FrameInv'
  BY <1>1, <1>2, <1>9, <1>10 DEF FrameInv, AddressOf
\* Whatever blends in the blend pass has been noted before.
<1>12. CopiedInv'
  <2>1. CASE frame.at = "opaque"
    BY <1>2, <2>1 DEF CopiedInv
  <2>2. CASE frame.at = "blend" /\ ~(kind.mode = "blend" /\ ReadsOrMay(kind))
    <3>1. frame'.demand = (frame.demand \/ FALSE)
      BY <1>2, <2>2
    <3> QED BY <1>1, <1>2, <3>1 DEF CopiedInv
  <2>3. CASE frame.at = "blend" /\ kind.mode = "blend" /\ ReadsOrMay(kind)
    <3>1. frame.demand
      BY <1>1, <1>8, <2>3 DEF NoticedInv, Noticed, Seen, Blends
    <3>2. frame'.demand = (TRUE \/ TRUE)
      BY <1>2, <2>3, <3>1
    <3> QED BY <1>1, <1>2, <3>1 DEF CopiedInv
  <2> QED BY <1>1, <2>1, <2>2, <2>3
<1> QED BY <1>3, <1>5, <1>7, <1>9, <1>11, <1>12 DEF IInv, Walked

LEMMA PassOverKeeps ==
  ASSUME IInv, PassOver, UNCHANGED <<view, resizes>>
  PROVE  IInv' /\ DrawInv' /\ frame'.at # Idle
<1> PICK kind : kind = Kind(Surface)
  OBVIOUS
<1>1. /\ Walking /\ ~Skipped(Surface) /\ ~InPass(kind) /\ frame' = Noted(kind)
      /\ draw' = Absent /\ Stays /\ UNCHANGED pipelineVars
  BY DEF PassOver, Stays
<1>2. /\ FrameInv /\ ShadedInv /\ frame.next \in DOMAIN frame.list
      /\ frame.at \in {"opaque", "blend"} /\ frame = Framed(frame)
  BY <1>1, WalkingHere DEF FrameInv
<1>3. /\ frame' = Framed(frame') /\ Notes(frame', kind)
      /\ frame'.prepassed = frame.prepassed /\ frame'.shaded = frame.shaded
  BY <1>1, <1>2, NotedFrame
<1>4. PipelinesInv' /\ layouts' = layouts /\ StillKnown
  BY <1>1 DEF IInv, PipelinesInv, StillKnown, pipelineVars
<1>5. ~(frame.at = "opaque" /\ Prepassed(kind))
  BY <1>1 DEF InPass
<1>6. (frame.at = "blend" \/ ~Blends(Surface)) <=> (frame.at = "blend" /\ ~Blends(Surface))
  BY <1>1, <1>2 DEF InPass, Blends
<1> DEFINE times == IF frame.at = "blend" \/ ~Blends(Surface) THEN 1 ELSE 0
<1>7. frame'.shaded = [frame.shaded EXCEPT ![frame.next] = times]
  <2>1. times = frame.shaded[frame.next]
    BY <1>1, <1>2, <1>6, CountedBefore DEF Skipped, Present
  <2> HIDE DEF times
  <2> QED BY <1>2, <1>3, <2>1, SameShaded
<1>8. /\ bindings' = [bindings EXCEPT ![Surface.mesh] = EnsureBindings(Surface.mesh)]
      /\ materials' = MaterialsWith(Absent) /\ fallback' \in {fallback, EnsureFallback}
  BY DEF PassOver
<1> HIDE DEF times
<1>9. IInv'
  BY <1>1, <1>3, <1>4, <1>5, <1>7, <1>8, VisitKeeps DEF times
<1> QED BY <1>1, <1>2, <1>3, <1>9, NothingDrawn, MarksAssumption DEF Notes

LEMMA SnapshotKeeps ==
  ASSUME IInv, Snapshot, UNCHANGED <<view, resizes>>
  PROVE  IInv' /\ DrawInv' /\ frame'.at # Idle
<1>1. /\ frame.at = "opaque" /\ ~Walking /\ draw' = Absent
      /\ frame' = [frame EXCEPT !.at = "blend", !.next = 1,
                                !.copied = frame.demand /\ frame.screen # Absent]
      /\ UNCHANGED <<poolVars, edits, pipelineVars, feedVars, cacheVars, overwrites, hasDepth, view, resizes>>
  BY DEF Snapshot
<1>2. FrameInv /\ NoticedInv /\ ShadedInv /\ frame = Framed(frame)
  BY <1>1, InFrame, MarksAssumption DEF FrameInv
<1>3. /\ frame' = Framed(frame') /\ frame'.at = "blend" /\ frame'.list = frame.list
      /\ frame'.next = 1 /\ frame'.screen = frame.screen /\ frame'.blended = frame.blended
      /\ frame'.demand = frame.demand /\ frame'.ready = frame.ready
      /\ frame'.copied = (frame.demand /\ frame.screen # Absent)
      /\ frame'.prepassed = frame.prepassed /\ frame'.shaded = frame.shaded
  BY <1>1, <1>2 DEF Framed
<1>4. /\ Len(frame.list) \in Nat /\ DOMAIN frame.list = 1..Len(frame.list)
      /\ \A i \in DOMAIN frame.list : i < frame.next /\ ~(i < 1)
  <2>1. /\ Len(frame.list) \in Nat /\ DOMAIN frame.list = 1..Len(frame.list)
        /\ frame.next \in 1..Len(frame.list) + 1 /\ frame.next \notin DOMAIN frame.list
    BY <1>1, <1>2, ListTypes DEF FrameInv, Walking
  <2> QED BY <2>1
<1>5. TypeInv' /\ PipelinesInv' /\ AddressInv' /\ ResourcesInv'
  BY <1>1 DEF IInv, TypeInv, PipelinesInv, AddressInv, ModelBound, ResourcesInv, Follows,
              poolVars, pipelineVars, feedVars, cacheVars
<1>6. ViewInv' /\ Snap' = Snap
  BY <1>1 DEF IInv, ViewInv, Snap
<1>7. ScreensInv'
  <2>1. frame.at # Idle
    BY <1>1, MarksAssumption
  <2> QED BY <1>1, <1>3, <1>6, <2>1 DEF IInv, ScreensInv, Fits, Latest, cacheVars
<1>8. ASSUME NEW s
      PROVE  Kind(s)' = Kind(s) /\ Present(s)' = Present(s)
  <2>1. frame'.screen = frame.screen
    BY <1>3
  <2> QED BY <1>1, <2>1 DEF Kind, Lost, Slot, EnsureMaterial, MaterialBound, Screen, Present,
                            poolVars, cacheVars
<1>9. FrameInv'
  BY <1>1, <1>2, <1>3, <1>4, <1>6 DEF FrameInv, pipelineVars, cacheVars, AddressOf
<1>10. NoticedInv'
  <2>1. \A i \in DOMAIN frame.list : Seen(i)
    BY <1>4 DEF Seen
  <2>2. \A i \in DOMAIN frame.list : \A k : Noticed(i, k) => Noticed(i, k)'
    BY <1>1, <1>3 DEF Noticed, ReadsOrMay, ScreenInputUse, pipelineVars
  <2> QED BY <1>2, <1>3, <1>8, <2>1, <2>2 DEF NoticedInv, Blends
<1>11. CopiedInv'
  BY <1>3 DEF CopiedInv
<1>12. ShadedInv'
  <2>1. \A i \in DOMAIN frame.list : Blends(frame.list[i])' = Blends(frame.list[i])
    BY <1>3, <1>8 DEF Blends
  <2>2. \A i \in DOMAIN frame.list : Counted(i)' <=> Counted(i)
    BY <1>1, <1>3, <1>4, <1>8, <2>1 DEF Counted
  <2> QED BY <1>2, <1>3, <2>2 DEF ShadedInv
<1> QED BY MarksAssumption, <1>1, <1>3, <1>5, <1>6, <1>7, <1>9, <1>10, <1>11, <1>12, NothingDrawn
        DEF IInv, Walked

LEMMA EndFrameKeeps ==
  ASSUME IInv, EndFrame, UNCHANGED <<view, resizes>>
  PROVE  IInv' /\ DrawInv'
<1>1. /\ frame' = NoFrame /\ draw' = Absent /\ frame'.at = Idle
      /\ UNCHANGED <<poolVars, edits, pipelineVars, feedVars, cacheVars, overwrites, hasDepth, view, resizes>>
  BY DEF EndFrame, NoFrame
<1>2. TypeInv' /\ PipelinesInv' /\ AddressInv' /\ ResourcesInv'
  BY <1>1 DEF IInv, TypeInv, PipelinesInv, AddressInv, ModelBound, ResourcesInv, Follows,
              poolVars, pipelineVars, feedVars, cacheVars
<1>3. ViewInv' /\ Snap' = Snap
  BY <1>1 DEF IInv, ViewInv, Snap
<1>4. ScreensInv'
  BY <1>1, <1>3 DEF IInv, ScreensInv, Fits, Latest, cacheVars
<1> QED BY <1>1, <1>2, <1>3, <1>4, NothingDrawn DEF IInv, Walked

\* A frame is over when the pass that counts has been over every surface.
LEMMA DrawnOnceStep ==
  ASSUME IInv, EndFrame, NEW i \in DOMAIN frame.list
  PROVE  frame.shaded[i] = IF mesh[frame.list[i].mesh] = Absent THEN 0 ELSE 1
<1>1. frame.at # Idle
  BY MarksAssumption DEF EndFrame
<1>2. FrameInv /\ NoticedInv /\ ShadedInv
  BY <1>1, InFrame
<1>3. i < frame.next
  <2>1. /\ Len(frame.list) \in Nat /\ DOMAIN frame.list = 1..Len(frame.list)
        /\ frame.next \in 1..Len(frame.list) + 1 /\ frame.next \notin DOMAIN frame.list
    BY <1>2, ListTypes DEF FrameInv, Walking, EndFrame
  <2> QED BY <2>1
<1>4. CASE frame.at = "blend"
  BY <1>2, <1>3, <1>4 DEF ShadedInv, Counted, Present
<1>5. CASE frame.at = "opaque" /\ frame.blended = {}
  <2>1. Present(frame.list[i]) => ~Blends(frame.list[i])
    BY <1>2, <1>3, <1>5 DEF NoticedInv, Noticed, Seen
  <2> QED BY <1>2, <1>3, <1>5, <2>1 DEF ShadedInv, Counted, Present
<1> QED BY <1>4, <1>5 DEF EndFrame

-----------------------------------------------------------------------------
(* A draw.                                                                 *)

LEMMA WithBuilds ==
  ASSUME PipelinesInv, NEW key
  PROVE  /\ WithPipeline(pipelines, key)
               = [k \in DOMAIN pipelines \union {key} |-> Builds(k)]
         /\ WithPipeline(pipelines, key)[key] = Builds(key)
BY DEF PipelinesInv, WithPipeline

\* What a build tells of a module is true, and never another thing than before.
LEMMA BuiltKeeps ==
  ASSUME PipelinesInv, NEW key, key.module \in Modules \union {Standard}, NEW other,
         pipelines' = IF Builds(key) THEN WithPipeline(pipelines, key)
                      ELSE WithPipeline(WithPipeline(pipelines, key), other),
         use' = UseWith(use, key), layouts' = LayoutsWith(layouts, key)
  PROVE  PipelinesInv' /\ StillKnown /\ layouts \subseteq layouts'
<1>1. pipelines' = [k \in DOMAIN pipelines' |-> Builds(k)]
  BY WithBuilds DEF WithPipeline
<1>2. CASE key \in DOMAIN pipelines \/ key.module = Standard \/ ~Learnt(key)
  <2>1. use' = use /\ layouts' = layouts
    BY <1>2 DEF UseWith, LayoutsWith, Learnt, Builds
  <2> QED BY <1>1, <2>1 DEF PipelinesInv, StillKnown, Builds, Refused
<1>3. CASE ~(key \in DOMAIN pipelines \/ key.module = Standard \/ ~Learnt(key))
  <2> PICK m \in Modules : m = key.module
    BY <1>3
  <2>1. /\ m \notin Broken
        /\ use' = [use EXCEPT ![m] = IF m \in ReadsScreen THEN "yes" ELSE "no"]
        /\ layouts' \in {layouts, layouts \union {m}}
    BY <1>3 DEF UseWith, LayoutsWith, Learnt
  <2>2. /\ use \in [Modules -> {"unknown", "yes", "no"}]
        /\ \A n \in Modules : use[n] # "unknown" =>
               n \notin Broken /\ (use[n] = "yes" <=> n \in ReadsScreen)
        /\ layouts \subseteq {n \in Modules : use[n] # "unknown"}
    BY DEF PipelinesInv
  <2>3. /\ use' \in [Modules -> {"unknown", "yes", "no"}]
        /\ use'[m] = IF m \in ReadsScreen THEN "yes" ELSE "no"
        /\ \A n \in Modules : n # m => use'[n] = use[n]
    BY <2>1, <2>2
  <2>4. \A n \in Modules : use'[n] # "unknown" =>
               n \notin Broken /\ (use'[n] = "yes" <=> n \in ReadsScreen)
    BY <2>1, <2>2, <2>3
  <2>5. layouts' \subseteq {n \in Modules : use'[n] # "unknown"}
    BY <2>1, <2>2, <2>3
  <2>6. StillKnown
    BY <2>2, <2>3 DEF StillKnown
  <2> QED BY <1>1, <2>1, <2>3, <2>4, <2>5, <2>6 DEF PipelinesInv, Builds, Refused
<1> QED BY <1>2, <1>3

\* A prepass is through a pipeline that is there: its module is known.
LEMMA PrepassBuilds ==
  ASSUME PipelinesInv, NEW kind, kind.module \in Modules \union {Standard}, Prepassed(kind)
  PROVE  Builds(PassKey(kind))
<1>1. PassKey(kind).module = kind.module
  BY DEF PassKey, Key
<1> QED BY <1>1, ModulesAssumption DEF PipelinesInv, Prepassed, ReadsOrMay, ScreenInputUse,
                                        Builds, Refused

LEMMA DrawSurfaceKeeps ==
  ASSUME IInv, DrawSurface, UNCHANGED <<view, resizes>>
  PROVE  IInv' /\ DrawInv' /\ frame'.at # Idle
<1> PICK kind : kind = Kind(Surface)
  OBVIOUS
<1> PICK here : here = frame.next
  OBVIOUS
<1> DEFINE key == PassKey(kind)
           built == WithPipeline(pipelines, key)
           works == built[key]
           custom == works /\ kind.module # Standard
           shown == IF Lost(Surface) \/ ~works THEN "fallback" ELSE Slot(Surface)
           first == frame.at = "opaque" /\ Prepassed(kind)
           resources == IF custom THEN EnsureModule(Surface.slot) ELSE Absent
<1>1. /\ Walking /\ ~Skipped(Surface) /\ InPass(kind) /\ Stays
      /\ pipelines' = IF works THEN built
                      ELSE WithPipeline(built, Key(key.depth, "opaque", Standard))
      /\ use' = UseWith(use, key) /\ layouts' = LayoutsWith(layouts, key)
      /\ bindings' = [bindings EXCEPT ![Surface.mesh] = EnsureBindings(Surface.mesh)]
      /\ materials' = MaterialsWith(resources)
      /\ fallback' = IF shown = "fallback" THEN EnsureFallback ELSE fallback
  BY DEF DrawSurface, Stays
<1>2. frame' = [Noted(kind) EXCEPT
                    !.prepassed = IF first THEN @ \union {here} ELSE @,
                    !.shaded[here] = IF first /\ works THEN @ ELSE @ + 1]
  BY DEF DrawSurface
<1>3. draw' =
        [surface |-> here, shown |-> shown, depth |-> key.depth,
         module |-> IF works THEN kind.module ELSE Standard,
         of |-> CASE shown = "fallback" -> Absent
                  [] shown = "assigned" -> materials'[Surface.slot].source.made
                  [] shown = "unassigned" -> bindings'[Surface.mesh].of,
         screen |-> CASE shown = "fallback" -> fallback'.screen
                      [] shown = "assigned" -> materials'[Surface.slot].screen
                      [] shown = "unassigned" -> bindings'[Surface.mesh].screen,
         fed |-> IF resources = Absent THEN Made(Absent) ELSE resources.fed]
  BY DEF DrawSurface
<1> HIDE DEF key, built, works, custom, shown, first, resources
<1>4. /\ FrameInv /\ ShadedInv /\ NoticedInv /\ CopiedInv
      /\ TypeInv /\ PipelinesInv /\ ScreensInv /\ ViewInv /\ ResourcesInv
      /\ here \in DOMAIN frame.list /\ Surface = frame.list[here]
      /\ frame.at \in {"opaque", "blend"} /\ frame = Framed(frame)
      /\ Surface.mesh \in Meshes /\ Surface.slot \in Materials \union {Absent}
      /\ Present(Surface) /\ Surface = frame.list[frame.next]
  BY <1>1, WalkingHere DEF FrameInv, IInv, Skipped, Present
<1>5. kind.module \in Modules \union {Standard} /\ key.module = kind.module
  BY <1>4, KindModule DEF key, PassKey, Key
<1>6. works = Builds(key) /\ works \in BOOLEAN
  BY <1>4, WithBuilds DEF works, built, Builds
<1>7. PipelinesInv' /\ StillKnown /\ layouts \subseteq layouts'
  BY <1>1, <1>4, <1>5, <1>6, BuiltKeeps DEF built
<1>8. first => works
  BY <1>4, <1>5, <1>6, PrepassBuilds DEF first, key
\* A module's resources are those of what is fed now.
<1>9. /\ custom => /\ Slot(Surface) = "assigned" /\ ~Lost(Surface)
                   /\ Surface.slot \in Materials /\ kind = material[Surface.slot].kind
      /\ resources \in Resources \union {Absent}
      /\ resources # Absent => resources.generation = generation /\ Follows(resources.fed, fed)
      /\ custom => resources # Absent
  <2>1. ASSUME custom
        PROVE  /\ Slot(Surface) = "assigned" /\ ~Lost(Surface)
               /\ Surface.slot \in Materials /\ material[Surface.slot] # Absent
               /\ kind = material[Surface.slot].kind
    BY <1>4, <2>1, KindsAssumption DEF custom, Kind, MissingKind, Slot
  <2>2. ASSUME custom
        PROVE  /\ EnsureModule(Surface.slot) \in Resources
               /\ EnsureModule(Surface.slot).generation = generation
               /\ Follows(EnsureModule(Surface.slot).fed, fed)
    <3> PICK had : had = EnsureMaterial(Surface.slot).module
      OBVIOUS
    <3>1. /\ had \in Resources \union {Absent}
          /\ had # Absent /\ had.generation = generation => Follows(had.fed, fed)
      BY <1>4, <2>1, <2>2, EnsuredMaterial DEF Dressed
    <3>2. generation \in Nat /\ fed \in Feeds \union {Absent}
      BY <1>4 DEF TypeInv
    <3> PICK given : given = IF had = Absent THEN Made(fed) ELSE Set(had.fed, fed)
      OBVIOUS
    <3>3. EnsureModule(Surface.slot) = IF had # Absent /\ had.generation = generation THEN had
                                       ELSE [generation |-> generation, fed |-> given]
      BY DEF EnsureModule
    <3>4. had # Absent => had.fed \in Slots(Feeds \union {Absent})
      BY <3>1 DEF Resources
    <3>5. given \in Slots(Feeds \union {Absent}) /\ Follows(given, fed)
      BY <3>2, <3>4, MadeNow, SetNow
    <3> QED BY <3>1, <3>2, <3>3, <3>5 DEF Resources
  <2> QED BY <2>1, <2>2, MarksAssumption DEF resources
<1> PICK times : times = IF first /\ works THEN frame.shaded[here] ELSE frame.shaded[here] + 1
  OBVIOUS
<1>10. /\ frame' = Framed(frame') /\ Notes(frame', kind)
       /\ frame'.prepassed = IF first THEN frame.prepassed \union {here} ELSE frame.prepassed
       /\ frame'.shaded = [frame.shaded EXCEPT ![here] = times]
  <2> PICK f : f = Noted(kind)
    OBVIOUS
  <2>1. /\ f = Framed(f) /\ Notes(f, kind)
        /\ f.prepassed = frame.prepassed /\ f.shaded = frame.shaded
    BY <1>4, NotedFrame
  <2>2. frame' = [f EXCEPT !.prepassed = IF first THEN @ \union {here} ELSE @,
                           !.shaded[here] = IF first /\ works THEN @ ELSE @ + 1]
    BY <1>2
  <2>3. /\ frame' = Framed(frame') /\ frame'.at = f.at /\ frame'.list = f.list
        /\ frame'.next = f.next /\ frame'.screen = f.screen /\ frame'.blended = f.blended
        /\ frame'.demand = f.demand /\ frame'.copied = f.copied /\ frame'.ready = f.ready
        /\ frame'.prepassed = IF first THEN f.prepassed \union {here} ELSE f.prepassed
        /\ frame'.shaded = [f.shaded EXCEPT ![here] =
                               IF first /\ works THEN @ ELSE @ + 1]
    BY <2>1, <2>2 DEF Framed
  <2> QED BY <2>1, <2>3 DEF Notes
\* The draw is the one that counts, but for a prepass.
<1>11. times = IF frame.at = "blend" \/ ~Blends(Surface) THEN 1 ELSE 0
  <2>1. frame.shaded[here] = IF Present(Surface) /\ frame.at = "blend" /\ ~Blends(Surface)
                             THEN 1 ELSE 0
    BY <1>4, CountedBefore
  <2>2. first => Blends(Surface) /\ frame.at = "opaque"
    BY DEF first, Prepassed, Blends
  <2>3. ~first => Blends(Surface) <=> frame.at = "blend"
    BY <1>1, <1>4 DEF first, InPass, Blends
  <2>4. frame.shaded[here] = 0
    BY <1>4, <2>1, <2>2, <2>3
  <2>5. CASE first
    BY <1>8, <2>2, <2>4, <2>5, <1>4
  <2>6. CASE ~first
    <3>1. frame.at = "blend" \/ ~Blends(Surface)
      BY <1>4, <2>3, <2>6
    <3>2. times = frame.shaded[here] + 1
      BY <2>6
    <3> QED BY <2>4, <3>1, <3>2
  <2> QED BY <2>5, <2>6
<1>12. fallback' \in {fallback, EnsureFallback}
  BY <1>1
<1>13. /\ frame.prepassed \subseteq frame'.prepassed
       /\ frame.at = "opaque" /\ Prepassed(kind) => here \in frame'.prepassed
  BY <1>10 DEF first
<1>14. /\ IInv'
       /\ \A i \in DOMAIN frame.list : Kind(frame.list[i])' = Kind(frame.list[i])
  BY <1>1, <1>7, <1>9, <1>10, <1>11, <1>12, <1>13, VisitKeeps
\* What is said of the draw.
<1>15. /\ draw'.surface = here /\ draw'.shown = shown /\ draw'.depth = key.depth
       /\ draw'.module = IF works THEN kind.module ELSE Standard
       /\ shown = "assigned" => /\ draw'.of = materials'[Surface.slot].source.made
                                /\ draw'.screen = materials'[Surface.slot].screen
       /\ shown = "unassigned" => /\ draw'.of = bindings'[Surface.mesh].of
                                  /\ draw'.screen = bindings'[Surface.mesh].screen
       /\ shown = "fallback" => draw'.screen = fallback'.screen
       /\ draw'.fed = IF resources = Absent THEN Made(Absent) ELSE resources.fed
  BY <1>3
<1>16. /\ frame'.at = frame.at /\ frame'.list = frame.list /\ frame'.screen = frame.screen
       /\ frame'.copied = frame.copied /\ frame'.ready = frame.ready
       /\ UNCHANGED <<poolVars, feedVars, overwrites, hasDepth>> /\ Drawn' = Surface
       /\ Kind(frame.list[here])' = kind
  BY <1>1, <1>4, <1>10, <1>14, <1>15 DEF Notes, Stays, Drawn
<1>17. shown \in {"fallback", "assigned", "unassigned"}
       /\ (shown = "assigned" => Slot(Surface) = "assigned")
       /\ (shown = "unassigned" => Slot(Surface) = "unassigned")
       /\ (shown # "fallback" => ~Lost(Surface) /\ works)
  BY DEF shown, Slot, Lost
<1>18. shown = "unassigned" =>
          /\ Follows(bindings'[Surface.mesh].screen, frame.screen)
          /\ ~mesh[Surface.mesh].mistaken => bindings'[Surface.mesh].of = mesh[Surface.mesh].made
  <2>1. bindings'[Surface.mesh] = EnsureBindings(Surface.mesh)
    BY <1>1, <1>4 DEF TypeInv
  <2>2. mesh[Surface.mesh] # Absent
    BY <1>4 DEF Present
  <2> QED BY <1>4, <2>1, <2>2, EnsuredBindings DEF IInv
<1>19. shown = "assigned" =>
          /\ Follows(materials'[Surface.slot].screen, frame.screen)
          /\ materials'[Surface.slot].source = material[Surface.slot]
  <2> SUFFICES ASSUME Slot(Surface) = "assigned"
               PROVE  /\ Follows(materials'[Surface.slot].screen, frame.screen)
                      /\ materials'[Surface.slot].source = material[Surface.slot]
    BY <1>17
  <2> PICK made : made = EnsureMaterial(Surface.slot)
    OBVIOUS
  <2>1. Surface.slot \in Materials /\ material[Surface.slot] # Absent
    BY <1>4 DEF Slot
  <2>2. /\ made \in Dressed /\ Follows(made.screen, frame.screen)
        /\ made.source = material[Surface.slot]
    BY <1>4, <2>1, EnsuredMaterial
  <2>3. materials'[Surface.slot] =
           [made EXCEPT !.module = IF resources = Absent THEN @ ELSE resources]
    BY <1>1, <1>4, <2>1 DEF MaterialsWith, TypeInv
  <2> QED BY <2>2, <2>3 DEF Dressed
<1>20. Follows(draw'.screen, frame.screen) /\ overwrites' = overwrites
  <2>1. shown = "fallback" => Follows(fallback'.screen, frame.screen)
    BY <1>1, <1>4, EnsuredFallback
  <2> QED BY <1>15, <1>16, <1>17, <1>18, <1>19, <2>1
\* A module that reads the screen only has pipelines that blend.
<1>21. ReadersSeeThisFrame'
  <2> SUFFICES ASSUME draw'.module \in ReadsScreen
               PROVE  frame.at = "blend" /\ (frame.copied \/ frame.screen = Absent)
    BY <1>16, <1>20 DEF ReadersSeeThisFrame, Follows
  <2>1. works /\ kind.module \in ReadsScreen /\ kind.module # Standard
    BY <1>15, ModulesAssumption
  <2>2. key.mode = "blend"
    BY <1>5, <1>6, <2>1 DEF Builds, Refused
  <2>3. frame.at = "blend" /\ kind.mode = "blend"
    BY <1>1, <1>4, <2>2 DEF key, PassKey, Key, InPass
  <2>4. ReadsOrMay(kind)
    BY <1>4, <2>1, ModulesAssumption DEF PipelinesInv, ReadsOrMay, ScreenInputUse
  <2>5. frame.demand
    BY <1>4, <2>3, <2>4 DEF NoticedInv, Noticed, Seen, Blends
  <2> QED BY <1>4, <2>3, <2>5 DEF CopiedInv
<1>22. BindingsCurrent'
  <2>1. draw'.module # Standard => Follows(draw'.fed, fed)
    BY <1>9, <1>15 DEF custom
  <2> QED BY <1>15, <1>16, <1>18, <1>19, <1>20, <2>1
          DEF BindingsCurrent, Follows, poolVars, feedVars
<1>23. GraceIsOneFrame'
  <2> SUFFICES ASSUME frame.at = "blend", hasDepth, shown # "fallback",
                      kind.module \in (frame.ready \union {Standard}) \ ReadsScreen,
                      ~kind.transmissive
               PROVE  here \in frame'.prepassed /\ key.depth = "tests"
    BY <1>4, <1>15, <1>16 DEF GraceIsOneFrame, Drawn
  <2>1. kind.mode = "blend"
    BY <1>1, <1>4 DEF InPass
  <2>2. ~ReadsOrMay(kind)
    BY <1>4, ModulesAssumption DEF PipelinesInv, FrameInv, ReadsOrMay, ScreenInputUse
  <2>3. here \in frame.prepassed
    BY <1>4, <2>1 DEF NoticedInv, Noticed, Seen, Blends
  <2>4. key.depth = "tests"
    BY <2>1, <2>2 DEF key, PassKey, Key, Prepassed
  <2> QED BY <1>13, <2>3, <2>4
<1> QED BY <1>4, <1>14, <1>16, <1>21, <1>22, <1>23, MarksAssumption DEF DrawInv

-----------------------------------------------------------------------------
(* The theorems.                                                           *)

LEMMA NextKeeps ==
  ASSUME IInv, DrawInv, [Next]_vars
  PROVE  IInv' /\ DrawInv'
<1>1. CASE UNCHANGED vars
  <2> USE DEF vars, poolVars, rendererVars, pipelineVars, feedVars, cacheVars
  <2>1. TypeInv' /\ PipelinesInv' /\ AddressInv' /\ ResourcesInv'
    BY <1>1 DEF IInv, TypeInv, PipelinesInv, AddressInv, ModelBound, ResourcesInv, Follows
  <2>2. ScreensInv' /\ ViewInv'
    BY <1>1 DEF IInv, ScreensInv, ViewInv, Fits, Latest, Snap
  <2>3. \A s : Kind(s)' = Kind(s) /\ Present(s)' = Present(s)
    BY <1>1 DEF Kind, Lost, Slot, EnsureMaterial, MaterialBound, Screen, Present
  <2>4. FrameInv => FrameInv'
    BY <1>1 DEF FrameInv, Framed, Snap, AddressOf
  <2>5. (NoticedInv => NoticedInv') /\ (ShadedInv => ShadedInv') /\ (CopiedInv => CopiedInv')
    BY <1>1, <2>3 DEF NoticedInv, Noticed, Seen, Blends, ReadsOrMay, ScreenInputUse,
                      ShadedInv, Counted, CopiedInv
  <2>6. Walked'
    BY <1>1, <2>4, <2>5 DEF IInv, Walked, NoFrame
  <2>7. DrawInv'
    BY <1>1, <2>3 DEF DrawInv, ReadersSeeThisFrame, BindingsCurrent, Follows, GraceIsOneFrame, Drawn
  <2> QED BY <2>1, <2>2, <2>6, <2>7 DEF IInv
<1>2. CASE EditStep /\ UNCHANGED <<view, resizes>>
  <2>1. CASE \E m \in Meshes : StoreMesh(m)
    BY <1>2, <2>1, StoreMeshKeeps
  <2>2. CASE \E m \in Materials, kind \in Kinds : StoreMaterial(m, kind)
    BY <1>2, <2>2, StoreMaterialKeeps
  <2>3. CASE \E id \in Meshes \union Materials : Remove(id)
    BY <1>2, <2>3, RemoveKeeps
  <2>4. CASE \E module \in Modules : LoadShader(module)
    BY <1>2, <2>4, LoadShaderKeeps
  <2> QED BY <1>2, <2>1, <2>2, <2>3, <2>4 DEF EditStep
<1>3. CASE \E feed \in Feeds \union {Absent} :
              view # Absent /\ SetGameTexture(feed) /\ UNCHANGED <<view, resizes>>
  BY <1>3, SetGameTextureKeeps
<1>4. CASE FrameStep /\ UNCHANGED <<view, resizes>>
  BY <1>4, SkipKeeps, PassOverKeeps, DrawSurfaceKeeps, SnapshotKeeps, EndFrameKeeps DEF FrameStep
<1>5. CASE \E size \in Sizes : Resize(size) \/ \E inputs \in BOOLEAN : Create(size, inputs)
  BY <1>5, ResizeKeeps, CreateKeeps
<1>6. CASE Release
  BY <1>6, ReleaseKeeps
<1>7. CASE \E list \in Lists : Render(list)
  BY <1>7, RenderKeeps
<1> QED BY <1>1, <1>2, <1>3, <1>4, <1>5, <1>6, <1>7 DEF Next

\* The pool, the feed and the caches hold what they are meant to.
THEOREM SceneViewTypeCorrect == Spec => []TypeInv
<1>1. IInv /\ DrawInv => TypeInv
  BY DEF IInv
<1> QED BY <1>1, InitHolds, NextKeeps, PTL DEF Spec

\* Who reads the screen is drawn after the screen was copied, and is bound to
\* what it was copied to (SceneRenderer's two passes and its rebinding).
THEOREM SpecReadersSeeThisFrame == Spec => []ReadersSeeThisFrame
<1>1. IInv /\ DrawInv => ReadersSeeThisFrame
  BY DEF DrawInv
<1> QED BY <1>1, InitHolds, NextKeeps, PTL DEF Spec

\* No binding outlives what it was made for, but for a mesh that came to be
\* at the address its bindings remember (the caches compare addresses) and a
\* variable the graphics library did not let be set again.
THEOREM SpecBindingsCurrent == Spec => []BindingsCurrent
<1>1. IInv /\ DrawInv => BindingsCurrent
  BY DEF DrawInv
<1> QED BY <1>1, InitHolds, NextKeeps, PTL DEF Spec

\* A module whose parameters are known when a frame starts, and that does not
\* read the screen, is in the prepass of that frame.
THEOREM SpecGraceIsOneFrame == Spec => []GraceIsOneFrame
<1>1. IInv /\ DrawInv => GraceIsOneFrame
  BY DEF DrawInv
<1> QED BY <1>1, InitHolds, NextKeeps, PTL DEF Spec

\* In every frame that ends, every surface whose mesh is there was drawn once.
THEOREM SpecDrawnOnce == Spec => DrawnOnce
<1> DEFINE Once == frame.at # Idle /\ frame'.at = Idle =>
                      \A i \in DOMAIN frame.list :
                          frame.shaded[i] = IF mesh[frame.list[i].mesh] = Absent THEN 0 ELSE 1
<1>1. ASSUME IInv, [Next]_vars
      PROVE  Once
  <2> SUFFICES ASSUME frame.at # Idle, frame'.at = Idle PROVE EndFrame
    BY <1>1, DrawnOnceStep
  <2>1. CASE FrameStep /\ UNCHANGED <<view, resizes>>
    BY <1>1, <2>1, SkipKeeps, PassOverKeeps, DrawSurfaceKeeps, SnapshotKeeps DEF FrameStep
  <2>2. CASE UNCHANGED vars
    BY <2>2 DEF vars, rendererVars
  <2>3. ~EditStep /\ \A feed : ~SetGameTexture(feed)
    BY DEF EditStep, Edit, StoreMesh, StoreMaterial, Remove, LoadShader, SetGameTexture
  <2>4. \A size, inputs : ~Resize(size) /\ ~Create(size, inputs)
    BY DEF Resize, Create, Making
  <2>5. ~Release /\ \A list : ~Render(list)
    BY DEF Release, Render, BeginFrame
  <2> QED BY <1>1, <2>1, <2>2, <2>3, <2>4, <2>5 DEF Next
<1> QED BY <1>1, InitHolds, NextKeeps, PTL DEF Spec, DrawnOnce

=============================================================================
