----------------------------- MODULE SceneView -----------------------------
(***************************************************************************)
(* A view of a scene (SceneView.cpp): a renderer and the targets it draws  *)
(* into, made together and resized while they live.                        *)
(***************************************************************************)
EXTENDS SceneRenderer

CONSTANTS
    Sizes,          \* the sizes of the view
    MaxResizes      \* bound: how often targets are made

VARIABLES
    view,           \* [targets, inputs], or Absent
    resizes         \* how often targets were made

vars == <<poolVars, edits, rendererVars, view, resizes>>

\* Colour and depth, and what they are copied to when materials may read them.
Declared(inputs) ==
    LET drawn == Declare(Declare(NoTargets, "colour"), "depth")
    IN IF inputs THEN Declare(drawn, "snapshot") ELSE drawn

Valid == view # Absent /\ Ready(view.targets)

-----------------------------------------------------------------------------

\* What holds a snapshot: the bindings that were given it.
Held ==
    LET caches == {bindings[m] : m \in Meshes} \union {materials[m] : m \in Materials}
                  \union {fallback}
    IN {cache.screen.view.at :
           cache \in {c \in caches : c # Absent /\ c.screen.view # Absent}}

\* The views of targets made now. A snapshot may come to be where another was
\* that nothing holds any more.
FreshViews(targets, held) ==
    {[name \in targets.declared |->
        IF name = "snapshot" THEN [at |-> address, made |-> resizes + 1] ELSE name] :
            address \in 1..2 \ held}

Making == frame.at = Idle /\ resizes < MaxResizes

\* A view is made over, or, when its targets or its renderer fail, stays what
\* it was.
Create(size, inputs) ==
    /\ Making
    /\ \/ /\ \E views \in FreshViews(Declared(inputs), {}) :
                view' = [targets |-> Built(Declared(inputs), size, views), inputs |-> inputs]
          /\ Renew /\ hasDepth' = TRUE /\ resizes' = resizes + 1 /\ UNCHANGED overwrites
       \/ UNCHANGED <<view, rendererVars, resizes>>
    /\ UNCHANGED <<poolVars, edits>>

\* Only a view that is whole is resized: one whose targets have failed to be
\* made again stays without until it is created anew.
Resize(size) ==
    /\ Making
    /\ Valid /\ ~Settled(view.targets, size)
    /\ \/ \E views \in FreshViews(view.targets, Held) :
              view' = [view EXCEPT !.targets = Built(@, size, views)]
       \/ view' = [view EXCEPT !.targets = Failed(@, size)]
    /\ resizes' = resizes + 1
    /\ UNCHANGED <<poolVars, edits, rendererVars>>

Release ==
    /\ frame.at = Idle /\ view # Absent
    /\ view' = Absent
    /\ Renew
    /\ UNCHANGED <<poolVars, edits, overwrites, hasDepth, resizes>>

\* One frame of the scene, when there is a camera to see it.
Render(list) ==
    /\ Valid
    /\ BeginFrame(list, IF view.inputs THEN View(view.targets, "snapshot") ELSE Absent)
    /\ UNCHANGED <<view, resizes>>

\* The assets were loaded before the view was made, the shader modules with
\* them or not.
Init ==
    /\ mesh = [m \in Meshes |-> [at |-> 0, made |-> 0, mistaken |-> FALSE]]
    /\ material \in [Materials -> [kind : Kinds, made : {0}]]
    /\ loaded \in {{}, Modules} /\ edits = 0
    /\ Empty /\ overwrites \in BOOLEAN /\ hasDepth = FALSE
    /\ view = Absent /\ resizes = 0

Next ==
    \/ EditStep /\ UNCHANGED <<view, resizes>>
    \/ \E feed \in Feeds \union {Absent} :
           view # Absent /\ SetGameTexture(feed) /\ UNCHANGED <<view, resizes>>
    \/ FrameStep /\ UNCHANGED <<view, resizes>>
    \/ \E size \in Sizes : Resize(size) \/ \E inputs \in BOOLEAN : Create(size, inputs)
    \/ Release
    \/ \E list \in Lists : Render(list)

Spec == Init /\ [][Next]_vars

-----------------------------------------------------------------------------
(* Correctness.                                                            *)

Drawn == frame.list[draw.surface]

\* A variable is bound to a view, if setting it was all that was needed.
Follows(slot, given) == overwrites \/ ~slot.again => slot.view = given

\* Whoever reads the screen sees this frame: a module that samples the
\* snapshot is drawn after the screen was copied, and is bound to what it was
\* copied to.
ReadersSeeThisFrame ==
    draw # Absent /\ draw.module \in ReadsScreen =>
        /\ frame.at = "blend"
        /\ frame.copied \/ frame.screen = Absent
        /\ Follows(draw.screen, frame.screen)

\* Every surface whose mesh is there is drawn in each frame, once, whatever
\* became of its material; a prepass does not count.
DrawnOnce ==
    [][frame.at # Idle /\ frame'.at = Idle =>
          \A i \in DOMAIN frame.list :
              frame.shaded[i] = IF mesh[frame.list[i].mesh] = Absent THEN 0 ELSE 1]_vars

\* What is drawn is what the pool holds: no binding outlives the object, the
\* snapshot or the game's texture that it was made for. Two exceptions are
\* the code's own: a mesh that came to be at the address its bindings
\* remember is drawn with them, and a variable set again is what the graphics
\* library makes of that.
BindingsCurrent ==
    draw # Absent =>
        /\ draw.shown = "assigned" => draw.of = material[Drawn.slot].made
        /\ draw.shown = "unassigned" /\ ~mesh[Drawn.mesh].mistaken
              => draw.of = mesh[Drawn.mesh].made
        /\ Follows(draw.screen, frame.screen)
        /\ draw.module # Standard => Follows(draw.fed, fed)

\* The same without the exceptions, one by one.
MeshesCurrent ==
    draw # Absent /\ draw.shown = "unassigned" => draw.of = mesh[Drawn.mesh].made
ScreenFollows == draw # Absent => draw.screen.view = frame.screen

\* The old depth policy costs one frame: a blended surface that lets no light
\* through and whose module was drawn in an earlier frame, and does not read
\* the screen, is in the prepass, and the blend pass leaves its depth alone.
GraceIsOneFrame ==
    draw # Absent /\ frame.at = "blend" /\ hasDepth /\ draw.shown # "fallback" =>
        LET kind == Kind(Drawn)
        IN kind.module \in (frame.ready \union {Standard}) \ ReadsScreen /\ ~kind.transmissive
           => draw.surface \in frame.prepassed /\ draw.depth = "tests"

\* The depth policy of the blend pass follows the primitive: what the prepass
\* left out writes its own depth.
ExcludedWritesDepth ==
    draw # Absent /\ frame.at = "blend" /\ draw.surface \notin frame.prepassed
        => draw.depth = "writes"
=============================================================================
