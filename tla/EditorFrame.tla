---------------------------- MODULE EditorFrame ----------------------------
(***************************************************************************)
(* How a picture gets to the screen of the editor: the scene layer draws   *)
(* it (EditorMain.cpp), the editor layer puts it in a panel of the user    *)
(* interface (EditorLayer.cpp, EditorPanels.cpp), the render layer shows   *)
(* both (Render.cpp).  They are three layers of one stack, attached and    *)
(* drawn in the order they were pushed, and they meet by two pointers (the *)
(* picture of the event, the source to present) and a size that is asked   *)
(* for in one frame and drawn in the next.                                 *)
(***************************************************************************)
EXTENDS LayerStack, FrameTargets, FiniteSets

CONSTANTS
    Sizes,          \* of the window, of the panel; Absent is none of them
    MaxChanges      \* bound: what the user changes, and targets that are made

VARIABLES
    stage,          \* "startup", "pump", "draw", "closing"
    at,             \* the layer that draws next
    window,         \* its size
    panel,          \* the viewport panel: its size, or Absent when closed or hidden
    chain,          \* the size of the swap chain, or Absent: there is no device
    ui,             \* the user interface: [context, open, drawn]
    editor,         \* the editor layer: [bound, asked, picture]
    scene,          \* the scene layer: [view, requested, toScreen]
    source,         \* what the render layer is to show under the user interface
    event,          \* the picture that was published in this frame, or Absent
    screen,         \* what was shown last: [under, panel]
    changes

user == <<window, panel>>
where == <<stage, at>>
parts == <<chain, ui, editor, scene, source, event, screen>>
stack == <<layers, insert, overlayCount, attached>>
allVars == <<stack, where, user, parts, changes>>

Change == changes < MaxChanges /\ changes' = changes + 1

-----------------------------------------------------------------------------
(* onStartup: each layer is attached where it is pushed.                    *)

PushScene ==
    /\ stage = "startup" /\ Held = {}
    /\ Push("scene")
    /\ UNCHANGED <<where, user, parts, changes>>

\* The editor's own copy of the interface is bound to the engine's context,
\* if there is one by now.
PushEditor ==
    /\ stage = "startup" /\ Held = {"scene"}
    /\ Push("editor")
    /\ editor' = [editor EXCEPT !.bound = ui.context]
    /\ UNCHANGED <<where, user, chain, ui, scene, source, event, screen, changes>>

\* The interface is made once there is a device, and may fail to be.
CreateUi == \E made \in BOOLEAN : ui' = [ui EXCEPT !.context = made]

\* The device comes with the render layer, when it comes at all.
PushRender ==
    /\ stage = "startup" /\ Held = {"scene", "editor"}
    /\ Push("render")
    /\ \/ chain' = window /\ CreateUi
       \/ UNCHANGED <<chain, ui>>
    /\ UNCHANGED <<where, user, editor, scene, source, event, screen, changes>>

\* The panel shows the scene from now on, and the window does not.
Started ==
    /\ stage = "startup" /\ Held = {"scene", "editor", "render"}
    /\ scene' = [scene EXCEPT !.toScreen = FALSE]
    /\ stage' = "pump" /\ UNCHANGED at
    /\ UNCHANGED <<stack, user, chain, ui, editor, source, event, screen, changes>>

-----------------------------------------------------------------------------
(* The user, between two frames.                                            *)

\* The swap chain follows the window.
ResizeWindow(size) ==
    /\ stage = "pump" /\ size # window
    /\ Change
    /\ window' = size
    /\ chain' = IF chain = Absent THEN Absent ELSE size
    /\ UNCHANGED <<stack, where, panel, ui, editor, scene, source, event, screen>>

\* The panel is dragged, closed, or hidden behind another one.
ArrangePanel(size) ==
    /\ stage = "pump" /\ size # panel
    /\ Change
    /\ panel' = size
    /\ UNCHANGED <<stack, where, window, parts>>

-----------------------------------------------------------------------------
(* The frame.                                                               *)

\* The late updates: the render layer opens a frame of the interface unless
\* one is open, and then the application hands on what the panels asked for
\* in the last frame.
LateUpdate ==
    /\ stage = "pump"
    /\ ui' = IF ui.context /\ chain # Absent /\ ~ui.open
             THEN [ui EXCEPT !.open = TRUE, !.drawn = Absent] ELSE ui
    /\ scene' = [scene EXCEPT !.requested = editor.asked]
    /\ event' = Absent
    /\ stage' = "draw" /\ at' = 1
    /\ UNCHANGED <<stack, user, chain, editor, source, screen, changes>>

Draws(layer) == stage = "draw" /\ layers[at] = layer
NextLayer ==
    IF at < Len(layers) THEN at' = at + 1 /\ UNCHANGED stage ELSE stage' = "pump" /\ at' = 1

Wanted == IF scene.requested # Absent THEN scene.requested ELSE chain

\* The targets are made when there are none, and made again, all of them,
\* for another size. Either may fail.
Fits == scene.view # Absent /\ Settled(scene.view, Wanted)
Made(targets) == Built(targets, Wanted, [colour |-> changes + 1])

\* A picture is published, unless there is none: no camera sees the scene, or
\* the targets could not be made. What the window is to show is set after.
Publish(view) ==
    \/ /\ view # Absent /\ Ready(view)
       /\ event' = [of |-> View(view, "colour"), size |-> view.size]
       /\ source' = IF scene.toScreen THEN View(view, "colour") ELSE Absent
       /\ editor' = [editor EXCEPT !.picture = event']
    \/ event' = Absent /\ source' = Absent /\ UNCHANGED editor

DrawScene ==
    /\ Draws("scene")
    /\ \/ chain = Absent /\ UNCHANGED <<scene, event, source, editor, changes>>
       \/ /\ chain # Absent /\ Fits
          /\ Publish(scene.view) /\ UNCHANGED <<scene, changes>>
       \/ /\ chain # Absent /\ ~Fits /\ changes < MaxChanges
          /\ LET new == Made(Declare(NoTargets, "colour"))
             IN  scene' = [scene EXCEPT !.view = new] /\ Publish(new)
          /\ changes' = changes + 1
       \/ \* a new view that fails is none; one whose targets fail has none
          /\ chain # Absent /\ ~Fits /\ changes < MaxChanges
          /\ IF scene.view # Absent /\ Ready(scene.view)
             THEN /\ scene' = [scene EXCEPT !.view = Failed(@, Wanted)]
                  /\ event' = Absent /\ source' = Absent
             ELSE UNCHANGED <<scene, event, source>>
          /\ changes' = changes + 1 /\ UNCHANGED editor
    /\ NextLayer
    /\ UNCHANGED <<stack, user, chain, ui, screen>>

\* The panels draw into the frame of the interface. What was published is
\* forgotten once they have.
DrawPanels ==
    /\ Draws("editor")
    /\ IF editor.bound /\ ui.context
       THEN /\ editor' = [editor EXCEPT !.asked = panel, !.picture = Absent]
            /\ ui' = IF panel = Absent THEN ui ELSE [ui EXCEPT !.drawn = editor.picture]
       ELSE UNCHANGED <<editor, ui>>
    /\ NextLayer
    /\ UNCHANGED <<stack, user, chain, scene, source, event, screen, changes>>

\* The window gets what it is to show, unless that cannot be sampled or the
\* pass that draws it cannot be made.
Blits == {source, Absent}

\* The interface is drawn over it, and both are presented.
Present ==
    /\ Draws("render")
    /\ IF chain = Absent THEN UNCHANGED <<ui, screen>>
       ELSE /\ \E under \in Blits :
                screen' = [under |-> under,
                           panel |-> IF ui.context /\ ui.open THEN ui.drawn ELSE Absent]
            /\ ui' = [ui EXCEPT !.open = FALSE]
    /\ NextLayer
    /\ UNCHANGED <<stack, user, chain, editor, scene, source, event, changes>>

-----------------------------------------------------------------------------
(* The window is closed: the layers go, the last one first.                 *)

Close ==
    /\ stage = "pump"
    /\ stage' = "closing" /\ UNCHANGED at
    /\ UNCHANGED <<stack, user, parts, changes>>

DetachLayer(l) ==
    /\ stage = "closing"
    /\ DetachNext(l)
    /\ CASE l = "render" -> /\ chain' = Absent
                            /\ ui' = [context |-> FALSE, open |-> FALSE, drawn |-> Absent]
                            /\ UNCHANGED <<source, scene>>
         [] l = "scene"  -> /\ source' = Absent /\ scene' = [scene EXCEPT !.view = Absent]
                            /\ UNCHANGED <<chain, ui>>
         [] OTHER        -> UNCHANGED <<source, scene, chain, ui>>
    /\ UNCHANGED <<where, user, editor, event, screen, changes>>

-----------------------------------------------------------------------------

InitFrame ==
    /\ Init
    /\ stage = "startup" /\ at = 1 /\ window \in Sizes /\ panel \in Sizes /\ chain = Absent
    /\ ui = [context |-> FALSE, open |-> FALSE, drawn |-> Absent]
    /\ editor = [bound |-> FALSE, asked |-> Absent, picture |-> Absent]
    /\ scene = [view |-> Absent, requested |-> Absent, toScreen |-> TRUE]
    /\ source = Absent /\ event = Absent
    /\ screen = [under |-> Absent, panel |-> Absent] /\ changes = 0

Startup == PushScene \/ PushEditor \/ PushRender \/ Started
Frame == LateUpdate \/ DrawScene \/ DrawPanels \/ Present

Next ==
    \/ Startup \/ Frame \/ Close
    \/ \E size \in Sizes : ResizeWindow(size)
    \/ \E size \in Sizes \union {Absent} : ArrangePanel(size)
    \/ \E l \in Held : DetachLayer(l)

Spec == InitFrame /\ [][Next]_allVars

\* The loop runs until it is told to stop.
FairSpec == Spec /\ WF_allVars(Startup) /\ WF_allVars(Frame)

-----------------------------------------------------------------------------
(* Correctness.                                                             *)

\* What comes to the screen is of this frame and is there: a picture in the
\* window or in the panel is the one the scene layer published in the frame
\* that is presented.
ShownIsThisFrame ==
    [][Draws("render") =>
          /\ screen'.panel \in {Absent, event} \/ screen' = screen
          /\ screen'.under # Absent => event # Absent /\ screen'.under = event.of]_allVars

\* The viewport panel shows the picture of this very frame, when it is open,
\* the scene was drawn and there is an interface to draw it with.
\* EditorMain.cpp:379-382: "this draws after the scene has published its
\* frame - which is what lets the viewport panel show *this* frame rather than
\* the last one".
ViewportShowsThisFrame ==
    [][(Draws("render") /\ event # Absent /\ ui.context /\ panel # Absent) => screen'.panel = event]_allVars

\* What the scene is to be drawn for, in the end: the panel when it asks, or
\* the window.
Due == IF editor.bound /\ panel # Absent THEN panel ELSE window

\* The scene comes to be drawn at the size of what shows it, once that is left
\* alone and the targets can be made.
SizeSettles ==
    (chain # Absent /\ stage # "closing" /\ changes < MaxChanges)
        ~> \/ scene.view # Absent /\ Settled(scene.view, Due)
           \/ chain = Absent \/ stage = "closing" \/ changes = MaxChanges
=============================================================================
