---------------------------- MODULE Application ----------------------------
(***************************************************************************)
(* An application from run() to its destructor: the phases of the frame    *)
(* loop, in their order, over the clock, the input system, the layers and  *)
(* the module host (engine/src/Application.cpp), with a program over them  *)
(* that is the editor's (apps/editor/src/EditorMain.cpp).                  *)
(*                                                                         *)
(* The module host appears as what it implements, HotSwap.  A hook is a    *)
(* value of pc; while the loop is in one the program may call what the     *)
(* application offers.  The frame cap only waits and is left out, and so   *)
(* is the dispatch of events, which leaves this state alone.               *)
(***************************************************************************)
EXTENDS InputSystem

CONSTANTS
    MaxDelta, MaxFixedSteps,  \* Clock
    RawDeltas,      \* time a frame may take
    Modules,        \* the module files, in the order they are loaded in
    Panels, Huds,   \* ordinary layers and overlays that come and go
    FixedSteps,     \* steps a program may set
    MaxGen          \* bound: loads of one module

ASSUME ApplicationAssumption ==
    /\ MaxDelta \in Nat /\ MaxFixedSteps \in Nat \ {0} /\ RawDeltas \subseteq Int
    /\ FixedSteps \subseteq Nat /\ MaxGen \in Nat /\ DOMAIN Modules = 1..Len(Modules)
    /\ {"scene", "render"} \cap (Panels \cup Huds) = {} /\ Panels \cap Huds = {}

VARIABLES
    pc,        \* the phase or hook the loop is in
    running,
    window,    \* whether the window exists
    loaded,    \* the host's modules
    services,  \* what is lent to them
    looked,    \* how many of them the safe point has looked at
    moved,     \* a transform of the lent scene awaits propagation
    device,    \* whether the render layer's device exists
    gpu,       \* whether the scene layer holds resources made on it
    step,      \* the loop's copy of the fixed step, while it simulates
    owed,      \* history: game time passed, not dropped and not yet simulated
    paused, fixedStep, accumulator, stepsThisFrame,
    layers, insert, overlayCount, attached

Paths == {Modules[k] : k \in DOMAIN Modules}

C == INSTANCE Clock
L == INSTANCE LayerStack
H == INSTANCE HotSwap WITH running <- loaded

clockState == <<paused, fixedStep, accumulator, stepsThisFrame>>
clock == <<paused, fixedStep, accumulator, stepsThisFrame, step, owed>>
stack == <<layers, insert, overlayCount, attached>>
lent == <<loaded, services, looked, moved>>
graphics == <<window, device, gpu>>
vars == <<pc, clock, stack, input, running, lent, graphics>>

Goto(from, to) == pc = from /\ pc' = to
Stay == UNCHANGED pc

\* What exists of that which a program lends to its modules.
Alive == (IF "scene" \in L!Held THEN {"scene"} ELSE {}) \cup
         (IF device THEN {"device"} ELSE {})

Init ==
    /\ pc = "new" /\ running = FALSE
    /\ window = FALSE /\ device = FALSE /\ gpu = FALSE
    /\ H!Init /\ services = {} /\ looked = 0 /\ moved = FALSE
    /\ step = 0 /\ owed = 0
    /\ C!Init /\ L!Init /\ InitInput

-----------------------------------------------------------------------------
(* run(), up to the first frame. *)

Run ==
    /\ Goto("new", "startup")
    /\ window' = TRUE /\ running' = TRUE
    /\ UNCHANGED <<clock, stack, input, lent, device, gpu>>

\* No window: run() returns 1 and no hook is called.
RunFails ==
    /\ Goto("new", "destroy")
    /\ UNCHANGED <<clock, stack, input, lent, graphics, running>>

\* The editor pushes its scene layer first, so that it draws before the render
\* layer presents.
PushScene ==
    /\ pc = "startup" /\ layers = << >> /\ L!Push("scene")
    /\ Stay /\ UNCHANGED <<clock, input, running, lent, graphics>>

\* Mutant: the device is lent without asking whether there is one.
Lendable_Always(exists) == {"scene", "device"}
Lendable(exists) == IF exists THEN {"scene", "device"} ELSE {"scene"}

\* Attaching the render layer creates the device, or fails to; the services
\* are set to what there is.
PushRender ==
    /\ pc = "startup" /\ layers = <<"scene">> /\ L!Push("render")
    /\ device' \in BOOLEAN
    /\ services' = Lendable(device')
    /\ Stay /\ UNCHANGED <<clock, input, running, loaded, looked, moved, window, gpu>>

\* Each module once, when there is something to lend it; a file that is not
\* there or is refused is no step.
LoadModule(k) ==
    /\ pc = "startup" /\ services # {}
    /\ \A i \in DOMAIN loaded, j \in k..Len(Modules) : loaded[i].path # Modules[j]
    /\ H!Start(Modules[k])
    /\ moved' = TRUE  \* its onLoad builds a scene
    /\ Stay /\ UNCHANGED <<clock, stack, input, running, services, looked, graphics>>

-----------------------------------------------------------------------------
(* What a program may do in a hook.  A hook that runs inside a walk over    *)
(* the layers must not change the stack.                                    *)

Hooks == {"startup", "fixed hook", "layers", "update", "late", "render", "shutdown"}
Started == services # {}

PushPanel(l) ==
    /\ pc \in Hooks \ {"layers", "shutdown"} /\ Started
    /\ l \in Panels /\ L!Push(l)
    /\ Stay /\ UNCHANGED <<clock, input, running, lent, graphics>>

PushHud(l) ==
    /\ pc \in Hooks \ {"layers", "shutdown"} /\ Started
    /\ l \in Huds /\ L!PushOverlay(l)
    /\ Stay /\ UNCHANGED <<clock, input, running, lent, graphics>>

PopLayer(l) ==
    /\ pc \in Hooks \ {"layers"} /\ l \in Panels \cup Huds /\ L!Pop(l)
    /\ Stay /\ UNCHANGED <<clock, input, running, lent, graphics>>

\* The exit code is left out.
RequestExit ==
    /\ pc \in Hooks /\ running /\ running' = FALSE
    /\ Stay /\ UNCHANGED <<clock, stack, input, lent, graphics>>

Move ==
    /\ pc \in Hooks /\ "scene" \in services /\ ~moved /\ moved' = TRUE
    /\ Stay /\ UNCHANGED <<clock, stack, input, running, loaded, services, looked, graphics>>

\* The fixed step is not changed from inside the loop that simulates it.
TuneClock ==
    /\ pc \in Hooks
    /\ \/ C!SetPaused(~paused)
       \/ pc # "fixed hook" /\ \E ticks \in FixedSteps : C!SetFixedStep(ticks)
    /\ Stay /\ UNCHANGED <<step, owed, stack, input, running, lent, graphics>>

AddContext ==
    /\ pc = "startup" /\ \E kind \in ContextKinds : PushContext(kind)
    /\ Stay /\ UNCHANGED <<clock, stack, running, lent, graphics>>

-----------------------------------------------------------------------------
(* A frame. *)

\* while (running_), and the clock first.
Tick ==
    /\ running /\ Goto("frame", "poll")
    /\ \E raw \in RawDeltas : C!Advance(raw)
    /\ owed' = owed + accumulator' - accumulator
    /\ UNCHANGED <<step, stack, input, running, lent, graphics>>

\* A focus event resets the input when focus goes.
Observed(gained) == Focus(gained)

\* Phase 2: the events the window has queued.  Focus is observed before the
\* input system sees the event.
Event ==
    /\ pc = "poll"
    /\ \/ \E k \in Keys \cup Buttons : Press(k) \/ Release(k)
       \/ \E k \in Keys, isRepeat \in BOOLEAN : Hold(k, isRepeat)
       \/ \E gained \in BOOLEAN : Observed(gained)
    /\ Stay /\ UNCHANGED <<clock, stack, running, lent, graphics>>

\* The pump is empty; a close request nobody consumed asks for the exit.
Pumped(closed) ==
    /\ Goto("poll", "fixed")
    /\ step' = fixedStep
    /\ running' = (running /\ ~closed)
    /\ UNCHANGED <<clockState, owed, stack, input, lent, graphics>>

\* Mutants: one view for all steps of a frame; none at all.
View_OncePerFrame == IF stepsThisFrame = 0 THEN Snapshot ELSE UNCHANGED input
View_Missing == UNCHANGED input
\* 3a: every step takes a view of its own.
View == Snapshot

\* Phase 3: a step is due, and its view of the input is taken first.
FixedStep ==
    /\ Goto("fixed", "fixed hook")
    /\ C!Consume /\ owed' = owed - step
    /\ View
    /\ UNCHANGED <<step, stack, running, lent, graphics>>

\* onFixedUpdate returns and the loop tests again.
StepDone ==
    /\ Goto("fixed hook", "fixed")
    /\ UNCHANGED <<clock, stack, input, running, lent, graphics>>

FixedDone ==
    /\ Goto("fixed", "layers")
    /\ C!Decline /\ owed' = IF C!Due THEN 0 ELSE owed
    /\ step' = 0
    /\ UNCHANGED <<stack, input, running, lent, graphics>>

\* Phase 4: modules after the layers and before onUpdate.
UpdateModules ==
    /\ Goto("layers", "update")
    /\ moved' \in {moved, moved \/ (loaded # << >> /\ "scene" \in services)}
    /\ UNCHANGED <<clock, stack, input, running, loaded, services, looked, graphics>>

\* Mutant: the passes do nothing.
Propagated_Not == moved
\* What a pass over the scene that is lent leaves to do, when one is lent.
Propagated == IF "scene" \in services THEN FALSE ELSE moved

\* Phase 7.
Propagate ==
    /\ Goto("update", "late")
    /\ moved' = Propagated
    /\ UNCHANGED <<clock, stack, input, running, loaded, services, looked, graphics>>

\* Phase 9, and the layers' rendering: the scene layer makes its targets once
\* there is a device to make them on.
PropagateLate ==
    /\ Goto("late", "render")
    /\ moved' = Propagated
    /\ gpu' \in {gpu, device /\ "scene" \in attached}
    /\ UNCHANGED <<clock, stack, input, running, loaded, services, looked, window, device>>

\* onRender returns.
Rendered ==
    /\ Goto("render", "safe point")
    /\ UNCHANGED <<clock, stack, input, running, lent, graphics>>

\* Phase 12: reloadChanged() looks at one module after the other, and one that
\* has changed is swapped, its onLoad building its scene anew.
LookAtModule ==
    /\ pc = "safe point" /\ looked + 1 \in DOMAIN loaded
    /\ looked' = looked + 1
    /\ \/ UNCHANGED <<loaded, moved>>
       \/ loaded[looked'].gen < MaxGen /\ H!Swap(looked') /\ moved' = TRUE
    /\ Stay /\ UNCHANGED <<clock, stack, input, running, services, graphics>>

\* The frame budget, when there is one, may be spent now.
EndFrame(spent) ==
    /\ Goto("safe point", "frame")
    /\ looked + 1 \notin DOMAIN loaded /\ looked' = 0
    /\ running' = (running /\ ~spent)
    /\ UNCHANGED <<clock, stack, input, loaded, services, moved, graphics>>

\* Mutant: the loop is armed only after onStartup.
Armed_Late == TRUE
\* An exit requested from onStartup stands.
Armed == running

StartupDone ==
    /\ Goto("startup", "frame") /\ Started
    /\ running' = Armed
    /\ UNCHANGED <<clock, stack, input, lent, graphics>>

-----------------------------------------------------------------------------
(* Out of the loop. *)

Leave ==
    /\ ~running /\ Goto("frame", "shutdown")
    /\ UNCHANGED <<clock, stack, input, running, lent, graphics>>

AfterShutdown == "clear"

\* onShutdown returns.  The editor's only logs: what it has lent stays lent.
Shutdown ==
    /\ Goto("shutdown", AfterShutdown)
    /\ UNCHANGED <<clock, stack, input, running, lent, graphics>>

\* layers_.clear(): the render layer's onDetach releases the device, the scene
\* layer's what it made on it.
Detach(l) ==
    /\ pc = "clear" /\ L!DetachNext(l)
    /\ device' = (device /\ l # "render")
    /\ gpu' = (gpu /\ l # "scene")
    /\ Stay /\ UNCHANGED <<clock, input, running, lent, window>>

ClearLayers ==
    /\ Goto("clear", "window") /\ L!Destroy
    /\ UNCHANGED <<clock, input, running, lent, graphics>>

CloseWindow ==
    /\ Goto("window", "destroy")
    /\ window' = FALSE
    /\ UNCHANGED <<clock, stack, input, running, lent, device, gpu>>

\* ~Application: ~ModuleHost unloads what is still loaded.
Destruct ==
    /\ Goto("destroy", "done")
    /\ IF loaded = << >> THEN UNCHANGED loaded ELSE H!Stop
    /\ UNCHANGED <<clock, stack, input, running, services, looked, moved, graphics>>

-----------------------------------------------------------------------------
Done == pc = "done" /\ UNCHANGED vars

Program ==
    \/ \E k \in DOMAIN Modules : LoadModule(k)
    \/ \E l \in Panels \cup Huds : PushPanel(l) \/ PushHud(l) \/ PopLayer(l)
    \/ RequestExit \/ Move \/ TuneClock \/ AddContext

LoopStep ==
    \/ PushScene \/ PushRender \/ StartupDone
    \/ Tick \/ \E closed \in BOOLEAN : Pumped(closed)
    \/ FixedStep \/ StepDone \/ FixedDone
    \/ UpdateModules \/ Propagate \/ PropagateLate \/ Rendered
    \/ LookAtModule \/ \E spent \in BOOLEAN : EndFrame(spent)
    \/ Leave \/ Shutdown \/ \E l \in L!Held : Detach(l)
    \/ ClearLayers \/ CloseWindow \/ Destruct

Next == Run \/ RunFails \/ Program \/ Event \/ LoopStep \/ Done

Spec == Init /\ [][Next]_vars

\* Hooks return, and the window's queue of events is finite.
FairSpec == Spec /\ WF_vars(LoopStep)

-----------------------------------------------------------------------------
(* Properties. *)

\* From run() to the return of onShutdown.
Running == {"frame", "poll", "fixed", "safe point"} \cup Hooks
Phases == {"new", "clear", "window", "destroy", "done"} \cup Running

\* Every variable has its type.
TypeOK ==
    /\ pc \in Phases /\ running \in BOOLEAN
    /\ window \in BOOLEAN /\ device \in BOOLEAN /\ gpu \in BOOLEAN
    /\ loaded \in Seq([path : Paths, gen : 1..MaxGen])
    /\ services \subseteq {"scene", "device"} /\ looked \in 0..Len(loaded) /\ moved \in BOOLEAN
    /\ step \in Nat /\ owed \in Nat
    /\ paused \in BOOLEAN /\ fixedStep \in Nat \ {0}
    /\ accumulator \in Nat /\ stepsThisFrame \in 0..MaxFixedSteps
    /\ insert \in Nat /\ overlayCount \in Nat
    /\ L!Held \cup attached \subseteq {"scene", "render"} \cup Panels \cup Huds
    /\ InputTypeOK

\* Overlays stay above ordinary layers however pushes and pops are mixed, each
\* layer is held once, and the counts agree with the stack (push, pop, clear).
StackPartitioned ==
    /\ insert + overlayCount = Len(layers)
    /\ \A i \in DOMAIN layers : layers[i] \in Huds <=> i > insert
    /\ \A i, j \in DOMAIN layers : layers[i] = layers[j] => i = j

\* Every layer has been detached before it is destroyed, and both before the
\* window goes, whichever way the application ends (run, LayerStack::clear).
LayersGoBeforeWindow ==
    /\ attached \subseteq L!Held /\ (pc # "clear" => attached = L!Held)
    /\ layers # << >> => window

\* Simulated time is game time: what the steps have been given is what was
\* paid for, and no frame leaves the loop with a whole step of debt.
TimeAccounted ==
    /\ [](owed = accumulator)
    /\ [][pc = "fixed" /\ pc' = "layers" => accumulator' < fixedStep]_vars

\* An edge is seen by one fixed step only, though one frame runs several.
EdgesSeenByOneStep ==
    pc = "fixed hook" /\ stepsThisFrame > 1 =>
        \A a \in Actions : ~published[a].pressed /\ ~published[a].released

\* An edge the input system owes is shown to a fixed step, unless focus goes,
\* game time stops or the application ends first.
Pending == \E a \in Actions : heard[a].edges # {}
EdgesReachAStep == Pending ~> (~Pending \/ paused \/ ~running)

\* Phases 8 and 10 begin with every transform of the lent scene final.
FollowersReadFinalTransforms ==
    [][pc' # pc /\ pc' \in {"late", "render"} => moved' = FALSE]_vars

\* From onStartup to the return of onShutdown whatever is lent exists, with or
\* without a device and whatever layers come and go: modules are loaded, updated
\* and swapped on it, and the propagation passes read the scene themselves.
ServicesOutliveFrames == pc \in Running => services \subseteq Alive

\* ModuleHost.hpp on the services: they are refreshed before each entry point
\* runs, "so a module never sees a stale pointer".  Entry points run while the
\* program starts, in update, at the safe point, and in the destructor.
ModulesSeeLiveServices ==
    loaded # << >> /\ pc \in {"startup", "layers", "safe point", "destroy"}
        => services \subseteq Alive

\* Once an exit is requested the application shuts down, wherever in the frame
\* or before the first one it was requested.
ExitCompletes == (pc # "new" /\ ~running) ~> pc = "done"

\* Application.hpp on onShutdown: layers let go of what they made on the
\* device before the device goes.
ResourcesDieBeforeDevice == gpu => device
=============================================================================
