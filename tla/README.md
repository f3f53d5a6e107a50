# Hollow Point: a specification of the engine's core

Hollow Point is a game engine in C++: a shared library (`engine/`) that owns the
frame loop, a scene of entities, input, time, hot-reloaded gameplay modules,
assets, shaders and rendering, and two applications over it (`apps/editor`,
`apps/runtime`). This directory specifies the parts that keep state across calls
and that more than one party changes, checks them with TLC on small instances
and proves the central ones with TLAPS for every size.

Paths below are relative to the repository; `engine/src/X.cpp` has its interface
in `engine/include/hp/X.hpp`. `PROJECT.json` lists the components, the runs, the
lines each definition models, the hazards and the theorems.

## 1. Inventory

| Component | State it keeps | Operations | Talks to | Model |
|---|---|---|---|---|
| Module host (`ModuleHost.cpp`) | loaded modules (file, working copy, image, stamp, generation, lent services), copy counter | `load`, `reloadChanged`, `reloadAll`, `setServices`, `update`, `unloadAll`, destructor | the build through the file system, the loader, module entry points | `HotSwap`, `ModuleHost` |
| Scene (`Scene.cpp`) | registry slots, GUID index, hierarchy, local and world transforms, dirty marks | `create`, `createWithGuid`, `destroy`, `setParent`, `setLocalTransform`, `propagateTransforms`, `clone` | everybody who holds an `Entity`; the frame loop propagates | `Scene` |
| Input system (`Input.cpp`) | context stack, keys down, edges since the last snapshot, the published view | `pushContext`, `removeContext`, `onEvent`, `snapshot`, `reset`, `digital`, `axis2D` | the window's events, the fixed step | `InputSystem` |
| Clock (`Time.cpp`) | accumulator, steps this frame, pause, fixed step, bounds | `tick`, `consumeFixedStep`, setters | the frame loop | `Clock` |
| Layer stack (`Layer.cpp`) | layers, boundary index, overlay count | `push`, `pushOverlay`, `pop`, `clear`, walks | the frame loop, the layers' hooks | `LayerStack` |
| Application (`Application.cpp`) | running flag, exit code, focus, window, all of the above | `run`, `requestExit`, `setServices`, hooks | owns the loop and the order of teardown | `Application` |
| Editor (`EditorMain.cpp`, `EditorLayer.cpp`, `EditorPanels.cpp`) | scene layer, editor layer, picture published, size asked for | hooks | the application, the render layer, the user interface | `Application`, `EditorFrame` |
| Window and events (`Window.cpp`, `Event.hpp`) | an SDL window, its queue | `pumpEvents` | the frame loop | in `InputSystem`, `Application` |
| Scene serialisation (`SceneSerialize.cpp`, `Serialize.cpp`, `Yaml.cpp`, `Reflect.cpp`, `Cook.cpp`) | registered types, text kept for absent types, document and cook | save, load, cook, load of a cook, `materialiseComponents` | scene, files, gameplay modules | `Reflected`, `Serialize`, `SceneFile` |
| Assets (`Assets.cpp`, `AssetImport.cpp`, `Import.cpp`, `Guid.cpp`) | pool by GUID, metafiles with identities of sub-assets | load, import, re-import, extraction | virtual file system, the author | `AssetImport` |
| Virtual file system (`Vfs.cpp`) | mounts, write directory | mount, read, write, remove | PhysicsFS | `Vfs` |
| Log (`Log.cpp`) | categories, sinks, built-in sinks under three locks | declare, write, flush, add, remove, levels | any thread | `Log` |
| Shaders and cooking (`SlangCompiler.cpp`, `ShaderSources.cpp`, `ShaderCook.cpp`, `ShaderStore.hpp`) | cooked archives, developer cache, policy, session | compile, cook, load archives, save cache | files, the author's shader modules, the environment | `ShaderStore` |
| Surface pipelines (`SurfacePipeline.cpp`) | pipelines by key, failed ones included; what is known of each module | `get`, `screenInputUse`, `layout` | the compiler, the device | `SurfacePipeline` |
| Frame targets, scene view (`FrameTargets.cpp`, `SceneView.cpp`) | declared targets, their textures, a size | declare, resize, release, ping-pong | the device | `FrameTargets`, `SceneView` |
| Scene renderer (`SceneRenderer.cpp`, `Material.cpp`) | bindings per mesh and per material, the snapshot they were given, the game's texture | `draw` | pool, pipelines, targets | `SceneRenderer` |
| Render layer and device (`Render.cpp`) | device, swap chain, user interface, source to present | attach, detach, resize, present | window, layers | in `Application`, `EditorFrame` |
| Render stack, cameras, lights, parameter packing, settings, bindings file, runtime | see section 7 | | | not modelled |

The engine runs its frame on one thread; only the log is written to be called
from several. The hard behaviour is therefore mostly elsewhere:

* **another process**: the build writes a module's file at any moment, also
  between two system calls of the host; the author edits models, materials,
  shaders and scenes; the editor may be killed between two writes;
* **identity across runs**: metafiles, cooks and shader archives are found again
  by another process, after edits, with another build and other modules present;
* **caches**: worlds of transforms, pipelines, bindings, compiled variants,
  cooked scenes, each of which must notice that its source has changed;
* **the window system**: events arrive between frames in any order, and stop
  arriving when focus is lost;
* **order within a frame**: a frame runs zero or several fixed steps, then layers
  and passes, and what each reads must have been made final by an earlier one;
* **long sequences of legal calls**: links kept at both ends, an index kept by
  hand, recycled slots;
* **teardown**: layers, device, window, services and modules die in an order
  spread over four files;
* **threads**: three locks of the log, one of which is held while foreign code
  runs.

Every place where one of these bites is a row of `hazards` in `PROJECT.json`, with
the properties that would catch it.

## 2. Modules

| Module | Models |
|---|---|
| `HotSwap` | what hot reloading promises: loaded modules in load order, each with a generation |
| `ModuleHost` | the host at the grain of its system calls, the build, the file system, the kill; implements `HotSwap` |
| `Scene` | entities, GUID index, hierarchy, transforms, propagation, clone |
| `InputSystem` | contexts, edges, level state, snapshots, axes, with the user and the focus |
| `Clock`, `LayerStack` | the clock and the layer stack, as actions only |
| `Application` | the frame loop and the teardown: extends `InputSystem` and composes `Clock`, `LayerStack` and `HotSwap` with it; the editor is the program over them |
| `Vfs` | what a query sees and what a write can leave |
| `AssetImport` | imports of a model over `Vfs`, write by write, with the author and the crash |
| `Reflected` | one reflected value to and from YAML and the binary cook: the leaves, and sequences and objects given how their parts are converted |
| `Serialize` | the same for types of any depth: the recursion over `Reflected` |
| `SceneFile` | a scene, its document and its cook, while component types come and go; the conversions of values are constant operators, which `MCSceneFile` takes from `Serialize` |
| `ShaderStore` | compiled variants, their keys, the developer cache and the cooked archives, over processes that end |
| `SurfacePipeline`, `FrameTargets` | the cache of pipelines; targets of one size. Actions and operators, used by the next |
| `SceneRenderer`, `SceneView` | one frame surface by surface; the view that owns renderer and targets and is resized |
| `EditorFrame` | three layers of a `LayerStack` over `FrameTargets`: how a picture gets to the screen of the editor |
| `Log` | categories and sinks under the three locks, by any thread |
| `X_proofs` | theorems about `X` (`ModuleHost`, `Scene`, `SceneFile` with `Reflected`, `Application` with the `InputSystem` it extends, `AssetImport`, `Log`, `ShaderStore`, `SceneView` with the modules it is built on) |
| `MCX` | the constants of an instance of `X` that TLC checks |

A definition named `X_...` just before `X` is a mutant of `X`: the same definition
with a plausible mistake, under which the property it is listed with in
`PROJECT.json` fails. The modules themselves never use it.

## 3. How the modules correspond to the code

### ModuleHost

`pc` says where the host is in a call, `job` which call: `Load` and
`ReloadChanged`/`ReloadAll` enter it, `Scan` is one turn of their loop, `Stage...`
the copy in `open()`, `Refuse`/`Accept` its checks, `Adopt...` the end of `open()`
with `close()` and `activate()`. `Build` and `Vanish` may happen between any two of
them. Data is reduced to what the host can tell apart: a file's stamp and size
are one `mark` (the number of the write that produced it; two writes that leave
the same stamp and size are outside the model), an image is *good*, *refused* (it
is unmapped again, whichever check it failed) or *foreign* (it has no build id and
must stay mapped). Module entry points run no code of ours; the history variable
`calls` records which ran, from which image, lent what. The `reloaded` callback
and the counters for display are left out. The platform is chosen initially:
Windows keeps a mapped file on disk, Linux does not.

### Scene

Components are functions on the live slots. Walks (up to the root, down the
child lists) are closures over sets, so that no recursive operator is needed;
`NewWorlds` is a recursive function. Transforms form the cyclic group of order
`Turns`. With `Turns = 2`, the value of the run, every transform is its own
inverse, so the run tells a forgotten parent transform from an undone one but
not a product from a quotient (`Turns = 3` does, and passes with 150403 states, but
takes TLC more than five minutes); the floating-point decomposition in
`applyWorldTransform` (shear, zero scale) is not modelled. Handles that are not
valid make every call return at once, so such calls are not steps. A clone
replaces the scene: the program goes on with the copy.

### InputSystem

Only edges and levels: an axis is the direction its keys compose to. The user's
fingers (`touched`) are separate from what the system believes (`down`), because
focus takes events away; the model delivers no key or button event to a window
without focus, as the comment in `Application::run` says. `heard` is the history
of edges each action was entitled to, defined by rank of contexts rather than by
the loop in `onEvent`.

### Application

`pc` names the phase or the hook. In a hook the program may push and pop layers, ask
for the exit, move an entity, pause the clock or change the fixed step. The input
system is the one of `InputSystem`, whose variables `Application` has for its own
(`input` is their tuple) and whose actions it takes where the loop, its events and its
program make those calls. Where the code gives no meaning to a call, the model does
not make it: the stack is not changed inside a walk over it and the fixed step is not
changed inside the loop that consumes it. The program pushes a scene layer, then a
render layer whose attaching makes the device or fails to, lends what exists, loads
modules and runs: `EditorApp::onStartup`. Panels and overlays are different layers.
The module host appears as `HotSwap`, which it is proved to implement.
`ClearsServices` says whether `onShutdown` takes the services back. Left out: the
headless path, the exit code, time scale and elapsed totals,
`setMaxFixedStepsPerFrame`, the frame cap, the dispatch of events to layers.

### AssetImport and Vfs

`Import` is `importAsset` up to the metafile it reads or mints (`AssetImport.cpp`),
`ImportStep` one file operation of what follows: persisting the metafile, loading
into the pool, then the tasks of a model in their order (`todo`: images, sidecars,
materials and the metafile once more). `Vfs` gives each write three outcomes: it
goes through, it is refused and touches nothing, or it is torn, since the file is
opened in place; a torn metafile or material does not parse. The author exports the
model again, edits or deletes what an import produced; a restart empties the pool.
A GUID is the number of its minting, so that minting a used one would show. Names
are sequences, text and suffix, which is what `StableKeys` turns on; the pixels,
factors and geometry are left out. `settled` is the history "an import went through
whole and nobody has touched the project since".

### SceneFile and Serialize

A YAML scalar is the text it holds tagged with what that text can be read as, so a
mistyped value is a scalar with another tag. `Reflected` has the four conversions for
each kind of leaf (wrapping integers, enumerators by name, vectors, text, GUIDs; a
number that no enumerator has is refused on reading, unless the type has no
enumerators), and for sequences and objects with missing and unknown fields, which
take the conversion of a part as an operator; `Serialize` ties the recursion. A cooked
object is a function from field names, because the container is prefixed with lengths
and named by hash. `SceneFile` does not depend on any of it: what it needs of the
conversions, the constants `Construct` to `ReadCookedProperties`, is its
`ValuesAssumption`. Its steps: `Save`, `LoadYaml` (a first pass over records, a second
over links), `CookScene`, `LoadCooked` with all of `readCooked`'s refusals,
`Materialise` (what the host does when a module has registered its types),
`RegisterModule`, `Forget`, `Restart`, and the program's and the author's edits.
`gameplay` distinguishes a type that was never registered from one that was and was
taken back: the table of component operations keeps its entry (`Forgotten`). The
hierarchy is parent links only; `Scene` models it in full.

### ShaderStore

A key is the program, the stage, the engine's text (its build) and the text of
the game's module where the program includes it: `KeyOf` is the walk over imports in
`SlangCompiler.cpp`. `Begin`, `Hit`/`Miss`, `Compile`/`CompileFails`, `Insert` and
`Rename` are the steps of one compile; the developer cache is written to a temporary
and renamed, an archive is written in place (`CookShaders`, `CookIsTorn`). What code a
text gives is the record of all it was made from, so "the right code" can be
stated. `Launch` starts a process of either build on a machine with or without a
compiler; `Crash` ends it anywhere. Cooked-only is resolved once, from the
environment, what was loaded and the machine. `promised` and `owed` are histories of
what a cook had rendered.

### SurfacePipeline, FrameTargets, SceneRenderer, SceneView

Only caches, lifetimes and order. A pipeline is its key and whether it was built;
a module is whether it compiles and whether it samples the screen, which the
renderer learns with the first build (`Learnt`). `FrameTargets` is a record: declared,
built, size. One frame of `SceneRenderer` is `BeginFrame`, one step for each surface
of each pass (prepass, opaque, the copy of the screen, blend), and the end; for each
draw the model follows the fallbacks of `SceneRenderer.cpp` (the missing material,
the missing module, the pipeline that failed) and records what was bound for what. An
object of the pool carries the edit that made it (`made`) and the address it is at
(`at`): bindings are found by address and should be of the object. `SceneView` adds
creation, resizing, their failures and release. Matrices, lights, culling, formats
and the contents of buffers are left out.

### EditorFrame

The scene layer, the editor layer and the render layer as `LayerStack` attaches
and draws them: `PushScene`, `PushEditor`, `PushRender`, `Started` are
`EditorApp::onStartup`; `LateUpdate`, `DrawScene`, `DrawPanels`, `Present` are one
frame. A picture is a record of what it was drawn of and where; the two pointers
(the published event and the source to present) and the size that is asked for in
one frame and drawn in the next are kept. The fullscreen pass and the making of
targets and of the interface may fail.

### Log

What is done under the categories' lock is one step. The sinks' lock is held while
foreign code runs, so it is modelled as the two gates of the library's
`shared_mutex` (external): a writer claims it, which keeps new readers out, and
enters when the last reader has left. A record goes through `Filter`, `Name`, `Lock`,
then `Enter` and `Leave` for each sink, and `Unlock`. A client removes a
sink before destroying it, as `Log.hpp` asks, and does not use one sink in two calls
at once. A sink does not log and does not add or remove sinks: none in the repository
does, and the lock would not allow it. `setGlobalLevel` is one step.

## 4. Runs

Bounds are named constants of the modules and their values are in the `.cfg`.

| Run | Shows | Bounds and why they suffice |
|---|---|---|
| `modulehost` | images, leftovers, entry points, refinement of `HotSwap`, the poll | 2 files, so a swap happens beside another module; 2 writes, so one can fall in each half of `open()`; 2 forced calls; 1 kill and 6 copies, so names are reused after the kill |
| `modulehost_stat` | counterexample: a change is missed | as above |
| `scene` | hierarchy, cycles, index, transforms, clone | 3 slots: a cycle through two levels, a reparent across siblings, a slot reused; 4 GUIDs: a clone with new identities for up to two entities |
| `input` | edges and levels through any context changes | 3 pushes, so one context above and one below the one of interest; 2 keys and a button |
| `application` | time, edges, transforms, teardown, exit | a frame of 1 tick or of 4, clamped to 3, against a budget of 2 steps of 1 or 2 ticks: frames with no step, with several, and with dropped debt; 1 panel, 1 overlay; a module reloaded once |
| `assets` | identities and extraction over failing writes | 3 exports: two materials of one name with an embedded image and a picture beside the model; the materials reordered and an image that does not decode; nothing at all. 2 edits and 1 fault, so an edit can fall before and after the fault; 12 GUIDs are enough for every mint |
| `scenefile` | load, save, cook, kept text | 2 builds of one type, the second with a field more; 4 documents: a parent by name with a missing GUID, a circle with repeated and mistyped GUIDs and values, a newer schema, text that is no YAML; 2 edits, 2 generated identities |
| `scenefile_forgotten` | counterexample: data of an unloaded module is lost | 3 edits |
| `shaders` | keys, stores and the promise of cooked-only mode | 2 programs of which one includes the game's module, 3 texts of which one is broken, 2 builds with compilers of their own, a developer's and a player's machine, 1 archive, 2 launches, 1 edit, 2 cooks: an archive made before and after the edit and read by the other build. 1.85 million states |
| `rendering` | bindings, passes, resizes | 1 mesh, 2 materials, 3 modules (reads the screen, does not, does not compile), a list of three surfaces over them, 2 edits, 2 resizes: a change before and after one that fails |
| `log` | one channel, each record once, no dead sink, no deadlock | 3 threads: two that race and one inside a sink; 1 name, 2 levels, a panel, the console and a file, 4 calls |
| `editor_unbound` | counterexample: the viewport stays empty | 2 sizes, 5 changes |

Symmetry is declared only where the run checks no liveness (`scene`, `shaders`,
`rendering`). Deadlock is checked except where the system may stop: bounded edits
and launches leave `rendering`, `shaders` and `editor_unbound` with nothing to do.

Other configurations are kept beside the runs. They pass: `MCApplicationTypes`
(`TypeOK`, `StackPartitioned`, `LayersGoBeforeWindow`), `MCEditorFrame` (of
`EditorFrame`: `ShownIsThisFrame`, `SizeSettles`). They are violated, each by what
section 5 says: `MCScenePrevious`, `MCInputHeld`, `MCInputAxis`,
`MCApplicationDevice`, `MCApplicationServices`, `MCAssetImportTorn`,
`MCSceneFileCache`, `MCShaderRaced`, `MCSceneViewPolicy`, `MCSceneViewReuse`.

Properties worth naming:

* `ImagesAccounted`, `EntryPointsAreSafe`, `LeftoversSwept`: nothing runs from an
  image that is not mapped, nothing is unmapped or kept that should not be, and
  nothing of a killed process stays.
* `HotSwapSpec`, `NewestIsTried`: a refused reload leaves everything as it was, and
  the poll tries the last build except through one window, which the property names.
* `HierarchyConsistent`, `Acyclic`, `RegistryConsistent`, `PropagationSettles`,
  `KeepWorldKeeps`, `CloneIsFaithful`: the ways a scene could break, and the caching
  of world transforms.
* `SnapshotIsExact`, `DownIsHeld`, `AwayIsSilent`: no edge lost, none invented, and
  nothing stuck after focus was lost.
* `TimeAccounted`, `EdgesSeenByOneStep`, `EdgesReachAStep`,
  `FollowersReadFinalTransforms`, `ModulesSeeLiveServices`, `ExitCompletes`: what the
  order of the phases is for.
* `ExtractOnce`, `RegistryPermanent`, `SidecarsAgree`, `IdentitiesHold`: a re-import
  destroys no work, and an identity once on disk is for ever.
* `Sound`, `SaveRoundTrips`, `CookAgrees`, `OwedIsWritten`: whatever document was
  loaded, the scene is a forest; saving loses nothing, data of absent types
  included; a cook gives what its document gives.
* `HashCoversWhatCompilerSaw`, `ServedIsCurrent`, `PromiseKept`: three statements of
  one store: entries are what their key says, what is served is current, and a
  player's machine is never left without.
* `ReadersSeeThisFrame`, `BindingsCurrent`, `GraceIsOneFrame`, `DrawnOnce`: caches and
  passes of the renderer.
* `OneChannelPerName`, `CalledSinksLive`, `DeliveredOnce`, `CallsReturn`: the log.

### Fairness

* `ModuleHost!FairSpec`: the frame loop polls in every frame, and a call the host is
  in returns (`WF` of `ReloadChanged` and `HostStep`). Nothing is assumed of the build.
* `Application!FairSpec`: hooks return and the window's queue of events is finite, so
  the loop goes on (`WF` of `LoopStep`).
* `Log!FairSpec`: a thread inside a call goes on when its lock lets it (`WF` of each
  thread's `Step`), since a sink returns. That no reader is passed over for ever
  follows from the calls being bounded.
* `EditorFrame!FairSpec`: the application starts and its loop runs until it is closed
  (`WF` of `Startup` and of `Frame`).

The other modules state safety only and assume nothing.

## 5. Where the code and its words differ

Three statements are refuted in a run (`findings` in `PROJECT.json` quote them):

1. `reloadChanged` can miss a change: the file is copied first and stamped last
   (`NoChangeMissed`).
2. A scene loaded after a gameplay module was unloaded loses the components of its
   types: they are neither read nor kept as text (`PreservedNotDropped`).
3. The editor layer is attached before the render layer has made the interface it
   binds to, so it registers no panel and never draws (`ViewportShowsThisFrame`).

These have a configuration each, and TLC finds the counterexample:

| Configuration | Statement refuted |
|---|---|
| `MCScenePrevious`, `StillMeansEqual` | an entity that does not move has `previous` equal to `current`; it keeps the one from its last move |
| `MCInputHeld`, `HeldFollowsKeys` | held follows the key; a context pushed while the key is down does not see it held |
| `MCInputAxis`, `AxisRespectsConsumption` | a consumed input is not seen below; a consumed key still moves an axis of a lower context |
| `MCApplicationServices`, `ModulesSeeLiveServices` | with `ClearsServices = FALSE`, as the editor is written, `onUnload` run by the destructor is lent a scene that is gone |
| `MCApplicationDevice`, `ResourcesDieBeforeDevice` | the scene layer lets go of its GPU resources after the render layer has released the device |
| `MCAssetImportTorn`, `IdentitySurvives` | a malformed metafile is treated like a missing one, but is not written again, so the model has a new identity in every process |
| `MCSceneFileCache`, `CacheIsDerived` | a cook stands for its document; a build whose type has another field reads the old cook and gives that field its default |
| `MCShaderRaced`, `HashCoversWhatCompilerSaw` | a module edited between the hash and the compiler's own read is kept under the wrong key |
| `MCSceneViewPolicy`, `ExcludedWritesDepth` | a surface left out of the prepass writes its depth; a module first compiled in that very frame does not |
| `MCSceneViewReuse`, `BindingsCurrent` | bindings are of the mesh drawn; a mesh stored at the address of a freed one is drawn with the other's |

Read but not run, because nothing in the models turns on them:
`Log.hpp` calls `logAddFileSink` idempotent, which always adds another; `logCategoryAt`
of an id that is out of range registers a category named `?`; a comment in `Import.cpp`
says that the first of equal names wins where the last does; `Import.cpp` gives names
`a`, `a`, `a_2` the key `a_2` twice (`StableKeys` shows it; the run keeps names apart);
`SceneSerialize.hpp` says a failed load leaves the scene empty, where one that fails
early leaves it as it was; the editor's context keeps the pointer to its last picture
while it is not bound; `EditorMain.cpp` says a failed view is not retried in every
frame, but the flag is never read.

## 6. Proofs

Every theorem is for any values of the constants that satisfy the named
`ASSUME`s of its module, and for runs of any length. A theorem with a further
assumption says so.

| Proof module | Theorem | States |
|---|---|---|
| `ModuleHost_proofs` | `TypeCorrect`, `ImagesAlwaysAccounted`, `LeftoversAlwaysSwept`, `EntryPointsAlwaysSafe`, `EntryPointsAlwaysInOrder`, `ImplementsHotSwap` | `TypeOK`, `ImagesAccounted`, `LeftoversSwept`, `EntryPointsAreSafe`, `EntryPointsInOrder`, `HotSwapSpec` |
| `Scene_proofs` | `HierarchyAlwaysConsistent`, `AlwaysAcyclic`, `RegistryAlwaysConsistent`, `SceneTypeCorrect`, `WorldsAlwaysMarked`, `PropagationAlwaysSettles`, `KeepWorldAlwaysKeeps`, `ClonesAlwaysFaithful` | the three structural invariants, `TypeOK`, `WorldsMarked`, and the three action properties about transforms |
| `SceneFile_proofs` | `SceneFileInv`, `SceneAlwaysSound`, `SaveAlwaysRoundTrips`, `CookAlwaysAgrees`, `OwedAlwaysWritten`, `LeavesReadValues`, `ReflectedValuesComeBack` | its inductive invariant, `Sound`, `SaveRoundTrips`, `CookAgrees`, `OwedIsWritten`; what a leaf reads is a value of its type, and a value of any depth comes back from its document and its cook |
| `Application_proofs` | `DownAlwaysHeld`, `AwayAlwaysSilent`, `SnapshotsAlwaysExact`, `TimeAlwaysAccounted`, `EdgesAlwaysSeenByOneStep`, `FollowersAlwaysReadFinal`, `ModulesAlwaysSeeLiveServices` (where `ClearsServices`), `LayersAlwaysInPlace`, `InputIsInputSystem`, `StepsSeeExactInput`, `ModulesAreHotSwap` | `DownIsHeld`, `AwayIsSilent`, `SnapshotIsExact` (of every behaviour of `InputSystem`), `TimeAccounted`, `EdgesSeenByOneStep`, `FollowersReadFinalTransforms`, `ModulesSeeLiveServices`, `StackPartitioned` and `LayersGoBeforeWindow`; the specifications `InputSpec` and `HotSwap`; the three of the input system for the one inside an application |
| `AssetImport_proofs` | `NothingWrittenOver`, `IdentitiesStay`, `SidecarsAlwaysAgree`, `IdentitiesAlwaysHold` | `ExtractOnce`, `RegistryPermanent`, `SidecarsAgree`, `IdentitiesHold` |
| `Log_proofs` | `OneChannelAlways`, `CalledSinksAlwaysLive`, `AlwaysDeliveredOnce` | `OneChannelPerName`, `CalledSinksLive`, `DeliveredOnce` |
| `ShaderStore_proofs` | `StoresAlwaysSound`, `AlwaysServedCurrent` (both where `EditsWhileCompiling = FALSE`), `PromisesAlwaysKept` | `HashCoversWhatCompilerSaw`, `ServedIsCurrent`, `PromiseKept` |
| `SceneView_proofs` | `SceneViewTypeCorrect`, `SpecReadersSeeThisFrame`, `SpecBindingsCurrent` (where `ReuseAddresses = FALSE`), `SpecGraceIsOneFrame`, `SpecDrawnOnce`, `PingPongAlternates` | the types, `ReadersSeeThisFrame`, `BindingsCurrent`, `GraceIsOneFrame`, `DrawnOnce`; what a pass of a pair writes is what the next one reads |

None of the invariants is inductive alone. What is added to each, and why:

* **ModuleHost**: `IInv` adds to `TypeOK` and `ImagesAccounted` `CallInProgress` (a
  call past its loop test works on the slot whose file it has staged, and what is
  about to be adopted is a good image) and `CopiesNumbered` (no copy that is mapped or
  being checked has a number above `copyCounter`, and the one being checked is not
  mapped yet). The second makes a fresh copy's name new and so the images of two
  modules different; the first makes the slot a reload replaces the slot it validated
  for. `LeftoversSwept` rests on `SpareInv`: from the sweep in `open()` on, the one
  copy of a file that may be out of use is the one being made, or the one of the
  image that was just swapped out. `ImplementsHotSwap` maps `Tried`, `Recorded` and
  `SetServices` to stuttering.
* **Scene**: `SInv` is the three invariants with the types of their variables: a
  destroy that takes a subtree leaves no dangling link only because every link has
  both ends. That a new link closes no cycle follows from the refusal in `setParent`:
  some set holds the new parent and all above it and not the child; a cycle would lie
  in that set, where nothing changed, or avoid it, and so the new link. `CloneInv`
  treats a clone as an image under two injections, of slots and of GUIDs. For the
  transforms `WInv` adds `TypeOK` and `WorldsMarked`. That the recursion of
  `propagateSubtree` has an answer for every entity, and one only, is shown from
  `Acyclic` (`PropagationSolves`); whatever satisfies its equations is therefore what
  the next propagation gives, and the three action properties exhibit such a
  function: the old transforms, or their image under the copy.
* **SceneFile**: `Inv`. `SceneInv`: the scene is a forest of proper entities (each has
  the intrinsic types, values of its types, and as text nothing the schema leaves out),
  whose identities were written by an author or generated: so a generated one is new.
  `FileInv` says the same of the document. `SyncInv`: a document in step with the scene
  carries nothing that the scene has not, attached or as text, and one with every guid
  written says all of it. `CookInv`: a cook was made of a scene that was in step with
  the text whose hash it has, under the types of the build `by`; that scene is gone when
  the cook is read, and is therefore quantified. `OwedInv`: what is owed is attached or
  kept as text. None of the four properties is inductive: saving turns text into
  components and back only by what `SyncInv` says of both, and a cook outlives the
  scene. The load is two folds over records; they are described without order, by
  `Skeleton` (who is there, and whose child) and `Contents` (all components gathered for
  an identity), so that the documents of two scenes, or a scene and its own document,
  are compared by what they hold; the links of a document that was saved form a forest,
  so `setParent` refuses none of them. `ReflectedValuesComeBack` is an induction over the
  depth of a value, made as a search for the shallowest value that does not come back;
  it is about any operators that do with the parts of a value what `Serialize` does.
* **InputSystem** (in `Application_proofs`, so that one module has both): `Quiet` says
  that in the background the edges collected are empty as well, not only those
  published: what `reset` clears is what the next snapshot would bring back. For
  `SnapshotIsExact` the stack is ranked strictly, by priority and then by order of
  pushing, so the walk over it meets the contexts as `heard` ranks them, and what is
  collected agrees with what each action was entitled to hear.
* **Application**: four parts that are independent of one another. `Timing` keeps the
  loop's copy of the fixed step equal to the clock's while it consumes. `Edges`: after
  the first step of a frame nothing is left to publish, since events come before the
  steps. `Teardown`: the stack is sound and empty where `run` leaves it empty; the
  lemmas `InsertedSound` and `RemovedSound` carry the boundary between layers and
  overlays through an insertion and a removal. `Lending`: while the program runs, what
  is lent lives, and with any module loaded the scene is lent; afterwards nothing is
  lent unless the program does not take it back. `InputIsInputSystem` and
  `ModulesAreHotSwap` compose: every step of the loop, its events and its program is
  a step of the component or leaves it alone, so what is proved of every behaviour of
  `InputSystem` holds inside an application: `StepsSeeExactInput` states it for what a
  fixed step reads. `ModuleHost` promises what the application takes its modules to do.
* **AssetImport**: `Typed` and `Knows`. What the running import knows of the disk: the
  registry in its hands goes on from the one on disk, and a material it is still to
  write is not there. Nothing but the import changes a metafile while it runs, and a
  sub-asset has one turn (`Pending`). `DInv`, for `SidecarsAgree`: while no write of
  the import has failed, each file is either still to be done, and then its task will
  deliver it, or stands with a sidecar that agrees with the registry in hand.
  `HInv`, for `IdentitiesHold`: without faults no metafile is torn, every sidecar is
  filed in the registry in hand or on disk, and the pool, the cache of the run and
  every material name only identities that are.
* **Log**: `ClientsKeepTheirWord` (a registered sink of a client is one it has added,
  and no two calls are about one sink) and, for each call, how far its walk has got:
  `Placed`, `Counted` and what it owes. The sinks do not change while anyone walks
  them, so each call's part is independent of the others.
* **ShaderStore**: `PInv` (`Typed`, `PromisesHeld`) for the promise, and on top of it
  `Memory`, `Cache`, `Content` and `Faithful` for the content: each store, in memory or
  on disk, holds only entries that are what their key says, by the compiler of its
  file. Which archive an entry comes from when several hold it is the first in order,
  whose existence is the well-foundedness of `<`.
* **SceneView**: the cache of pipelines holds what building gives and what is known of
  a module is true of it; no object is at the address of another; a binding made under
  the current resources holds what they are; the snapshot a binding remembers is the
  view's when it is at that address. On these rest what a frame in progress has noted
  of its surfaces before it draws any (who reads the screen, who was known), and a
  count of the draws of each surface that the walk over the list carries on.

Only model-checked:

* liveness (`NewestIsTried`, `PollingSettles`, `EdgesReachAStep`, `ExitCompletes`,
  `CallsReturn`, `SizeSettles`): it rests on fairness, which is out of the prover's
  reach;
* that `Serialize` satisfies the equations `ReflectedValuesComeBack` is about: they are
  the bodies of its recursive operators, which the provers cannot use. TLC evaluates
  `ValuesAssumption` with them for the types, values and documents of the runs;
* `EditorFrame`.

## 7. What is assumed, and what is not modelled

Assumed where the models meet code that is not theirs:

* the permutations of one shader module agree: it compiles, and reads the screen, under
  all of them or none; the device accepts what compiles; setting a variable of a
  resource binding replaces what was there; colour and depth of the snapshot are one;
* a draw list names meshes and materials of the project, and the material that comes
  with a mesh brings no shader module (`ListsAssumption`, `KindsAssumption`); the values
  that stand for nothing (no file, no binding, no snapshot) are none of the values
  (`MarksAssumption`, `AssetImportAssumption`);
* in `rendering`, the address of a freed mesh is not given out again while bindings
  remember it; in `shaders`, a source is not edited during a compile. Without either a
  property fails, as section 5 says;
* `SceneFile`: a value comes back from the form it was written in, and what is read into
  a component is a value of its type (`ValuesAssumption`, which TLC evaluates with
  `Serialize`, and the two theorems about `Reflected` support for every type); a name has
  one type in a build and no component is called like the links (`TypesAssumption`); an
  author writes identities up to a bound and generated ones lie beyond it, so the two
  never collide (`DocumentsAssumption`, `Authored`), as 64 random bits make it;
* a sink does not log and does not add or remove sinks, and is registered at most once
  at a time;
* two writes of a module file differ in stamp or size; the names in one model file do
  not end in the suffixes the engine would give;
* key and button events reach only a window that has focus.

Hazards of the code that no property here covers: a module file copied while the build
still has it open (`ModuleHost.cpp:226`); two hosts in one process that number their
copies alike (`ModuleHost.cpp:104`); a component pool that outlives the image its code
is in (`tests/integration/rockcube_module_test.cpp:109`); two keys of one action, where
the release of either clears it (`Input.cpp:69`), and a consuming context between a
press and its release (`Input.cpp:81`); a fixed step changed inside the loop that
consumes it (`Application.cpp:162`), and an interpolation factor above one
(`Time.cpp:88`); a layer that changes the stack inside a walk (`Layer.cpp:50`, `77`).
The models make no such call or reduce its outcome to nondeterminism.

Not modelled:

* `Settings.cpp`, `InputBindings.cpp`: lookups and conversions at start, on one thread,
  without state that another party changes;
* `RuntimeMain.cpp`: one module and one render layer over `Application`;
* `RenderStack.cpp`: a list of passes kept in order and walked once a frame, changed by
  its owner only; `CameraSystem.cpp`, `Camera.cpp`, `EditorCamera.cpp`, lights: one pass
  over the scene in each frame, whose content is arithmetic;
* `ShaderParams.cpp`, `ModuleResourceSignature.cpp`: layouts of bytes as the compiler
  reports them;
* mounts, archives and enumeration of `Vfs.cpp`; dispatch of events through the layers;
  time scale and elapsed totals of the clock; component data other than transforms in
  `Scene`;
* matrices, lighting and shading; Diligent, SDL, PhysicsFS, EnTT and the Slang
  compiler; generated and vendored code; samples and tools.
