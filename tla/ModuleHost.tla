----------------------------- MODULE ModuleHost -----------------------------
(***************************************************************************)
(* The hot-reloading host of gameplay modules (engine/src/ModuleHost.cpp). *)
(*                                                                         *)
(* Two parties take turns.  The host loads module files, polls them once a *)
(* frame and swaps a changed one in; every system call it makes on a       *)
(* module's file is a step of its own.  The build writes the same files    *)
(* whenever it likes, so it may land between any two of those calls.  The  *)
(* process may also be killed, which leaves its working copies on disk.    *)
(***************************************************************************)
EXTENDS Integers, Sequences, FiniteSets

CONSTANTS
    Paths,       \* the module files the build produces
    Services,    \* the sets of borrowed pointers an application may lend
    NoServices,  \* all of them null
    MaxWrites,   \* bound: writes the build makes, over all files
    MaxForced,   \* bound: calls to load and reloadAll
    MaxLive,     \* bound: modules loaded at once
    MaxCopies,   \* bound: working copies one run of the process makes
    MaxRefusals, \* bound: removals the file system refuses without a mapping
    MaxCrashes   \* bound: times the process is killed

ASSUME HostAssumption ==
    /\ Paths # {} /\ NoServices \in Services
    /\ {MaxWrites, MaxForced, MaxLive, MaxCopies, MaxRefusals, MaxCrashes} \subseteq Nat

\* What a write leaves in the file.  Only a "good" image passes every check of
\* open().  A "foreign" one exports no build id; a "refused" one is half
\* written and not accepted by the loader, or has another engine's build id,
\* or lacks hp_module_api: it is unmapped again if it was mapped at all.
Kinds == {"good", "refused", "foreign"}

\* A file's stamp and size together, as the number of the write that produced
\* it; NoMark is what the two queries leave when the file is not there.
NoMark == -1
Marks == 0..MaxWrites

VARIABLES
    platform,    \* "windows" locks a mapped file, "linux" does not
    file,        \* file[p]: what the build last left at p
    writes,      \* writes made so far
    modules,     \* the live modules, in load order
    services,    \* what every module is lent
    copyCounter, \* numbers the working copies of this host
    copies,      \* working copies on disk, as <<path, number>>
    mapped,      \* those the process has mapped
    leaked,      \* those of refused images left mapped on purpose
    pc, job,     \* where the host is, and the call it is in
    staged,      \* the working copy open() has made, until it is moved in
    call,        \* history: the entry point the last step ran
    active,      \* history: images whose onLoad has run and onUnload has not
    opened,      \* history: files this process has tried to open
    stuck,       \* history: copies whose last removal was refused
    forced, refusals, crashes

hostVars  == <<modules, services, copyCounter, mapped, leaked, pc, job, active>>
buildVars == <<file, writes>>
diskVars  == <<copies, stuck, refusals>>
vars == <<platform, file, writes, modules, services, copyCounter, copies,
          mapped, leaked, pc, job, staged, call, active, opened, stuck, forced,
          refusals, crashes>>

File   == [mark : Marks, kind : Kinds \cup {"absent"}]
Copies == Paths \X Nat
Loaded == [path : Paths, copy : Copies, kind : Kinds, gen : Nat,
           mark : Marks \cup {NoMark}, lent : Services,
           tried : Marks,    \* history: the newest write an attempt read
           raced : BOOLEAN]  \* history: a write fell between its copy and stat
Staged == [copy : Copies, kind : Kinds, tried : Marks, raced : BOOLEAN,
           mark : Marks \cup {NoMark}]
Job    == [op : {"none", "load", "changed", "all", "update", "unload"},
           path : Paths, index : Nat]
Call   == [entry : {"none", "onLoad", "onUpdate", "onUnload"}, copy : Copies,
           index : Nat, lent : Services]

NoJob == [op |-> "none", path |-> CHOOSE p \in Paths : TRUE, index |-> 0]
NoStaged == [copy |-> <<NoJob.path, 0>>, kind |-> "refused", tried |-> 0,
             raced |-> FALSE, mark |-> NoMark]
NoCall == [entry |-> "none", copy |-> NoStaged.copy, index |-> 0, lent |-> NoServices]

Exists(p) == file[p].kind # "absent"
Slots == DOMAIN modules

\* The slots that hold an image: unloadAll works its way down to the first
\* and clears the vector at the end.
Live == IF job.op = "unload" THEN 1..job.index ELSE Slots
LiveCopies == {modules[i].copy : i \in Live}
MarkOf(p) == IF Exists(p) THEN file[p].mark ELSE NoMark

-----------------------------------------------------------------------------
(* The build, and the file system under both. *)

\* remove() of working copies, its error ignored.  On Windows a mapped file
\* stays; and any other may (it "can stay locked briefly after FreeLibrary", a
\* directory may not be writable), which MaxRefusals bounds.
Locked(set, stillMapped) ==
    IF platform = "windows" THEN set \cap stillMapped ELSE {}

\* The sets of copies a removal may leave behind.
LeftBehind(set, stillMapped) ==
    {left \in SUBSET set :
        /\ Locked(set, stillMapped) \subseteq left
        /\ left = Locked(set, stillMapped) \/ refusals < MaxRefusals}

\* Of the copies in "set", "left" could not be removed.
Refused(set, left, stillMapped) ==
    /\ stuck' = (stuck \ set) \cup left
    /\ refusals' = IF left = Locked(set, stillMapped) THEN refusals ELSE refusals + 1

BuildWrites(p, f) ==
    /\ writes < MaxWrites
    /\ writes' = writes + 1
    /\ file' = [file EXCEPT ![p] = f]
    /\ staged' = [staged EXCEPT
          !.raced = @ \/ (pc \in {"check", "adopt"} /\ job.path = p)]
    /\ call' = NoCall
    /\ UNCHANGED <<platform, hostVars, diskVars, opened, forced, crashes>>

Build(p)  == \E k \in Kinds : BuildWrites(p, [mark |-> writes + 1, kind |-> k])
Vanish(p) == Exists(p) /\ BuildWrites(p, [mark |-> writes + 1, kind |-> "absent"])

-----------------------------------------------------------------------------
(* Entry points.  lend() copies the host's services into the module's      *)
(* context right before its code runs.                                     *)

Lent(i) == [modules EXCEPT ![i].lent = services]

Enter(entry, i) ==
    /\ modules' = Lent(i)
    /\ call' = [entry |-> entry, copy |-> modules[i].copy, index |-> i,
                lent |-> Lent(i)[i].lent]

\* The working copy of an image that is done with.
Remove(copy, stillMapped) ==
    LET own == copies \cap {copy}
    IN  \E left \in LeftBehind(own, stillMapped) :
          /\ copies' = (copies \ own) \cup left
          /\ Refused(own, left, stillMapped)

\* Mutant: close() forgets platformClose.
Unmap_Never(set) == mapped

Unmap(set) == mapped \ set
CopiesOf(p) == {c \in copies : c[1] = p}

Idle == pc = "idle"
Goto(label) == pc' = label
Reloading == job.op \in {"changed", "all"}

\* The call is over, or its loop goes on with the next module.
Finish == Goto("idle") /\ job' = NoJob
Return ==
    IF Reloading THEN Goto("scan") /\ job' = [job EXCEPT !.index = @ + 1]
                 ELSE Finish

\* A step that moves the host along and touches no file, image or module code.
OnlyControl ==
    /\ call' = NoCall
    /\ UNCHANGED <<platform, buildVars, services, copyCounter, diskVars, mapped,
                   leaked, staged, active, opened, crashes>>

\* Mutant: the old image is unloaded before the new one is validated.
Tried_Unloaded(m) ==
    IF Reloading
    THEN SubSeq(modules, 1, job.index - 1) \o SubSeq(modules, job.index + 1, Len(modules))
    ELSE modules

\* The attempt on slot job.index has read write m and been refused.
Tried(m) ==
    IF Reloading THEN [modules EXCEPT ![job.index].tried = m] ELSE modules

-----------------------------------------------------------------------------
(* Calls the application makes. *)

\* load(path): open() starts at its existence check.
Load(p) ==
    /\ Idle /\ forced < MaxForced /\ Len(modules) < MaxLive
    /\ forced' = forced + 1
    /\ job' = [op |-> "load", path |-> p, index |-> Len(modules) + 1]
    /\ Goto("stage") /\ OnlyControl
    /\ UNCHANGED modules

\* A loop over the modules starts.
Begin(op, first, label) ==
    /\ Idle
    /\ job' = [job EXCEPT !.op = op, !.index = first]
    /\ Goto(label) /\ OnlyControl
    /\ UNCHANGED modules

\* reloadChanged(), once a frame, and reloadAll().
ReloadChanged == Begin("changed", 1, "scan") /\ UNCHANGED forced
ReloadAll == forced < MaxForced /\ forced' = forced + 1 /\ Begin("all", 1, "scan")

\* Mutant: what was seen is not recorded.
Recorded_Not(i) == [modules EXCEPT ![i].raced = FALSE]

\* The module in the loop has changed: reloadChanged records what it saw
\* before the attempt, so that a failure is reported once.
Recorded(i) ==
    [modules EXCEPT
        ![i].mark = IF job.op = "changed" THEN file[modules[i].path].mark ELSE @,
        ![i].raced = FALSE]

\* Mutant: stamps are compared more coarsely than the file system keeps them.
Changed_Coarse(i) ==
    LET p == modules[i].path
    IN  Exists(p) /\ file[p].mark > modules[i].mark + 1

\* Whether reloadChanged attempts slot i.  A file that cannot be queried is
\* mid-write and is left for the next frame.
Changed(i) ==
    LET p == modules[i].path
    IN  Exists(p) /\ file[p].mark # modules[i].mark

Scan ==
    /\ pc = "scan" /\ job.index \in Slots
    /\ LET i == job.index
       IN  IF job.op = "all" \/ Changed(i)
           THEN /\ modules' = Recorded(i)
                /\ Goto("stage") /\ job' = [job EXCEPT !.path = modules[i].path]
           ELSE UNCHANGED modules /\ Return
    /\ OnlyControl /\ UNCHANGED forced

ScanDone ==
    /\ pc = "scan" /\ job.index \notin Slots
    /\ Finish
    /\ OnlyControl /\ UNCHANGED <<modules, forced>>

-----------------------------------------------------------------------------
(* open(): stage a working copy, load it, validate it. *)

\* The file is gone: NotLoadable, before anything is touched.
StageMissing ==
    /\ pc = "stage" /\ ~Exists(job.path)
    /\ Return
    /\ OnlyControl /\ UNCHANGED <<modules, forced>>

\* Mutant: nothing is swept before a copy is made.
Swept_Not(p, left) == copies

\* sweepStaleCopies(): every file that looks like a working copy of p goes,
\* the live module's own included, except those whose removal is refused.
Swept(p, left) == (copies \ CopiesOf(p)) \cup left

\* The copy about to be made, which replaces a file of that name, and what the
\* sweep before it may leave behind.
NextCopy == <<job.path, copyCounter + 1>>
LeftBySweep == {left \in LeftBehind(CopiesOf(job.path), mapped) : NextCopy \notin left}

Stage ==
    /\ pc = "stage" /\ Exists(job.path) /\ copyCounter < MaxCopies
    /\ copyCounter' = copyCounter + 1
    /\ opened' = opened \cup {job.path}
    /\ \E left \in LeftBySweep :
          /\ copies' = Swept(job.path, left) \cup {NextCopy}
          /\ Refused(CopiesOf(job.path), left, mapped)
    /\ staged' = [copy |-> NextCopy, kind |-> file[job.path].kind,
                  tried |-> file[job.path].mark, raced |-> FALSE, mark |-> NoMark]
    /\ Goto("check") /\ call' = NoCall
    /\ UNCHANGED <<platform, buildVars, modules, services, mapped, leaked, job,
                   active, forced, crashes>>

\* copy_file fails (the build took the file away, the disk is full): whatever
\* part of the copy was written stays behind.  At the bound on copies this is
\* the only outcome left.
StageFails ==
    /\ pc = "stage" /\ Exists(job.path)
    /\ copyCounter' = IF copyCounter < MaxCopies THEN copyCounter + 1 ELSE copyCounter
    /\ opened' = opened \cup {job.path}
    /\ \E part \in SUBSET (IF copyCounter < MaxCopies THEN {NextCopy} ELSE {}),
          left \in LeftBySweep :
          /\ copies' = Swept(job.path, left) \cup part
          /\ Refused(CopiesOf(job.path), left, mapped)
    /\ modules' = Tried(file[job.path].mark)
    /\ Return /\ call' = NoCall
    /\ UNCHANGED <<platform, buildVars, services, mapped, leaked, staged, active,
                   forced, crashes>>

\* The image is refused without a line of its code having run.  One without a
\* build id must not be unmapped: it is left mapped, and only its file removed.
Refuse ==
    /\ pc = "check" /\ staged.kind # "good"
    /\ LET keep == IF staged.kind = "foreign" THEN {staged.copy} ELSE {}
       IN  mapped' = mapped \cup keep /\ leaked' = leaked \cup keep
    /\ Remove(staged.copy, mapped')
    /\ modules' = Tried(staged.tried)
    /\ staged' = NoStaged
    /\ Return /\ call' = NoCall
    /\ UNCHANGED <<platform, buildVars, services, copyCounter, active, opened,
                   forced, crashes>>

Accept ==
    /\ pc = "check" /\ staged.kind = "good"
    /\ mapped' = mapped \cup {staged.copy}
    /\ Goto("adopt") /\ call' = NoCall
    /\ UNCHANGED <<platform, buildVars, modules, services, copyCounter, diskVars,
                   leaked, job, staged, active, opened, forced, crashes>>

-----------------------------------------------------------------------------
(* The end of open(), close() and activate(). *)

\* The record open() fills in, with the stamp m.  Nothing is lent to it yet.
Fresh(gen, m) ==
    [path |-> job.path, copy |-> staged.copy, kind |-> staged.kind, gen |-> gen,
     mark |-> m, lent |-> NoServices, tried |-> staged.tried, raced |-> staged.raced]

\* Mutant: close() unmaps an image without running its onUnload.
CloseStart_Unmap == "unmap"

\* Where close() starts.
CloseStart == "close"

\* open() reads the file's stamp and size: as they are now, not those of the
\* bytes that were copied.  load() keeps the record at once.
AdoptLoaded ==
    /\ pc = "adopt" /\ job.op = "load"
    /\ modules' = Append(modules, Fresh(1, MarkOf(job.path)))
    /\ staged' = NoStaged
    /\ Goto("activate") /\ call' = NoCall
    /\ UNCHANGED <<platform, buildVars, services, copyCounter, diskVars, mapped,
                   leaked, job, active, opened, forced, crashes>>

\* reloadAt() closes the old image first.
AdoptReloaded ==
    /\ pc = "adopt" /\ Reloading
    /\ staged' = [staged EXCEPT !.mark = MarkOf(job.path)]
    /\ Goto(CloseStart) /\ call' = NoCall
    /\ UNCHANGED <<platform, buildVars, modules, services, copyCounter, diskVars,
                   mapped, leaked, job, active, opened, forced, crashes>>

\* close(): the image's onUnload.
Close ==
    /\ pc = "close"
    /\ Enter("onUnload", job.index)
    /\ active' = active \ {modules[job.index].copy}
    /\ Goto("unmap")
    /\ UNCHANGED <<platform, buildVars, services, copyCounter, diskVars, mapped,
                   leaked, job, staged, opened, forced, crashes>>

\* The rest of close(): the image is unmapped and its working copy removed.
Closed ==
    /\ mapped' = Unmap({modules[job.index].copy})
    /\ Remove(modules[job.index].copy, mapped')

\* reloadAt() moves the fresh image into the slot of the closed one.
SwapIn ==
    /\ pc = "unmap" /\ Reloading
    /\ Closed
    /\ modules' = [modules EXCEPT ![job.index] = Fresh(@.gen + 1, staged.mark)]
    /\ staged' = NoStaged
    /\ Goto("activate") /\ call' = NoCall
    /\ UNCHANGED <<platform, buildVars, services, copyCounter, leaked, job, active,
                   opened, forced, crashes>>

\* unloadAll() goes on with the module loaded before, or clears the vector.
CloseNext ==
    /\ pc = "unmap" /\ job.op = "unload"
    /\ Closed
    /\ IF job.index > 1
       THEN /\ Goto(CloseStart) /\ job' = [job EXCEPT !.index = @ - 1]
            /\ UNCHANGED modules
       ELSE modules' = <<>> /\ Finish
    /\ call' = NoCall
    /\ UNCHANGED <<platform, buildVars, services, copyCounter, leaked, staged, active,
                   opened, forced, crashes>>

\* activate(): the new image's onLoad.
Activate ==
    /\ pc = "activate"
    /\ Enter("onLoad", job.index)
    /\ active' = active \cup {modules[job.index].copy}
    /\ Return
    /\ UNCHANGED <<platform, buildVars, services, copyCounter, diskVars, mapped,
                   leaked, staged, opened, forced, crashes>>

-----------------------------------------------------------------------------
(* The rest of the host's interface. *)

SetServices(s) ==
    /\ Idle /\ s # services
    /\ services' = s
    /\ modules' = [i \in Slots |-> [modules[i] EXCEPT !.lent = s]]
    /\ call' = NoCall
    /\ UNCHANGED <<platform, buildVars, copyCounter, diskVars, mapped, leaked, pc,
                   job, staged, active, opened, forced, crashes>>

\* update(), in load order.
Update == modules # <<>> /\ Begin("update", 1, "update") /\ UNCHANGED forced

UpdateNext ==
    /\ pc = "update"
    /\ Enter("onUpdate", job.index)
    /\ IF job.index < Len(modules)
       THEN UNCHANGED pc /\ job' = [job EXCEPT !.index = @ + 1]
       ELSE Finish
    /\ UNCHANGED <<platform, buildVars, services, copyCounter, diskVars, mapped,
                   leaked, staged, active, opened, forced, crashes>>

\* unloadAll(), which is also what the destructor does: newest first.
UnloadAll ==
    /\ modules # <<>> /\ Begin("unload", Len(modules), CloseStart)
    /\ UNCHANGED forced

\* The process is killed at any point and started again.  The operating system
\* unmaps everything; no destructor runs, so the working copies stay.
Crash ==
    /\ crashes < MaxCrashes
    /\ crashes' = crashes + 1
    /\ modules' = <<>> /\ services' = NoServices
    /\ copyCounter' = 0 /\ mapped' = {} /\ leaked' = {} /\ active' = {}
    /\ Finish /\ staged' = NoStaged
    /\ call' = NoCall /\ opened' = {} /\ stuck' = {}
    /\ UNCHANGED <<platform, buildVars, copies, forced, refusals>>

-----------------------------------------------------------------------------
Init ==
    /\ platform \in {"linux", "windows"}
    /\ file = [p \in Paths |-> [mark |-> 0, kind |-> "good"]]
    /\ writes = 0
    /\ modules = <<>> /\ services = NoServices
    /\ copyCounter = 0 /\ copies = {} /\ mapped = {} /\ leaked = {}
    /\ pc = "idle" /\ job = NoJob /\ staged = NoStaged
    /\ call = NoCall /\ active = {} /\ opened = {} /\ stuck = {}
    /\ forced = 0 /\ refusals = 0 /\ crashes = 0

\* The steps of a call the host is already inside.
HostStep ==
    \/ Scan \/ ScanDone \/ StageMissing \/ Stage \/ StageFails
    \/ Refuse \/ Accept \/ AdoptLoaded \/ AdoptReloaded
    \/ Close \/ SwapIn \/ CloseNext \/ Activate \/ UpdateNext

Next ==
    \/ \E p \in Paths : Build(p) \/ Vanish(p) \/ Load(p)
    \/ ReloadChanged \/ ReloadAll \/ HostStep
    \/ \E s \in Services : SetServices(s)
    \/ Update \/ UnloadAll \/ Crash

Spec == Init /\ [][Next]_vars

\* The frame loop polls in every frame, between its other calls, and a call
\* the host is in runs to its end.  Nothing is assumed of the build, which may
\* stop with a file missing.
FairSpec == Spec /\ WF_vars(HostStep) /\ SF_vars(ReloadChanged)

-----------------------------------------------------------------------------
(* What the host promises. *)

\* Every variable holds a value of its type.
TypeOK ==
    /\ platform \in {"linux", "windows"}
    /\ file \in [Paths -> File] /\ writes \in Marks
    /\ modules \in Seq(Loaded) /\ services \in Services
    /\ copyCounter \in Nat /\ copies \subseteq Copies /\ stuck \subseteq copies
    /\ mapped \subseteq Copies /\ leaked \subseteq Copies /\ active \subseteq Copies
    /\ pc \in {"idle", "scan", "stage", "check", "adopt", "close", "unmap",
               "activate", "update"}
    /\ job \in Job /\ staged \in Staged
    /\ call \in Call /\ opened \subseteq Paths
    /\ forced \in 0..MaxForced /\ refusals \in 0..MaxRefusals
    /\ crashes \in 0..MaxCrashes

\* An image has been opened for the slot of a reload and not yet moved in.
Swapping == pc = "adopt" \/ (pc \in {"close", "unmap"} /\ Reloading)

\* The process has mapped exactly the images it must: the running modules',
\* each in a mapping of its own and validated, the one being swapped in, and
\* those refused ones that unmapping would make crash at exit (open, close).
ImagesAccounted ==
    /\ mapped = LiveCopies \cup leaked
                  \cup (IF Swapping THEN {staged.copy} ELSE {})
    /\ \A i, j \in Slots : i # j => modules[i].copy # modules[j].copy
    /\ Swapping => staged.copy \notin LiveCopies \cup leaked
    /\ LiveCopies \cap leaked = {}
    /\ \A i \in Slots : modules[i].kind = "good"

\* A file once opened leaves at most one working copy that is not in use,
\* whatever earlier runs were killed, besides those whose last removal the
\* file system refused: the sweep in open() takes the rest, and tries the
\* refused ones again (sweepStaleCopies, close).
LeftoversSwept ==
    \A p \in opened : Cardinality(CopiesOf(p) \ (mapped \cup stuck)) <= 1

\* Module code only runs from an image that is mapped, validated and its own,
\* and is lent what the application last set.  An image's onLoad runs once all
\* other images of its slot have had their onUnload, so that one module's
\* types are never registered twice; its other entry points run in between;
\* unloadAll leaves the newest module first; and no image is unmapped that has
\* not had its onUnload (activate, close, update, reloadAt, unloadAll).
EntryPointsAreSafe ==
    [][/\ call'.entry # "none" => /\ call'.copy \in mapped \ leaked
                                  /\ call'.lent = services'
       /\ call'.entry = "onLoad" =>
             active = {modules[j].copy : j \in Slots \ {call'.index}}
       /\ call'.entry \in {"onUpdate", "onUnload"} => call'.copy \in active
       /\ call'.entry = "onUnload" /\ job.op = "unload" =>
             active = {modules[j].copy : j \in 1..call'.index}
       /\ crashes' = crashes => (mapped \ mapped') \cap active = {}]_vars

\* A refused reload leaves every module as it was, and an accepted one moves
\* one module to its next generation: the host implements HotSwap.
Slot == INSTANCE HotSwap WITH
    running <- [i \in Slots |-> [path |-> modules[i].path, gen |-> modules[i].gen]]
HotSwapSpec == Slot!Spec

\* After the build stops, the last thing it left for a running module is
\* tried, unless the write fell between the copy and the stat of one open()
\* (reloadChanged).
NewestIsTried ==
    <>[](\A i \in Slots :
            LET p == modules[i].path
            IN  Exists(p) => modules[i].tried = file[p].mark \/ modules[i].raced)

\* A build that cannot be loaded is reported and then left alone: the poll
\* does not attempt reloads for ever (the stamp recorded in reloadChanged).
PollingSettles == <>[](pc = "stage" => job.op # "changed")

\* What reloadChanged's documentation promises, without exception: no change
\* of a loaded module's file goes unnoticed.
NoChangeMissed ==
    \A i \in Slots :
        LET p == modules[i].path
        IN  Idle /\ Exists(p) /\ modules[i].mark = MarkOf(p)
               => modules[i].tried = file[p].mark
=============================================================================
