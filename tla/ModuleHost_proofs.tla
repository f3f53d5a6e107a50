-------------------------- MODULE ModuleHost_proofs --------------------------
(***************************************************************************)
(* Proofs about the module host, for any number of files, writes, modules, *)
(* services, refused removals and kills.                                   *)
(***************************************************************************)
EXTENDS ModuleHost, TLAPS, FiniteSetTheorems

-----------------------------------------------------------------------------
(* The inductive invariant. *)

Opening == pc \in {"stage", "check", "adopt"}

\* The call the host is in, which slot it works on, and what it has staged.
CallInProgress ==
    /\ pc = "scan" => Reloading
    /\ Opening \/ pc = "activate" => job.op = "load" \/ Reloading
    /\ pc \in {"close", "unmap"} => job.op = "unload" \/ Reloading
    /\ job.op = "unload" => pc \in {"close", "unmap"}
    /\ pc \in {"close", "unmap", "activate", "update"} \/ (Opening /\ Reloading) =>
          job.index \in Slots
    /\ Opening \/ Swapping => IF Reloading THEN job.path = modules[job.index].path
                                           ELSE job.index = Len(modules) + 1
    /\ Swapping => staged.kind = "good"

\* Working copies are numbered upwards, and the one being checked is not yet
\* mapped: that is why a fresh copy can never be an image already in use.
CopiesNumbered ==
    /\ \A c \in mapped : c[2] <= copyCounter
    /\ pc = "check" => staged.copy \notin mapped /\ staged.copy[2] <= copyCounter

\* An image is active unless its module is the one being closed, swapped in or
\* loaded, between its onUnload and its successor's onLoad.
Inactive == IF pc \in {"unmap", "activate"} THEN {job.index} ELSE {}
ActiveAccounted == active = {modules[i].copy : i \in Live \ Inactive}

IInv == TypeOK /\ CallInProgress /\ CopiesNumbered /\ ImagesAccounted /\ ActiveAccounted

-----------------------------------------------------------------------------
(* Types. *)

LEMMA NoJobType == NoJob \in Job /\ NoJob.path \in Paths /\ NoJob.op = "none"
BY HostAssumption DEF NoJob, Job

LEMMA NoStagedType == NoStaged \in Staged /\ NoCall \in Call
BY NoJobType, HostAssumption DEF NoStaged, NoCall, Staged, Call, Copies, Kinds, Marks

LEMMA InitInv == Init => IInv
<1> SUFFICES ASSUME Init PROVE IInv
  OBVIOUS
<1>1. TypeOK
  BY HostAssumption, NoJobType, NoStagedType
  DEF Init, TypeOK, File, Kinds, Marks, Loaded, Copies
<1>2. CallInProgress /\ CopiesNumbered
  BY NoJobType DEF Init, CallInProgress, CopiesNumbered, Opening, Swapping, Reloading
<1>3. ImagesAccounted /\ ActiveAccounted
  BY NoJobType DEF Init, ImagesAccounted, ActiveAccounted, LiveCopies, Live, Slots, Swapping
<1> QED BY <1>1, <1>2, <1>3 DEF IInv

\* The record open() fills in is a well-typed module.
LEMMA FreshType ==
  ASSUME TypeOK, NEW g \in Nat, NEW m \in Marks \cup {NoMark}
  PROVE  /\ Fresh(g, m) \in Loaded
         /\ Fresh(g, m).copy = staged.copy /\ Fresh(g, m).kind = staged.kind
         /\ Fresh(g, m).path = job.path /\ Fresh(g, m).gen = g
BY HostAssumption DEF Fresh, TypeOK, Loaded, Staged, Job

LEMMA MarkType == TypeOK => MarkOf(job.path) \in Marks \cup {NoMark}
BY DEF TypeOK, MarkOf, File, Job

\* Replacing the record of one slot by another leaves the others alone.
LEMMA ReplaceType ==
  ASSUME NEW s \in Seq(Loaded), NEW i \in DOMAIN s, NEW m \in Loaded
  PROVE  /\ [s EXCEPT ![i] = m] \in Seq(Loaded)
         /\ Len([s EXCEPT ![i] = m]) = Len(s)
         /\ DOMAIN [s EXCEPT ![i] = m] = DOMAIN s
OBVIOUS

\* Steps that keep every slot's image.
SlotsKept ==
    /\ modules' \in Seq(Loaded) /\ Len(modules') = Len(modules) /\ Slots' = Slots
    /\ \A i \in Slots : /\ modules'[i].copy = modules[i].copy
                        /\ modules'[i].path = modules[i].path
                        /\ modules'[i].kind = modules[i].kind
                        /\ modules'[i].gen = modules[i].gen

LEMMA SlotType ==
  ASSUME TypeOK
  PROVE  Slots = 1..Len(modules) /\ Len(modules) \in Nat /\ \A i \in Slots : modules[i] \in Loaded
BY DEF TypeOK, Slots

LEMMA SlotReplaced ==
  ASSUME TypeOK, NEW i \in Slots, NEW m \in Loaded, modules' = [modules EXCEPT ![i] = m],
         m.copy = modules[i].copy, m.path = modules[i].path, m.kind = modules[i].kind,
         m.gen = modules[i].gen
  PROVE  SlotsKept
BY ReplaceType DEF TypeOK, SlotsKept, Slots

LEMMA TriedType ==
  ASSUME TypeOK, NEW m \in Marks, Reloading => job.index \in Slots, modules' = Tried(m)
  PROVE  SlotsKept
<1>1. CASE ~Reloading
  BY <1>1 DEF Tried, TypeOK, SlotsKept, Slots
<1>2. CASE Reloading
  <2> DEFINE old == modules[job.index]
             new == [old EXCEPT !.tried = m]
  <2>1. old \in Loaded
    BY <1>2, SlotType
  <2>2. new \in Loaded /\ new.copy = old.copy /\ new.path = old.path /\ new.kind = old.kind
        /\ new.gen = old.gen
    BY <2>1 DEF Loaded
  <2>3. modules' = [modules EXCEPT ![job.index] = new]
    BY <1>2 DEF Tried
  <2> QED BY <1>2, <2>2, <2>3, SlotReplaced
<1> QED BY <1>1, <1>2

LEMMA RecordedType ==
  ASSUME TypeOK, job.index \in Slots, modules' = Recorded(job.index)
  PROVE  SlotsKept
<1> DEFINE i == job.index
           old == modules[i]
           seen == IF job.op = "changed" THEN file[old.path].mark ELSE old.mark
           new == [old EXCEPT !.mark = seen, !.raced = FALSE]
<1>1. old \in Loaded
  BY SlotType
<1>2. seen \in Marks \cup {NoMark}
  BY <1>1 DEF TypeOK, Loaded, File
<1>3. new \in Loaded /\ new.copy = old.copy /\ new.path = old.path /\ new.kind = old.kind
      /\ new.gen = old.gen
  BY <1>1, <1>2 DEF Loaded
<1>4. modules' = [modules EXCEPT ![i] = new]
  BY DEF Recorded, TypeOK, Slots
<1> QED BY <1>3, <1>4, SlotReplaced

\* An entry point keeps the images, and sees what the host lends.
LEMMA EnterType ==
  ASSUME TypeOK, NEW i \in Slots, NEW e \in {"onLoad", "onUpdate", "onUnload"}, Enter(e, i)
  PROVE  /\ SlotsKept /\ call' \in Call
         /\ call'.entry = e /\ call'.index = i
         /\ call'.copy = modules[i].copy /\ call'.lent = services
<1> DEFINE old == modules[i]
           new == [old EXCEPT !.lent = services]
<1>1. old \in Loaded /\ i \in Nat
  BY SlotType
<1>2. new \in Loaded /\ new.copy = old.copy /\ new.path = old.path /\ new.kind = old.kind
      /\ new.gen = old.gen /\ new.lent = services
  BY <1>1 DEF Loaded, TypeOK
<1>3. modules' = [modules EXCEPT ![i] = new]
  BY DEF Enter, Lent, TypeOK, Slots
<1>4. SlotsKept
  BY <1>2, <1>3, SlotReplaced
<1>5. Lent(i)[i].lent = services
  BY <1>2, <1>3 DEF Enter, TypeOK, Slots
<1> QED BY <1>1, <1>4, <1>5 DEF Enter, Call, Loaded, TypeOK

-----------------------------------------------------------------------------
(* Removals. *)

\* What a removal of "set" leaves behind is part of it and counted as stuck.
LEMMA RefusedType ==
  ASSUME TypeOK, NEW set, NEW still,
         NEW left \in LeftBehind(set, still), Refused(set, left, still)
  PROVE  /\ refusals' \in 0..MaxRefusals
         /\ left \subseteq set /\ stuck' = (stuck \ set) \cup left
BY HostAssumption DEF TypeOK, LeftBehind, Refused

\* Removing a working copy leaves the others alone, and the copy itself only
\* when that was refused.
LEMMA RemoveType ==
  ASSUME TypeOK, NEW c, NEW still, Remove(c, still)
  PROVE  /\ refusals' \in 0..MaxRefusals
         /\ copies' \subseteq copies /\ stuck' \subseteq copies'
         /\ \A d \in copies' : d \notin stuck' => d # c /\ d \notin stuck
<1> DEFINE own == copies \cap {c}
<1>1. PICK left \in LeftBehind(own, still) :
         /\ copies' = (copies \ own) \cup left
         /\ Refused(own, left, still)
  BY DEF Remove
<1>2. /\ refusals' \in 0..MaxRefusals
      /\ left \subseteq own /\ stuck' = (stuck \ own) \cup left
  BY <1>1, RefusedType
<1>3. stuck \subseteq copies
  BY DEF TypeOK
<1> QED BY <1>1, <1>2, <1>3

\* The sweep and the copy that follows it.
LEMMA SweepType ==
  ASSUME TypeOK, job.path \in Paths, NEW left \in LeftBySweep,
         NEW part \in SUBSET {NextCopy},
         copies' = Swept(job.path, left) \cup part,
         Refused(CopiesOf(job.path), left, mapped)
  PROVE  /\ refusals' \in 0..MaxRefusals
         /\ copies' \subseteq Copies /\ stuck' \subseteq copies'
         /\ \A d \in copies' : d \notin stuck' =>
               d = NextCopy \/ (d \in copies \ stuck /\ d[1] # job.path)
<1>1. left \in LeftBehind(CopiesOf(job.path), mapped)
  BY DEF LeftBySweep
<1>2. /\ refusals' \in 0..MaxRefusals
      /\ left \subseteq CopiesOf(job.path) /\ stuck' = (stuck \ CopiesOf(job.path)) \cup left
  BY <1>1, RefusedType
<1>3. NextCopy \in Copies /\ stuck \subseteq copies /\ copies \subseteq Copies
  BY DEF NextCopy, Copies, TypeOK
<1> QED BY <1>2, <1>3 DEF Swept, CopiesOf

-----------------------------------------------------------------------------
(* Every step keeps the invariant. *)

LEMMA LiveSlots ==
  ASSUME IInv
  PROVE  Live \subseteq Slots /\ (job.op # "unload" => Live = Slots)
BY SlotType DEF IInv, CallInProgress, Live

\* A step that keeps every slot's image keeps what is said of the images.
LEMMA KeepImages ==
  ASSUME IInv, SlotsKept, Live' = Live, mapped' = mapped, leaked' = leaked,
         Swapping' <=> Swapping, Swapping => staged'.copy = staged.copy
  PROVE  ImagesAccounted' /\ LiveCopies' = LiveCopies
<1>1. LiveCopies' = LiveCopies
  BY LiveSlots DEF SlotsKept, LiveCopies
<1> QED BY <1>1 DEF IInv, ImagesAccounted, SlotsKept

\* ... and of the active ones, if it enters none of them.
LEMMA KeepActive ==
  ASSUME IInv, SlotsKept, Live' = Live, active' = active, Inactive' = Inactive
  PROVE  ActiveAccounted'
BY LiveSlots DEF IInv, ActiveAccounted, SlotsKept

\* Between calls, in a loop's head and in open() every live image is active.
Calm == {"idle", "scan", "stage", "check", "adopt", "close", "update"}
LEMMA CalmActive ==
  ASSUME pc \in Calm, pc' \in Calm
  PROVE  Inactive = {} /\ Inactive' = {}
BY DEF Inactive, Calm

LEMMA ReturnType ==
  ASSUME job \in Job, Return
  PROVE  job' \in Job /\ pc' \in {"idle", "scan"} /\ job'.op # "unload" 
         /\ (pc' = "scan" => job'.op \in {"changed", "all"})
         /\ (Reloading => pc' = "scan" /\ job'.op = job.op)
         /\ (~Reloading => pc' = "idle")
BY NoJobType DEF Return, Finish, Goto, Job, Reloading

\* A call that is over, or back at the head of its loop.
LEMMA ReturnCall ==
  ASSUME job \in Job, Return
  PROVE  CallInProgress' /\ ~Swapping' /\ pc' \in Calm /\ job' \in Job
         /\ pc' \in {"idle", "scan"} /\ Live' = Slots'
BY ReturnType DEF CallInProgress, Opening, Swapping, Reloading, Calm, Live

LEMMA BuildInv ==
  ASSUME IInv, NEW p \in Paths, Build(p) \/ Vanish(p)
  PROVE  IInv'
<1>0. writes + 1 \in Marks
  BY HostAssumption DEF Build, Vanish, BuildWrites, IInv, TypeOK, Marks
<1>1. PICK f \in File : BuildWrites(p, f)
  BY <1>0 DEF Build, Vanish, File, Kinds
<1>2. TypeOK'
  <2>1. file' \in [Paths -> File] /\ writes' \in Marks
    BY <1>0, <1>1 DEF BuildWrites, IInv, TypeOK
  <2>2. staged' \in Staged /\ call' \in Call
    BY <1>1, NoStagedType DEF BuildWrites, IInv, TypeOK, Staged
  <2> QED BY <1>1, <2>1, <2>2 DEF IInv, BuildWrites, hostVars, diskVars, TypeOK
<1>3. UNCHANGED <<hostVars, Slots, Live, Swapping, Inactive, Reloading>>
  BY <1>1 DEF BuildWrites, hostVars, Slots, Live, Swapping, Inactive, Reloading
<1>4. SlotsKept /\ staged'.copy = staged.copy /\ staged'.kind = staged.kind
  BY <1>1 DEF IInv, BuildWrites, hostVars, TypeOK, Staged, SlotsKept, Slots
<1>5. CallInProgress' /\ CopiesNumbered'
  BY <1>3, <1>4 DEF IInv, hostVars, CallInProgress, CopiesNumbered, Opening
<1>6. ImagesAccounted' /\ ActiveAccounted'
  BY <1>3, <1>4, KeepImages, KeepActive DEF hostVars
<1> QED BY <1>2, <1>5, <1>6 DEF IInv

\* Steps that only start, continue or end a call change nothing else.
Control ==
    \/ \E p \in Paths : Load(p)
    \/ ReloadChanged \/ ReloadAll \/ Update \/ UnloadAll \/ ScanDone \/ StageMissing

LEMMA BeginCall ==
  ASSUME IInv, NEW first \in Slots \cup {1}, NEW op, NEW label, Begin(op, first, label),
         \/ op \in {"changed", "all"} /\ label = "scan"
         \/ op = "update" /\ label = "update" /\ first \in Slots
         \/ op = "unload" /\ label = "close" /\ first = Len(modules) /\ first \in Slots
  PROVE  /\ job' \in Job /\ Live' = Slots /\ pc' \in Calm /\ pc \in Calm /\ ~Swapping
         /\ ~Swapping' /\ CallInProgress' /\ pc' # "check" /\ pc' # "idle"
<1>1. job \in Job /\ first \in Nat
  BY SlotType DEF IInv, TypeOK
<1>2. pc = "idle" /\ pc' = label /\ job' = [job EXCEPT !.op = op, !.index = first]
      /\ modules' = modules
  BY DEF Begin, Idle, Goto
<1>3. job' \in Job /\ job'.op = op /\ job'.index = first
  BY <1>1, <1>2 DEF Job
<1> QED BY <1>2, <1>3, SlotType
        DEF IInv, CallInProgress, Opening, Swapping, Reloading, Live, Slots, Calm

LEMMA ControlJob ==
  ASSUME IInv, Control
  PROVE  /\ job' \in Job /\ Live' = Slots /\ Live = Slots /\ pc' \in Calm /\ pc \in Calm
         /\ ~Swapping /\ ~Swapping' /\ CallInProgress' /\ pc' # "check"
<1>0. pc \in {"idle", "scan", "stage"} => Live = Slots /\ ~Swapping /\ pc \in Calm
  BY LiveSlots DEF IInv, CallInProgress, Swapping, Calm
<1>1. CASE \E p \in Paths : Load(p)
  <2>1. PICK p \in Paths : Load(p)
    BY <1>1
  <2>2. pc = "idle" /\ pc' = "stage" /\ modules' = modules
        /\ job' = [op |-> "load", path |-> p, index |-> Len(modules) + 1]
    BY <2>1 DEF Load, Idle, Goto
  <2>3. job' \in Job
    BY <2>2, SlotType DEF Job, IInv
  <2> QED BY <1>0, <2>2, <2>3 DEF CallInProgress, Opening, Swapping, Reloading, Live, Slots, Calm
<1>2. CASE ReloadChanged \/ ReloadAll
  <2>1. PICK op \in {"changed", "all"} : Begin(op, 1, "scan")
    BY <1>2 DEF ReloadChanged, ReloadAll
  <2> QED BY <1>0, <2>1, BeginCall DEF Begin, Idle, Calm
<1>3. CASE Update \/ UnloadAll
  <2>1. 1 \in Slots /\ Len(modules) \in Slots
    BY <1>3, SlotType DEF Update, UnloadAll, IInv, TypeOK
  <2>2. CASE Update
    BY <1>0, <2>1, <2>2, BeginCall DEF Update, Begin, Idle, Calm
  <2>3. CASE UnloadAll
    BY <1>0, <2>1, <2>3, BeginCall DEF UnloadAll, CloseStart, Begin, Idle, Calm
  <2> QED BY <1>3, <2>2, <2>3
<1>4. CASE ScanDone
  <2>1. pc = "scan" /\ pc' = "idle" /\ job' = NoJob /\ modules' = modules
    BY <1>4 DEF ScanDone, Finish, Goto
  <2> QED BY <1>0, <2>1, NoJobType
          DEF CallInProgress, Opening, Swapping, Reloading, Live, Slots, Calm
<1>5. CASE StageMissing
  <2>1. pc = "stage" /\ Return /\ modules' = modules /\ job \in Job
    BY <1>5 DEF StageMissing, IInv, TypeOK
  <2> QED BY <1>0, <2>1, ReturnCall DEF Slots
<1> QED BY <1>1, <1>2, <1>3, <1>4, <1>5 DEF Control

LEMMA ControlKeeps ==
  ASSUME IInv, Control
  PROVE  OnlyControl /\ UNCHANGED modules /\ forced' \in 0..MaxForced
BY HostAssumption
DEF Control, Load, ReloadChanged, ReloadAll, Update, UnloadAll, Begin, ScanDone,
    StageMissing, IInv, TypeOK

LEMMA ControlInv == IInv /\ Control => IInv'
<1> SUFFICES ASSUME IInv, Control PROVE IInv'
  OBVIOUS
<1>1. TypeOK'
  BY ControlJob, ControlKeeps, NoStagedType
  DEF IInv, TypeOK, OnlyControl, buildVars, diskVars, Calm
<1>2. CallInProgress' /\ CopiesNumbered'
  BY ControlJob, ControlKeeps DEF IInv, CopiesNumbered, OnlyControl
<1>3. SlotsKept
  BY ControlKeeps DEF SlotsKept, Slots, IInv, TypeOK
<1>4. ImagesAccounted' /\ ActiveAccounted'
  BY <1>3, ControlJob, ControlKeeps, KeepImages, KeepActive, CalmActive DEF OnlyControl
<1> QED BY <1>1, <1>2, <1>4 DEF IInv

LEMMA ScanInv == IInv /\ Scan => IInv'
<1> SUFFICES ASSUME IInv, Scan PROVE IInv'
  OBVIOUS
<1> DEFINE i == job.index
<1>0. i \in Slots /\ pc = "scan" /\ Reloading /\ Live = Slots /\ ~Swapping /\ job \in Job
  BY LiveSlots DEF Scan, IInv, TypeOK, CallInProgress, Swapping, Reloading
<1>k. OnlyControl /\ UNCHANGED forced
  BY DEF Scan
<1>1. SlotsKept /\ CallInProgress' /\ job' \in Job /\ Live' = Slots /\ pc' \in Calm
      /\ ~Swapping' /\ pc' # "check"
  <2>1. CASE job.op = "all" \/ Changed(i)
    <3>1. modules' = Recorded(i) /\ pc' = "stage"
          /\ job' = [job EXCEPT !.path = modules[i].path]
      BY <2>1 DEF Scan, Goto
    <3>2. job' \in Job /\ job'.index = i /\ job'.op = job.op /\ job'.path = modules[i].path
      BY <1>0, <3>1, SlotType DEF Job, Loaded, IInv
    <3>3. SlotsKept
      BY <1>0, <3>1, RecordedType DEF IInv
    <3> QED BY <1>0, <3>1, <3>2, <3>3
            DEF CallInProgress, Opening, Swapping, Reloading, SlotsKept, Live, Calm
  <2>2. CASE ~(job.op = "all" \/ Changed(i))
    <3>1. UNCHANGED modules /\ Return
      BY <2>2 DEF Scan
    <3>2. SlotsKept
      BY <3>1 DEF SlotsKept, Slots, IInv, TypeOK
    <3> QED BY <1>0, <3>1, <3>2, ReturnCall DEF Slots
  <2> QED BY <2>1, <2>2
<1>2. TypeOK'
  BY <1>k, <1>1, NoStagedType DEF IInv, TypeOK, OnlyControl, buildVars, diskVars, SlotsKept, Calm
<1>3. CopiesNumbered'
  BY <1>k, <1>1 DEF IInv, CopiesNumbered, OnlyControl
<1>4. ImagesAccounted' /\ ActiveAccounted'
  BY <1>0, <1>k, <1>1, KeepImages, KeepActive, CalmActive DEF OnlyControl, Calm
<1> QED BY <1>1, <1>2, <1>3, <1>4 DEF IInv

\* What is staged is a copy with a number of its own.
LEMMA NextCopyFresh ==
  ASSUME IInv
  PROVE  /\ job.path \in Paths /\ copyCounter \in Nat
         /\ NextCopy \in Copies /\ NextCopy \notin mapped
         /\ NextCopy[1] = job.path /\ NextCopy[2] = copyCounter + 1
         /\ \A c \in mapped : c[2] \in Nat /\ c[2] <= copyCounter
<1>1. job.path \in Paths /\ copyCounter \in Nat
  BY DEF IInv, TypeOK, Job
<1>2. NextCopy \in Copies /\ NextCopy[2] = copyCounter + 1 /\ NextCopy[1] = job.path
  BY <1>1 DEF NextCopy, Copies
<1>3. \A c \in mapped : c[2] \in Nat /\ c[2] <= copyCounter
  BY DEF IInv, TypeOK, Copies, CopiesNumbered
<1> QED BY <1>1, <1>2, <1>3

LEMMA StageInv == IInv /\ Stage => IInv'
<1> SUFFICES ASSUME IInv, Stage PROVE IInv'
  OBVIOUS
<1>0. Live = Slots /\ ~Swapping /\ pc \in Calm
  BY LiveSlots DEF Stage, IInv, CallInProgress, Swapping, Calm
<1>1. pc = "stage" /\ pc' = "check" /\ job' = job /\ modules' = modules /\ pc' \in Calm
      /\ mapped' = mapped /\ leaked' = leaked /\ active' = active /\ ~Swapping'
  BY DEF Stage, Goto, Swapping, Calm
<1>2. staged' \in Staged /\ staged'.copy = NextCopy
  BY NextCopyFresh DEF Stage, Staged, IInv, TypeOK, File, Exists, Kinds
<1>3. TypeOK'
  <2>1. refusals' \in 0..MaxRefusals /\ copies' \subseteq Copies /\ stuck' \subseteq copies'
    BY NextCopyFresh, SweepType DEF Stage, IInv
  <2> QED BY <1>1, <1>2, <2>1, NextCopyFresh, NoStagedType
          DEF Stage, IInv, TypeOK, buildVars
<1>4. CallInProgress'
  BY <1>1 DEF IInv, CallInProgress, Opening, Swapping, Reloading, Slots
<1>5. CopiesNumbered'
  BY <1>1, <1>2, NextCopyFresh DEF Stage, CopiesNumbered
<1>6. SlotsKept /\ Live' = Live
  BY <1>1 DEF SlotsKept, Slots, Live, IInv, TypeOK
<1>7. ImagesAccounted' /\ ActiveAccounted'
  BY <1>0, <1>1, <1>6, KeepImages, KeepActive, CalmActive
<1> QED BY <1>3, <1>4, <1>5, <1>7 DEF IInv

\* A refused attempt keeps every slot's image.
LEMMA TriedKeeps ==
  ASSUME IInv, Opening, NEW m \in Marks, modules' = Tried(m)
  PROVE  SlotsKept
BY TriedType DEF IInv, CallInProgress

LEMMA StageFailsInv == IInv /\ StageFails => IInv'
<1> SUFFICES ASSUME IInv, StageFails PROVE IInv'
  OBVIOUS
<1>0. Live = Slots /\ ~Swapping /\ pc \in Calm /\ Opening
  BY LiveSlots DEF StageFails, IInv, CallInProgress, Swapping, Calm, Opening
<1>1. job' \in Job /\ pc' \in Calm /\ ~Swapping' /\ Live' = Slots' /\ pc' # "check"
      /\ CallInProgress'
  BY ReturnCall DEF StageFails, IInv, TypeOK
<1>2. SlotsKept
  <2>1. file[job.path].mark \in Marks
    BY NextCopyFresh DEF IInv, TypeOK, File
  <2> QED BY <1>0, <2>1, TriedKeeps DEF StageFails
<1>3. copyCounter' \in Nat /\ copyCounter' >= copyCounter
  BY HostAssumption, NextCopyFresh DEF StageFails
<1>4. TypeOK'
  <2>1. refusals' \in 0..MaxRefusals /\ copies' \subseteq Copies /\ stuck' \subseteq copies'
    BY NextCopyFresh, SweepType DEF StageFails, IInv
  <2> QED BY <1>1, <1>2, <1>3, <2>1, NextCopyFresh, NoStagedType
          DEF StageFails, IInv, TypeOK, buildVars, SlotsKept, Calm
<1>5. CopiesNumbered'
  BY <1>1, <1>3, NextCopyFresh DEF StageFails, CopiesNumbered
<1>6. Live' = Live
  BY <1>0, <1>1, <1>2 DEF SlotsKept
<1>7. ImagesAccounted' /\ ActiveAccounted'
  BY <1>0, <1>1, <1>2, <1>6, KeepImages, KeepActive, CalmActive DEF StageFails
<1> QED BY <1>1, <1>4, <1>5, <1>7 DEF IInv

LEMMA RefuseInv == IInv /\ Refuse => IInv'
<1> SUFFICES ASSUME IInv, Refuse PROVE IInv'
  OBVIOUS
<1> DEFINE keep == IF staged.kind = "foreign" THEN {staged.copy} ELSE {}
<1>0. pc = "check" /\ Live = Slots /\ ~Swapping /\ pc \in Calm /\ Opening
  BY LiveSlots DEF Refuse, IInv, CallInProgress, Swapping, Calm, Opening
<1>1. job' \in Job /\ pc' \in Calm /\ ~Swapping' /\ Live' = Slots' /\ pc' # "check"
      /\ CallInProgress'
  BY ReturnCall DEF Refuse, IInv, TypeOK
<1>2. mapped' = mapped \cup keep /\ leaked' = leaked \cup keep
  BY DEF Refuse
<1>3. SlotsKept
  <2>1. staged.tried \in Marks
    BY DEF IInv, TypeOK, Staged
  <2> QED BY <1>0, <2>1, TriedKeeps DEF Refuse
<1>4. keep \subseteq Copies /\ keep \cap mapped = {} /\ \A c \in keep : c[2] <= copyCounter
  BY <1>0 DEF IInv, TypeOK, Staged, CopiesNumbered
<1>5. TypeOK'
  <2>1. refusals' \in 0..MaxRefusals /\ copies' \subseteq Copies /\ stuck' \subseteq copies'
    BY RemoveType DEF Refuse, IInv, TypeOK
  <2> QED BY <1>1, <1>2, <1>3, <1>4, <2>1, NoStagedType
          DEF Refuse, IInv, TypeOK, buildVars, SlotsKept, Calm
<1>6. CopiesNumbered'
  BY <1>1, <1>2, <1>4 DEF Refuse, IInv, CopiesNumbered
<1>7. Live' = Live
  BY <1>0, <1>1, <1>3 DEF SlotsKept
<1>8. ImagesAccounted'
  <2>1. LiveCopies' = LiveCopies
    BY <1>0, <1>3, <1>7 DEF SlotsKept, LiveCopies
  <2>2. LiveCopies \subseteq mapped
    BY DEF IInv, ImagesAccounted
  <2> QED BY <1>0, <1>1, <1>2, <1>3, <1>4, <2>1, <2>2 DEF IInv, ImagesAccounted, SlotsKept
<1>9. ActiveAccounted'
  BY <1>0, <1>1, <1>3, <1>7, KeepActive, CalmActive DEF Refuse
<1> QED BY <1>1, <1>5, <1>6, <1>8, <1>9 DEF IInv

LEMMA AcceptInv == IInv /\ Accept => IInv'
<1> SUFFICES ASSUME IInv, Accept PROVE IInv'
  OBVIOUS
<1>0. pc \in Calm /\ pc' \in Calm /\ ~Swapping /\ Swapping'
  BY DEF Accept, Goto, Swapping, Calm
<1>1. pc = "check" /\ pc' = "adopt" /\ staged.kind = "good" /\ job' = job
      /\ mapped' = mapped \cup {staged.copy} /\ staged.copy \in Copies
      /\ modules' = modules /\ leaked' = leaked /\ staged' = staged /\ active' = active
  BY DEF Accept, Goto, IInv, TypeOK, Staged
<1>2. TypeOK'
  BY <1>1, NoStagedType DEF Accept, IInv, TypeOK, buildVars, diskVars
<1>3. CallInProgress' /\ CopiesNumbered'
  BY <1>1 DEF Accept, IInv, CallInProgress, CopiesNumbered, Opening, Reloading, Slots, Swapping
<1>4. SlotsKept /\ Live' = Live
  BY <1>1 DEF SlotsKept, Slots, Live, IInv, TypeOK
<1>5. ImagesAccounted'
  <2>1. LiveCopies' = LiveCopies
    BY <1>1, <1>4 DEF LiveCopies
  <2> QED BY <1>0, <1>1, <1>4, <2>1 DEF IInv, CopiesNumbered, ImagesAccounted, SlotsKept
<1>6. ActiveAccounted'
  BY <1>0, <1>1, <1>4, KeepActive, CalmActive
<1> QED BY <1>2, <1>3, <1>5, <1>6 DEF IInv

LEMMA AdoptLoadedInv == IInv /\ AdoptLoaded => IInv'
<1> SUFFICES ASSUME IInv, AdoptLoaded PROVE IInv'
  OBVIOUS
<1> DEFINE new == Fresh(1, MarkOf(job.path))
           n == Len(modules) + 1
<1>1. pc = "adopt" /\ pc' = "activate" /\ job' = job /\ modules' = Append(modules, new)
      /\ job.op = "load" /\ Swapping /\ ~Swapping'
      /\ mapped' = mapped /\ leaked' = leaked /\ active' = active
  BY DEF AdoptLoaded, Goto, Swapping
<1>2. new \in Loaded /\ new.copy = staged.copy /\ new.kind = "good" /\ job.index = n
  BY <1>1, FreshType, MarkType DEF IInv, CallInProgress, Reloading
<1>3. modules \in Seq(Loaded) /\ modules' \in Seq(Loaded) /\ Slots = 1..Len(modules)
      /\ Slots' = 1..n /\ n \in Nat /\ modules'[n] = new /\ Len(modules') = n
      /\ \A i \in Slots : modules'[i] = modules[i]
  BY <1>1, <1>2 DEF IInv, TypeOK, Slots
<1>4. TypeOK'
  BY <1>1, <1>3, NoStagedType DEF AdoptLoaded, IInv, TypeOK, buildVars, diskVars
<1>5. CallInProgress' /\ CopiesNumbered'
  BY <1>1, <1>2, <1>3
  DEF AdoptLoaded, IInv, CallInProgress, CopiesNumbered, Opening, Reloading
<1>6. Live = Slots /\ Live' = Slots'
  BY <1>1, LiveSlots DEF Live
<1>7. staged.copy \notin LiveCopies /\ staged.copy \notin leaked
  BY <1>1 DEF IInv, ImagesAccounted
<1>8. ImagesAccounted'
  <2>1. LiveCopies' = LiveCopies \cup {staged.copy}
    BY <1>2, <1>3, <1>6 DEF LiveCopies
  <2>2. ASSUME NEW i \in Slots', NEW j \in Slots', i # j
        PROVE  modules'[i].copy # modules'[j].copy
    BY <1>2, <1>3, <1>6, <1>7, <2>2 DEF IInv, ImagesAccounted, LiveCopies
  <2>3. \A i \in Slots' : modules'[i].kind = "good"
    BY <1>2, <1>3 DEF IInv, ImagesAccounted
  <2> QED BY <1>1, <1>7, <2>1, <2>2, <2>3 DEF IInv, ImagesAccounted
<1>9. ActiveAccounted'
  <2>1. Inactive = {} /\ Inactive' = {n}
    BY <1>1, <1>2 DEF Inactive
  <2>2. Live' \ {n} = Live
    BY <1>3, <1>6
  <2> QED BY <1>1, <1>3, <1>6, <2>1, <2>2 DEF IInv, ActiveAccounted
<1> QED BY <1>4, <1>5, <1>8, <1>9 DEF IInv

LEMMA AdoptReloadedInv == IInv /\ AdoptReloaded => IInv'
<1> SUFFICES ASSUME IInv, AdoptReloaded PROVE IInv'
  OBVIOUS
<1>1. pc = "adopt" /\ pc' = "close" /\ Reloading /\ job' = job /\ modules' = modules
      /\ mapped' = mapped /\ leaked' = leaked /\ active' = active
      /\ pc \in Calm /\ pc' \in Calm /\ Swapping /\ Swapping'
  BY DEF AdoptReloaded, Goto, CloseStart, Swapping, Reloading, Calm
<1>2. staged' \in Staged /\ staged'.copy = staged.copy /\ staged'.kind = staged.kind
  BY MarkType DEF AdoptReloaded, IInv, TypeOK, Staged
<1>3. TypeOK'
  BY <1>1, <1>2, NoStagedType DEF AdoptReloaded, IInv, TypeOK, buildVars, diskVars
<1>4. CallInProgress' /\ CopiesNumbered'
  BY <1>1, <1>2
  DEF AdoptReloaded, IInv, CallInProgress, CopiesNumbered, Opening, Reloading, Slots, Swapping
<1>5. SlotsKept /\ Live' = Live
  BY <1>1 DEF SlotsKept, Slots, Live, IInv, TypeOK
<1>6. ImagesAccounted' /\ ActiveAccounted'
  BY <1>1, <1>2, <1>5, KeepImages, KeepActive, CalmActive
<1> QED BY <1>3, <1>4, <1>6 DEF IInv

\* The slot an entry point or close() works on.
LEMMA WorkingSlot ==
  ASSUME IInv, pc \in {"close", "unmap", "activate", "update"}
  PROVE  /\ job.index \in Live /\ job.index \in Slots /\ job.index \in Nat
         /\ modules[job.index] \in Loaded
         /\ \A j \in Slots : j # job.index => modules[j].copy # modules[job.index].copy
BY SlotType DEF IInv, CallInProgress, Live, ImagesAccounted

LEMMA CloseInv == IInv /\ Close => IInv'
<1> SUFFICES ASSUME IInv, Close PROVE IInv'
  OBVIOUS
<1> DEFINE i == job.index
<1>1. pc = "close" /\ pc' = "unmap" /\ job' = job /\ mapped' = mapped /\ leaked' = leaked
      /\ staged' = staged /\ active' = active \ {modules[i].copy} /\ (Swapping' <=> Swapping)
  BY DEF Close, Goto, Swapping, Reloading
<1>2. SlotsKept /\ call' \in Call
  BY <1>1, WorkingSlot, EnterType DEF Close, IInv
<1>3. TypeOK'
  BY <1>1, <1>2 DEF Close, IInv, TypeOK, buildVars, diskVars, SlotsKept
<1>4. CallInProgress' /\ CopiesNumbered'
  BY <1>1, <1>2, WorkingSlot DEF Close, IInv, CallInProgress, CopiesNumbered, Opening,
     Reloading, SlotsKept
<1>5. Live' = Live
  BY <1>1, <1>2 DEF Live, SlotsKept
<1>6. ImagesAccounted'
  BY <1>1, <1>2, <1>5, KeepImages
<1>7. ActiveAccounted'
  <2>1. Inactive = {} /\ Inactive' = {i}
    BY <1>1 DEF Inactive
  <2>2. active' = {modules[j].copy : j \in Live \ {i}}
    BY <1>1, <2>1, WorkingSlot, LiveSlots DEF IInv, ActiveAccounted
  <2> QED BY <1>2, <1>5, <2>1, <2>2, LiveSlots DEF ActiveAccounted, SlotsKept
<1> QED BY <1>3, <1>4, <1>6, <1>7 DEF IInv

LEMMA ActivateInv == IInv /\ Activate => IInv'
<1> SUFFICES ASSUME IInv, Activate PROVE IInv'
  OBVIOUS
<1> DEFINE i == job.index
<1>1. pc = "activate" /\ mapped' = mapped /\ leaked' = leaked /\ staged' = staged
      /\ active' = active \cup {modules[i].copy} /\ ~Swapping
      /\ job \in Job
  BY DEF Activate, Swapping, IInv, TypeOK
<1>2. SlotsKept /\ call' \in Call
  BY <1>1, WorkingSlot, EnterType DEF Activate, IInv
<1>3. CallInProgress' /\ ~Swapping' /\ pc' \in Calm /\ job' \in Job /\ Live' = Slots'
      /\ pc' # "check" /\ Inactive' = {}
  BY <1>1, ReturnCall DEF Activate, Inactive
<1>4. TypeOK'
  BY <1>1, <1>2, <1>3, WorkingSlot
  DEF Activate, IInv, TypeOK, buildVars, diskVars, SlotsKept, Calm, Loaded
<1>5. CopiesNumbered'
  BY <1>3 DEF Activate, IInv, CopiesNumbered
<1>6. Live = Slots /\ Live' = Live
  BY <1>1, <1>2, <1>3, LiveSlots DEF IInv, CallInProgress, SlotsKept
<1>7. ImagesAccounted'
  BY <1>1, <1>2, <1>3, <1>6, KeepImages
<1>8. ActiveAccounted'
  <2>1. Inactive = {i} /\ i \in Live
    BY <1>1, WorkingSlot DEF Inactive
  <2>2. active' = {modules[j].copy : j \in Live}
    BY <1>1, <2>1 DEF IInv, ActiveAccounted
  <2> QED BY <1>2, <1>3, <1>6, <2>2 DEF ActiveAccounted, SlotsKept
<1> QED BY <1>3, <1>4, <1>5, <1>7, <1>8 DEF IInv

\* The image close() unmaps is that of its slot, and no other is affected.
LEMMA ClosedType ==
  ASSUME IInv, pc = "unmap", Closed
  PROVE  /\ mapped' = mapped \ {modules[job.index].copy}
         /\ refusals' \in 0..MaxRefusals /\ copies' \subseteq Copies /\ stuck' \subseteq copies'
         /\ \A d \in copies' : d \notin stuck' =>
               d # modules[job.index].copy /\ d \in copies \ stuck
BY RemoveType DEF Closed, Unmap, IInv, TypeOK

LEMMA SwapInInv == IInv /\ SwapIn => IInv'
<1> SUFFICES ASSUME IInv, SwapIn PROVE IInv'
  OBVIOUS
<1> DEFINE i == job.index
           old == modules[i]
           new == Fresh(old.gen + 1, staged.mark)
<1>1. pc = "unmap" /\ pc' = "activate" /\ Reloading /\ job' = job
      /\ leaked' = leaked /\ active' = active /\ staged' = NoStaged
      /\ Swapping /\ ~Swapping' /\ job.op # "unload"
  BY DEF SwapIn, Goto, Swapping, Reloading
<1>2. i \in Slots /\ old \in Loaded /\ i \in Nat /\ modules' = [modules EXCEPT ![i] = new]
  BY <1>1, WorkingSlot DEF SwapIn, IInv, TypeOK, Slots
<1>3. new \in Loaded /\ new.copy = staged.copy /\ new.kind = "good"
  <2>1. old.gen + 1 \in Nat /\ staged.mark \in Marks \cup {NoMark}
    BY <1>2 DEF Loaded, IInv, TypeOK, Staged
  <2> QED BY <1>1, <2>1, FreshType DEF IInv, CallInProgress
<1>4. modules' \in Seq(Loaded) /\ Slots' = Slots /\ Len(modules') = Len(modules)
      /\ \A j \in Slots : modules'[j] = IF j = i THEN new ELSE modules[j]
  BY <1>2, <1>3, ReplaceType DEF IInv, TypeOK, Slots
<1>5. mapped' = mapped \ {old.copy} /\ refusals' \in 0..MaxRefusals
      /\ copies' \subseteq Copies /\ stuck' \subseteq copies'
  BY <1>1, ClosedType DEF SwapIn
<1>6. TypeOK'
  BY <1>1, <1>4, <1>5, NoStagedType DEF SwapIn, IInv, TypeOK, buildVars
<1>7. CallInProgress' /\ CopiesNumbered'
  BY <1>1, <1>2, <1>4, <1>5
  DEF SwapIn, IInv, CallInProgress, CopiesNumbered, Opening, Reloading
<1>8. Live = Slots /\ Live' = Slots
  BY <1>1, <1>4, LiveSlots DEF Live
<1>9. staged.copy \notin LiveCopies /\ old.copy \in LiveCopies /\ old.copy \notin leaked
      /\ (\A j \in Slots : j # i => modules[j].copy # old.copy)
      /\ staged.copy \notin leaked
  BY <1>1, <1>2, <1>8, WorkingSlot DEF IInv, ImagesAccounted, LiveCopies
<1>10. ImagesAccounted'
  <2>1. LiveCopies' = {modules'[j].copy : j \in Slots}
    BY <1>4, <1>8 DEF LiveCopies
  <2>2. LiveCopies' = (LiveCopies \ {old.copy}) \cup {staged.copy}
    BY <1>2, <1>3, <1>4, <1>8, <1>9, <2>1 DEF LiveCopies
  <2>3. mapped' = LiveCopies' \cup leaked' /\ LiveCopies' \cap leaked' = {}
    <3>1. mapped = LiveCopies \cup leaked \cup {staged.copy} /\ LiveCopies \cap leaked = {}
      BY <1>1 DEF IInv, ImagesAccounted
    <3> QED BY <1>1, <1>5, <1>9, <2>2, <3>1
  <2>4. \A j, k \in Slots : j # k => modules'[j].copy # modules'[k].copy
    BY <1>2, <1>3, <1>4, <1>8, <1>9 DEF IInv, ImagesAccounted, LiveCopies
  <2>5. \A j \in Slots : modules'[j].kind = "good"
    BY <1>3, <1>4 DEF IInv, ImagesAccounted
  <2> QED BY <1>1, <1>4, <2>3, <2>4, <2>5 DEF ImagesAccounted
<1>11. ActiveAccounted'
  <2>1. Inactive = {i} /\ Inactive' = {i}
    BY <1>1 DEF Inactive
  <2> QED BY <1>1, <1>4, <1>8, <2>1 DEF IInv, ActiveAccounted
<1> QED BY <1>6, <1>7, <1>10, <1>11 DEF IInv

LEMMA CloseNextInv == IInv /\ CloseNext => IInv'
<1> SUFFICES ASSUME IInv, CloseNext PROVE IInv'
  OBVIOUS
<1> DEFINE i == job.index
           old == modules[i]
<1>1. pc = "unmap" /\ job.op = "unload" /\ leaked' = leaked /\ active' = active
      /\ staged' = staged /\ ~Swapping /\ ~Reloading /\ job \in Job
  BY DEF CloseNext, Swapping, Reloading, IInv, TypeOK
<1>2. i \in Slots /\ old \in Loaded /\ Live = 1..i /\ Slots = 1..Len(modules)
      /\ Len(modules) \in Nat /\ i \in 1..Len(modules)
  BY <1>1, WorkingSlot, SlotType DEF Live, IInv
<1>3. mapped' = mapped \ {old.copy} /\ refusals' \in 0..MaxRefusals
      /\ copies' \subseteq Copies /\ stuck' \subseteq copies'
  BY <1>1, ClosedType DEF CloseNext
<1>4. /\ modules' \in Seq(Loaded) /\ pc' \in Calm \ {"check"} /\ job' \in Job
      /\ CallInProgress' /\ ~Swapping' /\ Live' = 1..(i - 1)
      /\ Slots' \subseteq Slots
      /\ \A j \in Slots' : modules'[j] = modules[j]
      /\ Live' \subseteq Slots'
  <2>1. CASE i > 1
    <3>1. pc' = "close" /\ job' = [job EXCEPT !.index = i - 1] /\ modules' = modules
      BY <2>1 DEF CloseNext, Goto, CloseStart
    <3>2. job' \in Job /\ job'.op = "unload" /\ job'.index = i - 1 /\ i - 1 \in Nat
      BY <1>1, <1>2, <2>1, <3>1 DEF Job
    <3> QED BY <1>2, <2>1, <3>1, <3>2
            DEF CallInProgress, Opening, Swapping, Reloading, Live, Slots, Calm, IInv, TypeOK
  <2>2. CASE ~(i > 1)
    <3>1. pc' = "idle" /\ job' = NoJob /\ modules' = <<>> /\ i = 1
      BY <1>2, <2>2 DEF CloseNext, Goto, Finish
    <3> QED BY <1>2, <3>1, NoJobType
            DEF CallInProgress, Opening, Swapping, Reloading, Live, Slots, Calm
  <2> QED BY <2>1, <2>2
<1>5. TypeOK'
  BY <1>1, <1>3, <1>4, NoStagedType DEF CloseNext, IInv, TypeOK, buildVars, Calm
<1>6. CopiesNumbered'
  BY <1>3, <1>4 DEF CloseNext, IInv, CopiesNumbered
<1>7. ImagesAccounted'
  <2>1. old.copy \in LiveCopies /\ old.copy \notin leaked
        /\ \A j \in Slots : j # i => modules[j].copy # old.copy
    BY <1>1, <1>2, WorkingSlot DEF IInv, ImagesAccounted, LiveCopies
  <2>2. LiveCopies' = {modules[j].copy : j \in Live'}
    BY <1>4 DEF LiveCopies
  <2>3. Live = Live' \cup {i} /\ i \notin Live' /\ Live' \subseteq Slots
    BY <1>2, <1>4
  <2>4. LiveCopies' = LiveCopies \ {old.copy}
    BY <2>1, <2>2, <2>3 DEF LiveCopies
  <2>5. mapped = LiveCopies \cup leaked /\ LiveCopies \cap leaked = {}
    BY <1>1 DEF IInv, ImagesAccounted
  <2>6. mapped' = LiveCopies' \cup leaked' /\ LiveCopies' \cap leaked' = {}
    BY <1>1, <1>3, <2>1, <2>4, <2>5
  <2>7. /\ \A j, k \in Slots' : j # k => modules'[j].copy # modules'[k].copy
        /\ \A j \in Slots' : modules'[j].kind = "good"
    BY <1>4 DEF IInv, ImagesAccounted
  <2> QED BY <1>4, <2>6, <2>7 DEF ImagesAccounted
<1>8. ActiveAccounted'
  <2>1. Inactive = {i} /\ Inactive' = {}
    BY <1>1, <1>4 DEF Inactive, Calm
  <2>2. Live \ {i} = Live'
    BY <1>2, <1>4
  <2> QED BY <1>1, <1>4, <2>1, <2>2 DEF IInv, ActiveAccounted
<1> QED BY <1>4, <1>5, <1>6, <1>7, <1>8 DEF IInv

LEMMA UpdateNextInv == IInv /\ UpdateNext => IInv'
<1> SUFFICES ASSUME IInv, UpdateNext PROVE IInv'
  OBVIOUS
<1> DEFINE i == job.index
<1>1. pc = "update" /\ pc \in Calm /\ mapped' = mapped /\ leaked' = leaked /\ staged' = staged
      /\ active' = active /\ ~Swapping /\ job \in Job /\ Live = Slots /\ i \in Slots
      /\ job.op # "unload"
  BY WorkingSlot, LiveSlots DEF UpdateNext, Swapping, IInv, TypeOK, CallInProgress, Calm
<1>2. SlotsKept /\ call' \in Call
  BY <1>1, EnterType DEF UpdateNext, IInv
<1>3. /\ pc' \in Calm \ {"check"} /\ job' \in Job /\ CallInProgress' /\ ~Swapping'
      /\ Live' = Slots
  <2>1. CASE i < Len(modules)
    <3>1. pc' = "update" /\ job' = [job EXCEPT !.index = i + 1]
      BY <1>1, <2>1 DEF UpdateNext
    <3>2. i + 1 \in Slots /\ i + 1 \in Nat
      BY <1>1, <2>1, SlotType DEF IInv
    <3>3. job' \in Job /\ job'.op = job.op /\ job'.index = i + 1
      BY <1>1, <3>1, <3>2 DEF Job
    <3> QED BY <1>1, <1>2, <3>1, <3>2, <3>3
            DEF CallInProgress, Opening, Swapping, Reloading, Live, SlotsKept, Calm
  <2>2. CASE ~(i < Len(modules))
    <3>1. pc' = "idle" /\ job' = NoJob
      BY <2>2 DEF UpdateNext, Finish, Goto
    <3> QED BY <1>1, <1>2, <3>1, NoJobType
            DEF CallInProgress, Opening, Swapping, Reloading, Live, SlotsKept, Calm
  <2> QED BY <2>1, <2>2
<1>4. TypeOK'
  BY <1>1, <1>2, <1>3 DEF UpdateNext, IInv, TypeOK, buildVars, diskVars, SlotsKept, Calm
<1>5. CopiesNumbered'
  BY <1>1, <1>3 DEF UpdateNext, IInv, CopiesNumbered
<1>6. ImagesAccounted' /\ ActiveAccounted'
  BY <1>1, <1>2, <1>3, KeepImages, KeepActive, CalmActive
<1> QED BY <1>3, <1>4, <1>5, <1>6 DEF IInv

\* lend() changes nothing but the borrowed pointers.
LEMMA LendType ==
  ASSUME TypeOK, NEW s \in Services,
         modules' = [i \in Slots |-> [modules[i] EXCEPT !.lent = s]]
  PROVE  SlotsKept
<1>1. Slots = 1..Len(modules) /\ Len(modules) \in Nat /\ \A i \in Slots : modules[i] \in Loaded
  BY SlotType
<1>2. \A i \in Slots : /\ [modules[i] EXCEPT !.lent = s] \in Loaded
                       /\ [modules[i] EXCEPT !.lent = s].copy = modules[i].copy
                       /\ [modules[i] EXCEPT !.lent = s].path = modules[i].path
                       /\ [modules[i] EXCEPT !.lent = s].kind = modules[i].kind
                       /\ [modules[i] EXCEPT !.lent = s].gen = modules[i].gen
  BY <1>1 DEF Loaded
<1>3. modules' \in [1..Len(modules) -> Loaded]
  BY <1>1, <1>2
<1>4. modules' \in Seq(Loaded) /\ Len(modules') = Len(modules)
  BY <1>1, <1>3
<1>5. \A i \in Slots : modules'[i] = [modules[i] EXCEPT !.lent = s]
  OBVIOUS
<1>6. Slots' = Slots
  BY <1>1, <1>4 DEF Slots
<1> QED BY <1>2, <1>4, <1>5, <1>6 DEF SlotsKept

LEMMA SetServicesInv ==
  ASSUME IInv, NEW s \in Services, SetServices(s)
  PROVE  IInv'
<1>1. SlotsKept
  BY LendType DEF SetServices, IInv, TypeOK
<1>2. pc = "idle" /\ pc' = pc /\ job' = job /\ mapped' = mapped /\ leaked' = leaked
      /\ staged' = staged /\ active' = active
  BY DEF SetServices, Idle
<1>3. TypeOK'
  BY <1>1, NoStagedType DEF SetServices, IInv, TypeOK, buildVars, diskVars, SlotsKept
<1>4. CallInProgress' /\ CopiesNumbered' /\ Live' = Live /\ Inactive' = Inactive
      /\ ~Swapping' /\ ~Swapping
  BY <1>1, <1>2 DEF SetServices, IInv, CallInProgress, CopiesNumbered, Opening, Live,
     Inactive, Swapping, SlotsKept, Reloading
<1>5. ImagesAccounted' /\ ActiveAccounted'
  BY <1>1, <1>2, <1>4, KeepImages, KeepActive
<1> QED BY <1>3, <1>4, <1>5 DEF IInv

LEMMA CrashInv == IInv /\ Crash => IInv'
<1> SUFFICES ASSUME IInv, Crash PROVE IInv'
  OBVIOUS
<1>1. TypeOK'
  <2>1. crashes' \in 0..MaxCrashes
    BY HostAssumption DEF Crash, IInv, TypeOK
  <2>2. modules' \in Seq(Loaded)
    BY DEF Crash
  <2> QED BY <2>1, <2>2, HostAssumption, NoJobType, NoStagedType
          DEF Crash, Finish, Goto, IInv, TypeOK, buildVars
<1>2. CallInProgress' /\ CopiesNumbered' /\ ImagesAccounted' /\ ActiveAccounted'
  BY NoJobType DEF Crash, Finish, Goto, CallInProgress, CopiesNumbered, ImagesAccounted,
         Opening, LiveCopies, Live, Slots, Swapping, Reloading, ActiveAccounted
<1> QED BY <1>1, <1>2 DEF IInv

LEMMA NextInv == IInv /\ [Next]_vars => IInv'
<1> SUFFICES ASSUME IInv, [Next]_vars PROVE IInv'
  OBVIOUS
<1>1. CASE \E p \in Paths : Build(p) \/ Vanish(p)
  BY <1>1, BuildInv
<1>2. CASE Control
  BY <1>2, ControlInv
<1>3. CASE Scan \/ Stage \/ StageFails \/ Refuse \/ Accept
  BY <1>3, ScanInv, StageInv, StageFailsInv, RefuseInv, AcceptInv
<1>4. CASE AdoptLoaded \/ AdoptReloaded \/ Close \/ SwapIn \/ CloseNext \/ Activate \/ UpdateNext
  BY <1>4, AdoptLoadedInv, AdoptReloadedInv, CloseInv, SwapInInv, CloseNextInv, ActivateInv,
     UpdateNextInv
<1>5. CASE (\E s \in Services : SetServices(s)) \/ Crash
  BY <1>5, SetServicesInv, CrashInv
<1>6. CASE UNCHANGED vars
  BY <1>6 DEF vars, IInv, TypeOK, CallInProgress, CopiesNumbered, ImagesAccounted,
              Opening, Reloading, Swapping, Live, LiveCopies, Slots, ActiveAccounted, Inactive
<1> QED BY <1>1, <1>2, <1>3, <1>4, <1>5, <1>6 DEF Next, HostStep, Control

-----------------------------------------------------------------------------
(* What earlier attempts leave on disk. *)

\* No two copies of an opened file are out of use at once, of those that went
\* when they were last removed.
Spare == copies \ (mapped \cup stuck)
SpareInv == \A p \in opened : \A c, d \in Spare : c[1] = p /\ d[1] = p => c = d

\* Steps after which no copy is spare that was not before.
LEMMA SpareKept ==
  ASSUME SpareInv, opened' \subseteq opened, Spare' \subseteq Spare
  PROVE  SpareInv'
BY DEF SpareInv

\* Whatever was there of the file staged, only the new copy may be spare.
LEMMA SpareSwept ==
  ASSUME IInv, SpareInv, NEW left \in LeftBySweep, NEW part \in SUBSET {NextCopy},
         copies' = Swept(job.path, left) \cup part,
         Refused(CopiesOf(job.path), left, mapped),
         mapped' = mapped, opened' = opened \cup {job.path}
  PROVE  SpareInv'
<1>1. \A d \in Spare' : d = NextCopy \/ (d \in Spare /\ d[1] # job.path)
  BY NextCopyFresh, SweepType DEF Spare, IInv
<1> QED BY <1>1, NextCopyFresh DEF SpareInv

LEMMA SpareNext == IInv /\ SpareInv /\ [Next]_vars => SpareInv'
<1> SUFFICES ASSUME IInv, SpareInv, [Next]_vars PROVE SpareInv'
  OBVIOUS
<1>1. CASE Stage
  BY <1>1, SpareSwept DEF Stage
<1>2. CASE StageFails
  <2>1. PICK part \in SUBSET {NextCopy}, left \in LeftBySweep :
           /\ copies' = Swept(job.path, left) \cup part
           /\ Refused(CopiesOf(job.path), left, mapped)
    BY <1>2 DEF StageFails
  <2> QED BY <1>2, <2>1, SpareSwept DEF StageFails
<1>3. CASE Refuse
  <2>1. opened' = opened /\ mapped \subseteq mapped' /\ Remove(staged.copy, mapped')
    BY <1>3 DEF Refuse
  <2>2. Spare' \subseteq Spare
    BY <2>1, RemoveType DEF Spare, IInv
  <2> QED BY <2>1, <2>2, SpareKept
<1>4. CASE SwapIn \/ CloseNext
  <2>1. opened' = opened /\ pc = "unmap" /\ Closed
    BY <1>4 DEF SwapIn, CloseNext
  <2>2. Spare' \subseteq Spare
    BY <2>1, ClosedType DEF Spare
  <2> QED BY <2>1, <2>2, SpareKept
<1>5. CASE Crash
  BY <1>5 DEF Crash, SpareInv
<1>6. CASE opened' = opened /\ copies' = copies /\ stuck' = stuck /\ mapped \subseteq mapped'
  BY <1>6, SpareKept DEF Spare
<1> QED
  BY <1>1, <1>2, <1>3, <1>4, <1>5, <1>6
  DEF Next, HostStep, Build, Vanish, BuildWrites, hostVars, diskVars, Load, ReloadChanged,
      ReloadAll, Begin, OnlyControl, Scan, ScanDone, StageMissing, Accept, AdoptLoaded,
      AdoptReloaded, Close, Activate, UpdateNext, SetServices, Update, UnloadAll, vars

-----------------------------------------------------------------------------
(* The theorems. *)

LEMMA SpecInv == Spec => []IInv
BY InitInv, NextInv, PTL DEF Spec

\* Every variable of the host keeps its type (struct Loaded and Impl).
THEOREM TypeCorrect == Spec => []TypeOK
<1>1. IInv => TypeOK
  BY DEF IInv
<1> QED BY <1>1, SpecInv, PTL

\* However the build's writes fall between the host's steps, the process has
\* exactly the images mapped that it must have: no running module is ever
\* unmapped, none shares a mapping, and nothing else is left behind.
THEOREM ImagesAlwaysAccounted == Spec => []ImagesAccounted
<1>1. IInv => ImagesAccounted
  BY DEF IInv
<1> QED BY <1>1, SpecInv, PTL

\* However often attempts fail, are killed or are refused, an opened file has
\* at most one working copy on disk that the process is not running from and
\* that was not kept when it was last removed: the sweep in open() takes the
\* rest.
THEOREM LeftoversAlwaysSwept == Spec => []LeftoversSwept
<1>1. Init => SpareInv
  BY DEF Init, SpareInv
<1>2. SpareInv => LeftoversSwept
  <2> SUFFICES ASSUME SpareInv, NEW p \in opened
               PROVE  Cardinality(CopiesOf(p) \ (mapped \cup stuck)) <= 1
    BY DEF LeftoversSwept
  <2> DEFINE S == CopiesOf(p) \ (mapped \cup stuck)
  <2>1. CASE S = {}
    BY <2>1, FS_EmptySet
  <2>2. CASE S # {}
    <3>1. PICK c : c \in S
      BY <2>2
    <3>2. S = {c}
      BY <3>1 DEF SpareInv, Spare, CopiesOf
    <3> QED BY <3>2, FS_Singleton
  <2> QED BY <2>1, <2>2
<1> QED BY <1>1, <1>2, SpecInv, SpareNext, PTL DEF Spec

\* Whatever entry point runs, it runs from a mapped image that passed every
\* check and sees the pointers the application last lent; an image's onLoad
\* comes after the onUnload of every other image of its slot, its other entry
\* points between its own two, unloading goes newest first, and no image is
\* unmapped before its onUnload.
THEOREM EntryPointsAlwaysSafe == Spec => EntryPointsAreSafe
<1> DEFINE Safe ==
       /\ call'.entry # "none" => /\ call'.copy \in mapped \ leaked
                                  /\ call'.lent = services'
       /\ call'.entry = "onLoad" =>
             active = {modules[j].copy : j \in Slots \ {call'.index}}
       /\ call'.entry \in {"onUpdate", "onUnload"} => call'.copy \in active
       /\ call'.entry = "onUnload" /\ job.op = "unload" =>
             active = {modules[j].copy : j \in 1..call'.index}
       /\ crashes' = crashes => (mapped \ mapped') \cap active = {}
<1>1. ASSUME IInv, [Next]_vars PROVE [Safe]_vars
  <2>0. \A i \in Live : modules[i].copy \in mapped \ leaked
    BY <1>1 DEF IInv, ImagesAccounted, LiveCopies
  <2>1. ASSUME NEW e \in {"onLoad", "onUpdate", "onUnload"}, Enter(e, job.index),
               pc \in {"close", "activate", "update"}
        PROVE  /\ call'.entry = e /\ call'.index = job.index
               /\ call'.copy \in mapped \ leaked /\ call'.lent = services
               /\ pc # "activate" => call'.copy \in active
    <3>1. job.index \in Slots /\ job.index \in Live
      BY <1>1, <2>1, WorkingSlot
    <3>2. call'.entry = e /\ call'.index = job.index
          /\ call'.copy = modules[job.index].copy /\ call'.lent = services
      BY <1>1, <2>1, <3>1, EnterType DEF IInv
    <3>3. pc # "activate" => modules[job.index].copy \in active
      BY <1>1, <2>1, <3>1 DEF IInv, ActiveAccounted, Inactive
    <3> QED BY <2>0, <3>1, <3>2, <3>3
  <2>2. CASE Close
    <3>1. pc = "close" /\ Enter("onUnload", job.index) /\ services' = services /\ mapped' = mapped
      BY <2>2 DEF Close
    <3>2. job.op = "unload" => active = {modules[j].copy : j \in 1..job.index}
      BY <1>1, <3>1 DEF IInv, ActiveAccounted, Inactive, Live
    <3> QED BY <2>1, <3>1, <3>2
  <2>3. CASE Activate
    <3>1. pc = "activate" /\ Enter("onLoad", job.index) /\ services' = services
          /\ mapped' = mapped
      BY <2>3 DEF Activate
    <3>2. active = {modules[j].copy : j \in Slots \ {job.index}}
      BY <1>1, <3>1, LiveSlots DEF IInv, ActiveAccounted, Inactive, CallInProgress
    <3> QED BY <2>1, <3>1, <3>2
  <2>4. CASE UpdateNext
    BY <2>1, <2>4 DEF UpdateNext
  <2>5. CASE SwapIn \/ CloseNext
    <3>1. pc = "unmap" /\ call' = NoCall /\ Closed
      BY <2>5 DEF SwapIn, CloseNext
    <3>2. mapped' = mapped \ {modules[job.index].copy}
      BY <1>1, <3>1, ClosedType
    <3>3. modules[job.index].copy \notin active
      BY <1>1, <3>1, WorkingSlot, LiveSlots DEF IInv, ActiveAccounted, Inactive
    <3> QED BY <3>1, <3>2, <3>3 DEF NoCall
  <2>6. CASE Crash
    BY <1>1, <2>6 DEF Crash, NoCall, IInv, TypeOK
  <2>7. CASE call' = NoCall /\ mapped \subseteq mapped'
    BY <2>7 DEF NoCall
  <2>8. CASE UNCHANGED vars
    BY <2>8 DEF vars
  <2> QED
    BY <1>1, <2>2, <2>3, <2>4, <2>5, <2>6, <2>7, <2>8
    DEF Next, HostStep, Build, Vanish, BuildWrites, hostVars, Load, ReloadChanged, ReloadAll,
        Begin, OnlyControl, Scan, ScanDone, StageMissing, Stage, StageFails, Refuse, Accept,
        AdoptLoaded, AdoptReloaded, SetServices, Update, UnloadAll
<1> QED BY <1>1, SpecInv, PTL DEF Spec, EntryPointsAreSafe

-----------------------------------------------------------------------------
(* The host implements HotSwap. *)

Running == [i \in Slots |-> [path |-> modules[i].path, gen |-> modules[i].gen]]

LEMMA SwapStep ==
  ASSUME IInv, [Next]_vars
  PROVE  [Slot!Next]_Running
<1> USE DEF IInv
<1>0. SlotsKept => Running' = Running
  BY DEF SlotsKept, Running
<1>1. CASE AdoptLoaded
  <2> DEFINE new == Fresh(1, MarkOf(job.path))
  <2>1. modules' = Append(modules, new) /\ job.path \in Paths /\ modules \in Seq(Loaded)
    BY <1>1 DEF AdoptLoaded, TypeOK, Job
  <2>2. new \in Loaded /\ new.path = job.path /\ new.gen = 1
    BY FreshType, MarkType
  <2>3. Running' = Append(Running, [path |-> job.path, gen |-> 1])
    <3>1. Slots = 1..Len(modules) /\ Slots' = 1..(Len(modules) + 1) /\ Len(modules) \in Nat
      BY <2>1, <2>2 DEF Slots
    <3>2. /\ \A i \in Slots : modules'[i] = modules[i]
          /\ modules'[Len(modules) + 1] = new
      BY <2>1, <2>2, <3>1
    <3>3. Running \in Seq([path : Paths, gen : Nat]) /\ Len(Running) = Len(modules)
      <4>1. \A i \in Slots : modules[i] \in Loaded
        BY <2>1, <3>1
      <4>2. Running \in [1..Len(modules) -> [path : Paths, gen : Nat]]
        BY <3>1, <4>1 DEF Running, Loaded
      <4>3. ASSUME NEW T, NEW n \in Nat, NEW f \in [1..n -> T]
            PROVE  f \in Seq(T) /\ Len(f) = n
        OBVIOUS
      <4> HIDE DEF Running
      <4> QED BY <3>1, <4>2, <4>3
    <3> QED BY <2>1, <2>2, <3>1, <3>2, <3>3 DEF Running
  <2> QED BY <2>1, <2>3 DEF Slot!Next, Slot!Start, Running
<1>2. CASE SwapIn
  <2> DEFINE i == job.index
             new == Fresh(modules[i].gen + 1, staged.mark)
  <2>1. modules' = [modules EXCEPT ![i] = new] /\ i \in Slots /\ job.path = modules[i].path
        /\ modules[i] \in Loaded
    BY <1>2, WorkingSlot DEF SwapIn, CallInProgress, Swapping, TypeOK, Slots
  <2>2. new.path = modules[i].path /\ new.gen = modules[i].gen + 1
    BY <2>1 DEF Fresh
  <2>3. Slots' = Slots /\ \A j \in Slots : modules'[j] = IF j = i THEN new ELSE modules[j]
    BY <2>1 DEF Slots, TypeOK
  <2>4. Running' = [Running EXCEPT ![i].gen = @ + 1]
    BY <2>1, <2>2, <2>3 DEF Running
  <2> QED BY <2>1, <2>4 DEF Slot!Next, Slot!Swap, Running
<1>3. CASE modules' = <<>>
  <2>1. Running' = <<>>
    BY <1>3 DEF Running, Slots
  <2>2. Running # <<>> \/ Running' = Running
    BY <2>1
  <2> QED BY <2>1, <2>2 DEF Slot!Next, Slot!Stop, Running
<1>4. CASE Scan /\ modules' # modules
  BY <1>0, <1>4, RecordedType DEF Scan, Running
<1>5. CASE StageFails \/ Refuse
  <2>1. PICK m \in Marks : modules' = Tried(m)
    BY <1>5, NextCopyFresh DEF StageFails, Refuse, TypeOK, Staged, File
  <2>2. Opening
    BY <1>5 DEF StageFails, Refuse, Opening
  <2> QED BY <1>0, <2>1, <2>2, TriedKeeps DEF Running
<1>6. CASE Close \/ Activate \/ UpdateNext
  <2>1. PICK e \in {"onLoad", "onUpdate", "onUnload"} : Enter(e, job.index)
    BY <1>6 DEF Close, Activate, UpdateNext
  <2>2. job.index \in Slots
    BY <1>6, WorkingSlot DEF Close, Activate, UpdateNext
  <2> QED BY <1>0, <2>1, <2>2, EnterType DEF Running
<1>7. CASE \E s \in Services : SetServices(s)
  BY <1>0, <1>7, LendType DEF SetServices, Running
<1>8. CASE UNCHANGED modules
  BY <1>8 DEF Running, Slots
<1> QED
  BY <1>1, <1>2, <1>3, <1>4, <1>5, <1>6, <1>7, <1>8
  DEF Next, HostStep, Build, Vanish, BuildWrites, hostVars, Load, ReloadChanged,
      ReloadAll, Begin, ScanDone, StageMissing, Stage, Accept, AdoptReloaded, CloseNext,
      Update, UnloadAll, Crash, vars

\* The host implements HotSwap: a reload that is refused changes no module, one
\* that succeeds moves a single module to its next generation, and a module
\* only leaves with all of them.
THEOREM ImplementsHotSwap == Spec => HotSwapSpec
<1>1. Init => Slot!Init
  BY DEF Init, Slot!Init, Slots
<1>2. IInv /\ [Next]_vars => [Slot!Next]_Running
  BY SwapStep
<1> QED BY <1>1, <1>2, SpecInv, PTL DEF Spec, HotSwapSpec, Slot!Spec, Running
=============================================================================
