------------------------ MODULE ShaderStore_proofs ------------------------
(***************************************************************************)
(* That a store serves what the compiler would give, and that cooked-only  *)
(* mode never misses what was promised, for any programs, builds, texts    *)
(* and archives.                                                           *)
(***************************************************************************)
EXTENDS ShaderStore, TLAPS, WellFoundedInduction

JobOf(j) == [at |-> j.at, program |-> j.program, only |-> j.only, keep |-> j.keep,
             codes |-> j.codes, made |-> j.made, texts |-> j.texts]

\* A compile in hand has a stage to go, and a process that does it.
Typed ==
    /\ process \in Processes \cup {NoFile}
    /\ DOMAIN devFile = {CompilerOf[b] : b \in Builds}
    /\ archive = [name \in Archives |-> archive[name]]
    /\ promised = [name \in Archives |-> promised[name]]
    /\ job = JobOf(job)
    /\ job.at \in {Idle, "lookup", "compile", "insert", "rename"}
    /\ job.at # Idle => process # NoFile
    /\ process = NoFile => cooked = {} /\ dev = {} /\ rendered = {} /\ owed = {}

\* What was rendered can be found again, what an archive promises is in it,
\* and what is owed is in the archives that were loaded.
PromisesHeld ==
    /\ \A key \in rendered : Holds((UNION cooked) \cup dev, key)
    /\ \A key \in owed : Holds(UNION cooked, key)
    /\ \A name \in Archives : archive[name] \notin {NoFile, Torn} =>
          \A key \in promised[name] : Holds(archive[name].entries, key)

PInv == Typed /\ PromisesHeld

-----------------------------------------------------------------------------
(* Stores.                                                                  *)

LEMMA Smallest ==
  ASSUME NEW S \in SUBSET Nat, S # {}
  PROVE  \E n \in S : \A m \in S : ~(m < n)
<1> DEFINE R == OpToRel(<, Nat)
<1>1. IsWellFoundedOn(R, Nat)
  BY NatLessThanWellFounded
<1> HIDE DEF R
<1>2. \E n \in S : \A m \in S : <<m, n>> \notin R
  BY <1>1, WFMin
<1> QED BY <1>2 DEF R, OpToRel

LEMMA MergeHolds ==
  ASSUME NEW store, NEW other, NEW key
  PROVE  Holds(Merge(store, other), key) <=> Holds(store \cup other, key)
BY DEF Holds, Merge

LEMMA PutHolds ==
  ASSUME NEW store, NEW key, NEW code
  PROVE  /\ Holds(Put(store, key, code), key)
         /\ \A k : Holds(store, k) => Holds(Put(store, key, code), k)
<1>1. Holds(Put(store, key, code), key)
  <2>1. [key |-> key, code |-> code] \in Put(store, key, code)
    BY DEF Put
  <2> QED BY <2>1 DEF Holds
<1>2. ASSUME NEW k, Holds(store, k) PROVE Holds(Put(store, key, code), k)
  BY <1>1, <1>2 DEF Holds, Put
<1> QED BY <1>1, <1>2

LEMMA MoreHolds ==
  ASSUME NEW store, NEW more, NEW key, Holds(store, key), store \subseteq more
  PROVE  Holds(more, key)
BY DEF Holds

\* What is merged of archives: a key one of them has is in the first that
\* has it.
First(name, usable) ==
    {entry \in archive[name].entries :
        ~\E other \in usable : other < name /\ Holds(archive[other].entries, entry.key)}

LEMMA FirstHolds ==
  ASSUME NEW usable \in SUBSET Archives, NEW key, NEW name \in usable,
         Holds(archive[name].entries, key)
  PROVE  Holds(UNION {First(n, usable) : n \in usable}, key)
<1> DEFINE S == {n \in usable : Holds(archive[n].entries, key)}
<1>1. S \in SUBSET Nat /\ S # {}
  BY ArchivesAssumption
<1>2. PICK n \in S : \A m \in S : ~(m < n)
  <2> HIDE DEF S
  <2> QED BY <1>1, Smallest
<1>3. PICK entry \in archive[n].entries : entry.key = key
  BY DEF Holds
<1>4. ~\E other \in usable : other < n /\ Holds(archive[other].entries, entry.key)
  BY <1>2, <1>3
<1> QED BY <1>3, <1>4 DEF Holds, First

-----------------------------------------------------------------------------
(* Jobs.                                                                    *)

LEMMA NoJobShape == NoJob = JobOf(NoJob) /\ NoJob.at = Idle /\ NoJob.codes = <<>>
BY DEF NoJob, Done, JobOf

LEMMA WithShape ==
  ASSUME Typed, NEW code
  PROVE  /\ With(code) = JobOf(With(code))
         /\ With(code).at \in {Idle, job.at}
BY DEF Typed, With, Done, JobOf

\* An edit adds to the texts of the job in hand, and to nothing else of it.
LEMMA EditJob ==
  ASSUME Typed, NEW t \in Texts, Edit(t)
  PROVE  /\ job' = JobOf(job') /\ job'.at = job.at
         /\ job.at = Idle => job' = job
         /\ job'.program = job.program /\ job'.codes = job.codes /\ job'.made = job.made
         /\ job.at # Idle => job'.texts = job.texts \cup {TextOf(job.program, t)}
<1> DEFINE more == job.texts \cup {TextOf(job.program, t)}
<1>1. job' = IF job.at = Idle THEN job ELSE [job EXCEPT !.texts = more]
  BY DEF Edit
<1> HIDE DEF more
<1>2. job = JobOf(job)
  BY DEF Typed
<1> QED BY <1>1, <1>2 DEF JobOf, more

-----------------------------------------------------------------------------
(* Promises.                                                                *)

LEMMA InitPInv == Init => PInv
<1> SUFFICES ASSUME Init PROVE PInv
  OBVIOUS
<1>1. /\ archive = [name \in Archives |-> NoFile]
      /\ promised = [name \in Archives |-> {}]
      /\ job = NoJob
      /\ DOMAIN devFile = {CompilerOf[b] : b \in Builds}
  BY DEF Init
<1>2. Typed
  BY <1>1, NoJobShape DEF Init, Typed
<1>3. PromisesHeld
  BY <1>1 DEF Init, PromisesHeld
<1> QED BY <1>2, <1>3 DEF PInv

LEMMA LoadPromises ==
  ASSUME PInv, LoadCookedShaders
  PROVE  PInv'
<1> DEFINE usable == {name \in Archives : Usable(name)}
<1>1. /\ process # NoFile
      /\ cooked' = IF usable = {} THEN {} ELSE {UNION {First(name, usable) : name \in usable}}
      /\ owed' = UNION {promised[name] : name \in usable}
      /\ rendered' = {key \in rendered : Holds((UNION cooked') \cup dev, key)}
      /\ UNCHANGED <<disk, launches, process, devFile, dev, inserted, policy, job>>
  BY DEF LoadCookedShaders, First
<1>2. Typed'
  BY <1>1 DEF PInv, Typed, JobOf, disk
<1>3. ASSUME NEW key \in owed' PROVE Holds(UNION cooked', key)
  <2>1. PICK name \in usable : key \in promised[name]
    BY <1>1
  <2>2. Holds(archive[name].entries, key)
    BY <2>1 DEF PInv, PromisesHeld, Usable
  <2>3. Holds(UNION {First(n, usable) : n \in usable}, key)
    BY <2>2, FirstHolds
  <2>4. cooked' = {UNION {First(n, usable) : n \in usable}}
    BY <1>1
  <2>5. UNION cooked' = UNION {First(n, usable) : n \in usable}
    <3> DEFINE store == UNION {First(n, usable) : n \in usable}
    <3>1. cooked' = {store}
      BY <2>4
    <3> HIDE DEF store
    <3>2. UNION cooked' = store
      BY <3>1
    <3> QED BY <3>2 DEF store
  <2> QED BY <2>3, <2>4, <2>5
<1>4. PromisesHeld'
  BY <1>1, <1>3 DEF PInv, PromisesHeld, Holds, disk
<1> QED BY <1>2, <1>4 DEF PInv

LEMMA CookPromises ==
  ASSUME PInv, NEW name \in Archives, CookShaders(name)
  PROVE  PInv'
<1>1. /\ archive' = [archive EXCEPT ![name] =
                        [compiler |-> CompilerOf[process.build], entries |-> Sealed]]
      /\ promised' = [promised EXCEPT ![name] = rendered]
      /\ UNCHANGED <<process, devFile, cooked, dev, job, rendered, owed>>
  BY DEF CookShaders, session
<1>2. /\ archive' = [n \in Archives |-> archive'[n]]
      /\ promised' = [n \in Archives |-> promised'[n]]
      /\ archive'[name].entries = Sealed /\ promised'[name] = rendered
      /\ \A n \in Archives \ {name} : archive'[n] = archive[n] /\ promised'[n] = promised[n]
  BY <1>1 DEF PInv, Typed
<1>3. Typed'
  BY <1>1, <1>2 DEF PInv, Typed, JobOf
<1>4. \A key \in rendered : Holds(Sealed, key)
  <2> DEFINE all == UNION cooked
  <2>1. \A key \in rendered : Holds(all \cup dev, key)
    BY DEF PInv, PromisesHeld
  <2>2. Sealed = Merge(all, dev)
    BY DEF Sealed
  <2> HIDE DEF all
  <2> QED BY <2>1, <2>2, MergeHolds
<1>5. PromisesHeld'
  BY <1>1, <1>2, <1>4 DEF PInv, PromisesHeld, Holds
<1> QED BY <1>3, <1>5 DEF PInv

LEMMA GoneTyped ==
  ASSUME Typed, Gone, UNCHANGED <<devFile>>,
         archive' = [n \in Archives |-> archive'[n]],
         promised' = [n \in Archives |-> promised'[n]]
  PROVE  Typed'
BY NoJobShape DEF Typed, Gone, JobOf

LEMMA TornPromises ==
  ASSUME PInv, NEW name \in Archives, CookIsTorn(name)
  PROVE  PInv'
<1>1. /\ archive' = [archive EXCEPT ![name] = Torn]
      /\ promised' = [promised EXCEPT ![name] = {}]
      /\ UNCHANGED devFile
      /\ Gone \/ UNCHANGED <<process, cooked, dev, job, rendered, owed>>
  BY DEF CookIsTorn
<1>2. /\ archive' = [n \in Archives |-> archive'[n]]
      /\ promised' = [n \in Archives |-> promised'[n]]
      /\ archive'[name] = Torn
      /\ \A n \in Archives \ {name} : archive'[n] = archive[n] /\ promised'[n] = promised[n]
  BY <1>1 DEF PInv, Typed
<1>3. CASE Gone
  <2>1. Typed'
    BY <1>1, <1>2, <1>3, GoneTyped DEF PInv
  <2>2. PromisesHeld'
    BY <1>2, <1>3 DEF PInv, PromisesHeld, Holds, Gone
  <2> QED BY <2>1, <2>2 DEF PInv
<1>4. CASE UNCHANGED <<process, cooked, dev, job, rendered, owed>>
  BY <1>1, <1>2, <1>4 DEF PInv, Typed, PromisesHeld, Holds, JobOf
<1> QED BY <1>1, <1>3, <1>4

\* Steps that leave the archives and the stores, and what is said of them.
LEMMA SamePromises ==
  ASSUME PInv, UNCHANGED <<process, devFile, archive, promised, cooked, dev, rendered, owed>>,
         job' = JobOf(job'), job'.at \in {Idle, "lookup", "compile", "insert", "rename"},
         job'.at # Idle => process # NoFile
  PROVE  PInv'
<1>1. Typed'
  BY DEF PInv, Typed, JobOf
<1>2. PromisesHeld'
  BY DEF PInv, PromisesHeld, Holds
<1> QED BY <1>1, <1>2 DEF PInv

LEMMA PolicyPromises ==
  ASSUME PInv, NEW only \in BOOLEAN, SetCookedShadersOnly(only)
  PROVE  PInv'
<1>1. UNCHANGED <<process, devFile, archive, promised, cooked, dev, rendered, owed, job>>
  BY DEF SetCookedShadersOnly, disk, session
<1> QED BY <1>1, SamePromises DEF PInv, Typed, JobOf

LEMMA BeginPromises ==
  ASSUME PInv, NEW program \in Programs, Begin(program)
  PROVE  PInv'
<1>1. /\ UNCHANGED <<process, devFile, archive, promised, cooked, dev, rendered, owed>>
      /\ process # NoFile
  BY DEF Begin, disk, session
<1>2. job' = JobOf(job') /\ job'.at \in {"lookup", "compile"}
  BY DEF Begin, JobOf
<1> QED BY <1>1, <1>2, SamePromises

LEMMA NotFoundPromises ==
  ASSUME PInv, NEW program \in Programs, NotFound(program)
  PROVE  PInv'
<1>1. /\ UNCHANGED <<process, devFile, archive, promised, cooked, dev, rendered, owed>>
      /\ job' = NoJob
  BY DEF NotFound, disk, session
<1> QED BY <1>1, NoJobShape, SamePromises

LEMMA Busy ==
  ASSUME PInv, job.at \in {"lookup", "compile", "insert", "rename"}
  PROVE  job.at # Idle /\ process # NoFile /\ process \in Processes /\ Typed
BY MarksAssumption DEF PInv, Typed

LEMMA HitPromises ==
  ASSUME PInv, Hit
  PROVE  PInv'
<1>1. /\ job.at = "lookup" /\ Holds(Within, Key)
      /\ job' = With(Found(Within, Key).code)
      /\ rendered' = rendered \cup {Key}
      /\ UNCHANGED <<process, devFile, archive, promised, cooked, dev, owed>>
  BY DEF Hit, disk, session
<1>2. process # NoFile /\ Typed
  BY <1>1, Busy
<1>3. Holds((UNION cooked) \cup dev, Key)
  <2> DEFINE all == UNION cooked
             more == IF job.only THEN {} ELSE dev
             k == Key
  <2>1. Holds(Merge(all, more), k)
    BY <1>1 DEF Within
  <2>2. more \subseteq dev
    OBVIOUS
  <2> HIDE DEF all, more, k
  <2>3. Holds(all \cup more, k)
    BY <2>1, MergeHolds
  <2>4. Holds(all \cup dev, k)
    BY <2>2, <2>3 DEF Holds
  <2> QED BY <2>4 DEF all, k
<1>4. Typed'
  <2>1. job' = JobOf(job') /\ job'.at \in {Idle, "lookup"}
    BY <1>1, <1>2, WithShape
  <2> QED BY <1>1, <1>2, <2>1 DEF Typed, JobOf
<1>5. PromisesHeld'
  <2>1. \A key \in rendered' : Holds((UNION cooked) \cup dev, key)
    <3> HIDE DEF Key
    <3> QED BY <1>1, <1>3 DEF PInv, PromisesHeld
  <2> QED BY <1>1, <2>1 DEF PInv, PromisesHeld, Holds
<1> QED BY <1>4, <1>5 DEF PInv

LEMMA CompilePromises ==
  ASSUME PInv, Miss \/ CompileFails \/ Compile
  PROVE  PInv'
<1>1. /\ UNCHANGED <<process, devFile, archive, promised, cooked, dev, rendered, owed>>
      /\ job.at \in {"lookup", "compile"}
  BY DEF Miss, CompileFails, Compile, disk, session
<1>2. process # NoFile /\ Typed
  BY <1>1, Busy
<1>3. job' = JobOf(job') /\ job'.at \in {Idle, "compile", "insert"}
  <2>1. CASE Miss
    BY <1>2, <2>1 DEF Miss, Typed, JobOf
  <2>2. CASE CompileFails
    BY <2>2, NoJobShape DEF CompileFails
  <2>3. CASE Compile
    <3> DEFINE made == [i \in 1..Len(Stages) |->
                           CodeOf(job.program, Stages[i], process.build, text)]
               texts == {TextOf(job.program, text)}
    <3>1. \/ job' = [job EXCEPT !.at = "insert", !.made = made, !.texts = texts]
          \/ job' = Done(made)
      BY <2>3 DEF Compile
    <3> HIDE DEF made, texts
    <3>2. CASE job' = Done(made)
      BY <3>2 DEF Done, JobOf
    <3>3. CASE job' = [job EXCEPT !.at = "insert", !.made = made, !.texts = texts]
      <4>1. job = [at |-> job.at, program |-> job.program, only |-> job.only, keep |-> job.keep,
                   codes |-> job.codes, made |-> job.made, texts |-> job.texts]
        BY <1>2 DEF Typed, JobOf
      <4>2. job' = [at |-> "insert", program |-> job.program, only |-> job.only,
                    keep |-> job.keep, codes |-> job.codes, made |-> made, texts |-> texts]
        BY <3>3, <4>1
      <4> QED BY <4>2 DEF JobOf
    <3> QED BY <3>1, <3>2, <3>3
  <2> QED BY <2>1, <2>2, <2>3
<1> QED BY <1>1, <1>2, <1>3, SamePromises

LEMMA InsertPromises ==
  ASSUME PInv, Insert
  PROVE  PInv'
<1> DEFINE code == job.made[Len(job.codes) + 1]
<1>1. /\ job.at = "insert"
      /\ dev' = Put(dev, Key, code)
      /\ job' = [job EXCEPT !.at = "rename"] \/ job' = With(code)
      /\ DOMAIN devFile' = DOMAIN devFile
      /\ rendered' = rendered \cup {Key}
      /\ UNCHANGED <<process, archive, promised, cooked, owed>>
  BY DEF Insert, disk, session
<1>2. process # NoFile /\ Typed
  BY <1>1, Busy
<1>3. job' = JobOf(job') /\ job'.at \in {Idle, "insert", "rename"}
  <2> HIDE DEF code
  <2>1. CASE job' = With(code)
    BY <1>1, <1>2, <2>1, WithShape
  <2>2. CASE job' = [job EXCEPT !.at = "rename"]
    BY <1>2, <2>2 DEF Typed, JobOf
  <2> QED BY <1>1, <2>1, <2>2
<1>4. Typed'
  BY <1>1, <1>2, <1>3 DEF Typed, JobOf
<1> HIDE DEF code
<1>5. \A key \in rendered' : Holds((UNION cooked) \cup dev', key)
  <2> DEFINE k == Key
  <2>1. Holds(dev', k) /\ rendered' = rendered \cup {k}
    BY <1>1, PutHolds
  <2>2. \A key : Holds(dev, key) => Holds(dev', key)
    BY <1>1, PutHolds
  <2> HIDE DEF k
  <2>3. \A key \in rendered : Holds((UNION cooked) \cup dev, key)
    BY DEF PInv, PromisesHeld
  <2>4. ASSUME NEW key, Holds(dev', key) PROVE Holds((UNION cooked) \cup dev', key)
    BY <2>4 DEF Holds
  <2>5. ASSUME NEW key, Holds((UNION cooked) \cup dev, key)
        PROVE  Holds((UNION cooked) \cup dev', key)
    <3>1. CASE Holds(dev, key)
      BY <2>2, <2>4, <3>1
    <3>2. CASE ~Holds(dev, key)
      BY <2>5, <3>2 DEF Holds
    <3> QED BY <3>1, <3>2
  <2> QED BY <2>1, <2>3, <2>4, <2>5
<1>6. PromisesHeld'
  BY <1>1, <1>5 DEF PInv, PromisesHeld, Holds
<1> QED BY <1>4, <1>6 DEF PInv

LEMMA RenamePromises ==
  ASSUME PInv, Rename
  PROVE  PInv'
<1> DEFINE with == With(job.made[Len(job.codes) + 1])
<1>1. /\ job.at = "rename"
      /\ job' = [with EXCEPT !.at = IF with.at = Idle THEN Idle ELSE "insert"]
      /\ DOMAIN devFile' = DOMAIN devFile
      /\ UNCHANGED <<process, archive, promised, cooked, dev, rendered, owed>>
  BY DEF Rename, disk, session
<1>2. process # NoFile /\ Typed
  BY <1>1, Busy
<1>3. with = JobOf(with)
  BY <1>2, WithShape
<1> HIDE DEF with
<1>4. job' = JobOf(job') /\ job'.at \in {Idle, "insert"}
  BY <1>1, <1>3 DEF JobOf
<1>5. Typed'
  BY <1>1, <1>2, <1>4 DEF Typed, JobOf
<1>6. PromisesHeld'
  BY <1>1 DEF PInv, PromisesHeld, Holds
<1> QED BY <1>5, <1>6 DEF PInv

LEMMA LaunchPromises ==
  ASSUME PInv, NEW build \in Builds, NEW machine \in Machines, Launch(build, machine)
  PROVE  PInv'
<1>1. /\ process = NoFile
      /\ process' = [build |-> build, slang |-> machine.slang,
                     keeps |-> machine.keeps, env |-> machine.env]
      /\ UNCHANGED <<devFile, archive, promised, cooked, job, rendered, owed>>
  BY DEF Launch, disk
<1>2. process' \in Processes /\ process' # NoFile
  BY <1>1, MachinesAssumption, MarksAssumption DEF Processes
<1>3. rendered = {} /\ owed = {} /\ Typed
  BY <1>1 DEF PInv, Typed
<1>4. Typed'
  BY <1>1, <1>2, <1>3 DEF Typed, JobOf
<1>5. PromisesHeld'
  BY <1>1, <1>3 DEF PInv, PromisesHeld, Holds
<1> QED BY <1>4, <1>5 DEF PInv

LEMMA CrashPromises ==
  ASSUME PInv, Crash
  PROVE  PInv'
<1>1. Gone /\ UNCHANGED <<disk, devFile>>
  BY DEF Crash
<1>2. Typed'
  BY <1>1, GoneTyped DEF PInv, Typed, disk
<1>3. PromisesHeld'
  BY <1>1 DEF PInv, PromisesHeld, Holds, Gone, disk
<1> QED BY <1>2, <1>3 DEF PInv

LEMMA EditPromises ==
  ASSUME PInv, NEW t \in Texts, Edit(t)
  PROVE  PInv'
<1>1. UNCHANGED <<process, devFile, archive, promised, cooked, dev, rendered, owed>>
  BY DEF Edit, session
<1>2. job' = JobOf(job') /\ job'.at = job.at
  BY EditJob DEF PInv
<1> QED BY <1>1, <1>2, SamePromises DEF PInv, Typed

LEMMA NextPInv == PInv /\ [Next]_vars => PInv'
<1> SUFFICES ASSUME PInv, [Next]_vars PROVE PInv'
  OBVIOUS
<1>1. CASE UNCHANGED vars
  <2>1. UNCHANGED <<process, devFile, archive, promised, cooked, dev, rendered, owed, job>>
    BY <1>1 DEF vars
  <2> QED BY <2>1, SamePromises DEF PInv, Typed, JobOf
<1>2. CASE Next
  BY <1>2, LoadPromises, CookPromises, TornPromises, PolicyPromises, BeginPromises, NotFoundPromises,
     HitPromises, CompilePromises, InsertPromises, RenamePromises, LaunchPromises,
     CrashPromises, EditPromises
     DEF Next
<1> QED BY <1>1, <1>2

\* Content that was cooked renders where nothing compiles, for any programs,
\* archives and builds, whatever is edited or cooked over, and whoever ends
\* when: in cooked-only mode lookups go to the archives that were loaded, and
\* an archive holds all that its cook had rendered (ShaderStore, cookShaders).
THEOREM PromisesAlwaysKept == Spec => PromiseKept
<1> DEFINE Kept == job.at = "lookup" /\ job'.at = "compile" /\ job.only => Key \notin owed
<1>1. PInv /\ [Next]_vars => Kept
  <2> SUFFICES ASSUME PInv, [Next]_vars,
                      job.at = "lookup", job'.at = "compile", job.only
               PROVE  Key \notin owed
    OBVIOUS
  <2>1. job.at # Idle /\ Typed
    BY Busy
  <2>2. Idle # "compile" /\ \A code : With(code).at \in {Idle, "lookup"}
    BY <2>1, WithShape, MarksAssumption
  <2>3. Miss
    <3>1. NoJob.at # "compile" /\ job' # job
      BY <2>2, NoJobShape
    <3>2. job' # NoJob /\ \A code : job' # With(code)
      BY <2>2, <3>1
    <3>3. Next /\ ~Gone
      BY <3>1, <3>2 DEF vars, Gone
    <3>4. \A t \in Texts : ~Edit(t)
      BY <2>1, EditJob, MarksAssumption
    <3> QED BY <2>1, <3>1, <3>2, <3>3, <3>4
          DEF Next, LoadCookedShaders, CookShaders, CookIsTorn, SetCookedShadersOnly,
              Begin, NotFound, Hit, Compile, CompileFails, Insert, Rename, Launch, Crash
  <2>4. ~Holds(UNION cooked, Key)
    <3>1. ~Holds((UNION cooked) \cup {}, Key)
      BY <2>3, MergeHolds DEF Miss, Within
    <3> QED BY <3>1 DEF Holds
  <2> QED BY <2>4 DEF PInv, PromisesHeld
<1>2. PInv /\ [Next]_vars => [Kept]_vars
  BY <1>1
<1> QED BY <1>2, InitPInv, NextPInv, PTL DEF Spec, PromiseKept

-----------------------------------------------------------------------------
(* What is kept, and what is served.                                        *)

\* What a stage may be served: the code of a text that the files held, or
\* what a race put under the key of one.
Right(i, code) ==
    \E t \in job.texts :
        \/ code = CodeOf(job.program, Stages[i], process.build, t)
        \/ KeyOf(job.program, Stages[i], process.build, t) \in raced

\* What the compiler makes of a text.
MadeOf(t) == [i \in 1..Len(Stages) |-> CodeOf(job.program, Stages[i], process.build, t)]

\* The text that the program in hand sees is among those it was seen with,
\* what the job has so far is right, and what was compiled is of one of them.
Faithful ==
    /\ job.at # Idle =>
          /\ TextOf(job.program, text) \in job.texts
          /\ job.codes = <<>> \/ \E code : job.codes = <<code>> /\ Right(1, code)
    /\ job.at = "compile" => job.codes = <<>>
    /\ job.at \in {"insert", "rename"} => \E t \in job.texts : job.made = MadeOf(t)

SoundIn(store, compiler, spoiled) ==
    \A entry \in store :
        \/ entry.key \in spoiled
        \/ entry.code = [program |-> entry.key.program, stage |-> entry.key.stage,
                         engine |-> entry.key.engine, module |-> entry.key.module,
                         compiler |-> compiler]

Memory ==
    process # NoFile => SoundIn((UNION cooked) \cup dev, CompilerOf[process.build], raced)
Cache == \A c \in DOMAIN devFile : devFile[c] # NoFile => SoundIn(devFile[c], c, raced)
Content ==
    \A name \in Archives : archive[name] \notin {NoFile, Torn} =>
        SoundIn(archive[name].entries, archive[name].compiler, raced)

IInv == PInv /\ Memory /\ Cache /\ Content /\ Faithful

LEMMA SoundUnsound ==
  ASSUME NEW store, NEW c, NEW R, SoundIn(store, c, R), NEW entry \in Unsound(store, c)
  PROVE  entry.key \in R
BY DEF SoundIn, Unsound

LEMMA HashCovers == IInv => HashCoversWhatCompilerSaw
<1> SUFFICES ASSUME IInv, NEW entry \in Mislabelled PROVE entry.key \in raced
  BY DEF HashCoversWhatCompilerSaw
<1> DEFINE memory == (UNION cooked) \cup dev
           c == CompilerOf[process.build]
<1>1. \/ entry \in Unsound(memory, c)
      \/ \E d \in DOMAIN devFile : entry \in Unsound(Entries(devFile[d]), d)
      \/ \E name \in {n \in Archives : archive[n] \notin {NoFile, Torn}} :
            entry \in Unsound(archive[name].entries, archive[name].compiler)
  <2> DEFINE caches == {Unsound(Entries(devFile[d]), d) : d \in DOMAIN devFile}
             archives == {Unsound(archive[name].entries, archive[name].compiler) :
                             name \in {n \in Archives : archive[n] \notin {NoFile, Torn}}}
             kept == Unsound(memory, c)
  <2>1. entry \in UNION ({kept} \cup caches \cup archives)
    BY DEF Mislabelled
  <2>2. entry \in UNION caches => \E d \in DOMAIN devFile : entry \in Unsound(Entries(devFile[d]), d)
    OBVIOUS
  <2>3. entry \in UNION archives =>
          \E name \in {n \in Archives : archive[n] \notin {NoFile, Torn}} :
             entry \in Unsound(archive[name].entries, archive[name].compiler)
    OBVIOUS
  <2>4. entry \in kept \/ entry \in UNION caches \/ entry \in UNION archives
    <3> HIDE DEF kept, caches, archives
    <3> QED BY <2>1
  <2> QED BY <2>2, <2>3, <2>4
<1>2. CASE entry \in Unsound(memory, c)
  <2>1. memory # {}
    BY <1>2 DEF Unsound
  <2>2. process # NoFile
    BY <2>1 DEF IInv, PInv, Typed
  <2>3. SoundIn(memory, c, raced)
    BY <2>2 DEF IInv, Memory
  <2> HIDE DEF memory, c
  <2> QED BY <1>2, <2>3, SoundUnsound
<1>3. CASE \E d \in DOMAIN devFile : entry \in Unsound(Entries(devFile[d]), d)
  <2>1. PICK d \in DOMAIN devFile : entry \in Unsound(Entries(devFile[d]), d)
    BY <1>3
  <2>2. Entries(devFile[d]) = devFile[d] /\ devFile[d] # NoFile
    BY <2>1 DEF Entries, Unsound
  <2>3. SoundIn(devFile[d], d, raced)
    BY <2>2 DEF IInv, Cache
  <2> QED BY <2>1, <2>2, <2>3, SoundUnsound
<1>4. CASE \E name \in {n \in Archives : archive[n] \notin {NoFile, Torn}} :
              entry \in Unsound(archive[name].entries, archive[name].compiler)
  BY <1>4, SoundUnsound DEF IInv, Content
<1> QED BY <1>1, <1>2, <1>3, <1>4

LEMMA SoundTogether ==
  ASSUME NEW c, NEW R, NEW store, SoundIn(store, c, R), NEW other, SoundIn(other, c, R)
  PROVE  SoundIn(store \cup other, c, R) /\ SoundIn(Merge(store, other), c, R)
BY DEF SoundIn, Merge

LEMMA SoundParts ==
  ASSUME NEW c, NEW R, NEW store, NEW other, SoundIn(store \cup other, c, R)
  PROVE  SoundIn(store, c, R) /\ SoundIn(other, c, R)
BY DEF SoundIn

LEMMA SoundLater ==
  ASSUME NEW c, NEW store, NEW R, NEW more, R \subseteq more, SoundIn(store, c, R)
  PROVE  SoundIn(store, c, more)
BY DEF SoundIn

LEMMA SoundPut ==
  ASSUME NEW store, NEW program, NEW stage, NEW build, NEW t, NEW code, NEW R,
         SoundIn(store, CompilerOf[build], R),
         \/ code = CodeOf(program, stage, build, t)
         \/ KeyOf(program, stage, build, t) \in R
  PROVE  SoundIn(Put(store, KeyOf(program, stage, build, t), code), CompilerOf[build], R)
<1> DEFINE key == KeyOf(program, stage, build, t)
<1>1. \/ key \in R
      \/ code = [program |-> key.program, stage |-> key.stage, engine |-> key.engine,
                 module |-> key.module, compiler |-> CompilerOf[build]]
  BY DEF KeyOf, CodeOf
<1> HIDE DEF key
<1> QED BY <1>1 DEF SoundIn, Put, key

LEMMA SoundFound ==
  ASSUME NEW store, NEW program, NEW stage, NEW build, NEW t, NEW R,
         SoundIn(store, CompilerOf[build], R),
         Holds(store, KeyOf(program, stage, build, t))
  PROVE  \/ Found(store, KeyOf(program, stage, build, t)).code = CodeOf(program, stage, build, t)
         \/ KeyOf(program, stage, build, t) \in R
<1> DEFINE key == KeyOf(program, stage, build, t)
           entry == Found(store, key)
<1>1. entry \in store /\ entry.key = key
  <2>1. Holds(store, key)
    OBVIOUS
  <2> HIDE DEF key
  <2> QED BY <2>1 DEF Holds, Found
<1>2. \/ key \in R
      \/ entry.code = [program |-> key.program, stage |-> key.stage, engine |-> key.engine,
                       module |-> key.module, compiler |-> CompilerOf[build]]
  <2> HIDE DEF key, entry
  <2> QED BY <1>1 DEF SoundIn
<1> QED BY <1>2 DEF KeyOf, CodeOf

\* What a program sees of what it sees.
LEMMA SeenTwice ==
  ASSUME NEW program, NEW stage, NEW build, NEW t
  PROVE  /\ CodeOf(program, stage, build, TextOf(program, t)) = CodeOf(program, stage, build, t)
         /\ KeyOf(program, stage, build, TextOf(program, t)) = KeyOf(program, stage, build, t)
BY DEF CodeOf, KeyOf, TextOf

LEMMA TwoStages == Len(Stages) = 2 /\ Len(Stages) \in Nat
BY DEF Stages

\* What is made of a text is right at every stage.
LEMMA MadeRight ==
  ASSUME NEW t \in job.texts, NEW i \in {1, 2}
  PROVE  MadeOf(t)[i] = CodeOf(job.program, Stages[i], process.build, t) /\ Right(i, MadeOf(t)[i])
<1>1. MadeOf(t)[i] = CodeOf(job.program, Stages[i], process.build, t)
  BY TwoStages DEF MadeOf
<1> QED BY <1>1 DEF Right

\* The stage a job is at is the next of its codes.
LEMMA AtStage ==
  ASSUME Faithful, job.at # Idle
  PROVE  Len(job.codes) + 1 \in {1, 2} /\ Stage = Stages[Len(job.codes) + 1]
<1>1. CASE job.codes = <<>>
  BY <1>1 DEF Stage
<1>2. ASSUME NEW code, job.codes = <<code>> PROVE Len(job.codes) = 1
  BY <1>2
<1>3. Len(job.codes) \in {0, 1}
  BY <1>1, <1>2 DEF Faithful
<1> DEFINE n == Len(job.codes)
<1>4. Stage = Stages[n + 1]
  BY DEF Stage
<1>5. n + 1 \in {1, 2}
  <2> HIDE DEF n
  <2>1. n \in {0, 1}
    BY <1>3 DEF n
  <2> QED BY <2>1
<1> QED BY <1>4, <1>5

LEMMA Appending ==
  ASSUME NEW T, NEW s \in Seq(T), NEW e \in T
  PROVE  /\ Append(s, e) \in Seq(T) /\ Len(Append(s, e)) = Len(s) + 1
         /\ \A i \in 1..Len(s) : Append(s, e)[i] = s[i]
         /\ Append(s, e)[Len(s) + 1] = e
OBVIOUS

LEMMA Pair ==
  ASSUME NEW a, NEW b
  PROVE  Append(<<a>>, b) = <<a, b>>
<1> DEFINE S == {a, b}
           s == Append(<<a>>, b)
<1>1. <<a>> \in Seq(S) /\ b \in S /\ Len(<<a>>) = 1 /\ <<a>>[1] = a
  OBVIOUS
<1>2. s \in Seq(S) /\ Len(s) = 2 /\ s[1] = a /\ s[2] = b
  <2> DEFINE o == <<a>>
  <2>1. o \in Seq(S) /\ Len(o) = 1 /\ o[1] = a
    BY <1>1
  <2> HIDE DEF o, S
  <2>3. b \in S
    BY <1>1
  <2>4. /\ Append(o, b) \in Seq(S) /\ Len(Append(o, b)) = Len(o) + 1
        /\ \A i \in 1..Len(o) : Append(o, b)[i] = o[i]
        /\ Append(o, b)[Len(o) + 1] = b
    BY <2>1, <2>3, Appending
  <2>5. 1 \in 1..Len(o) /\ Len(o) + 1 = 2
    BY <2>1
  <2>6. Append(o, b)[1] = a
    BY <2>1, <2>4, <2>5
  <2>7. Append(o, b)[2] = b
    BY <2>4, <2>5
  <2>2. Append(o, b) \in Seq(S) /\ Len(Append(o, b)) = 2 /\ Append(o, b)[1] = a /\ Append(o, b)[2] = b
    BY <2>4, <2>5, <2>6, <2>7
  <2> QED BY <2>2 DEF o
<1>3. <<a, b>> \in Seq(S) /\ Len(<<a, b>>) = 2 /\ <<a, b>>[1] = a /\ <<a, b>>[2] = b
  OBVIOUS
<1> HIDE DEF S, s
<1>4. ASSUME NEW t \in Seq(S), NEW u \in Seq(S), Len(t) = 2, Len(u) = 2, t[1] = u[1], t[2] = u[2]
      PROVE  t = u
  <2>1. \A i \in 1..2 : t[i] = u[i]
    BY <1>4
  <2> QED BY <1>4, <2>1
<1>5. s = <<a, b>>
  BY <1>2, <1>3, <1>4
<1> QED BY <1>5 DEF s

\* Both stages of what a job is done with.
Both(codes) == codes = <<codes[1], codes[2]>> /\ Right(1, codes[1]) /\ Right(2, codes[2])

LEMMA WithCode ==
  ASSUME Typed, Faithful, job.at # Idle, NEW code, Right(Len(job.codes) + 1, code)
  PROVE  LET with == With(code)
         IN  \/ with.at = Idle /\ Both(with.codes)
             \/ /\ with.at = job.at /\ with.codes = <<code>> /\ Right(1, code)
                /\ with.program = job.program /\ with.made = job.made
                /\ with.texts = job.texts
<1>1. CASE job.codes = <<>>
  <2>1. Append(job.codes, code) = <<code>> /\ Len(<<code>>) # Len(Stages) /\ Right(1, code)
    BY <1>1, TwoStages
  <2>2. With(code) = [job EXCEPT !.codes = <<code>>]
    BY <2>1 DEF With
  <2> HIDE DEF With
  <2> QED BY <2>1, <2>2 DEF Typed, JobOf
<1>2. ASSUME NEW first, job.codes = <<first>>, Right(1, first)
      PROVE  With(code).at = Idle /\ Both(With(code).codes)
  <2>1. Len(<<first>>) = 1 /\ Right(2, code)
    BY <1>2
  <2>2. Append(<<first>>, code) = <<first, code>>
    BY Pair
  <2>4. Append(job.codes, code) = <<first, code>> /\ Len(<<first, code>>) = Len(Stages)
    BY <1>2, <2>2, TwoStages
  <2>3. With(code) = Done(<<first, code>>)
    BY <2>4 DEF With
  <2> QED BY <1>2, <2>1, <2>3 DEF Done, Both
<1> QED BY <1>1, <1>2 DEF Faithful

LEMMA Serving ==
  ASSUME IInv, job.at # Idle
  PROVE  /\ process # NoFile /\ process.build \in Builds /\ Typed
         /\ SoundIn(UNION cooked, CompilerOf[process.build], raced)
         /\ SoundIn(dev, CompilerOf[process.build], raced)
<1>1. process # NoFile /\ process.build \in Builds /\ Typed
  BY DEF IInv, PInv, Typed, Processes
<1>2. SoundIn((UNION cooked) \cup dev, CompilerOf[process.build], raced)
  BY <1>1 DEF IInv, Memory
<1> DEFINE all == UNION cooked
<1> HIDE DEF all
<1>3. /\ SoundIn(all, CompilerOf[process.build], raced)
      /\ SoundIn(dev, CompilerOf[process.build], raced)
  BY <1>2, SoundParts DEF all
<1> QED BY <1>1, <1>3 DEF all

\* What was right stays right while the program is in hand.
LEMMA RightStays ==
  ASSUME job'.program = job.program, process' = process, job.texts \subseteq job'.texts,
         raced \subseteq raced', NEW CONSTANT i, NEW CONSTANT code, Right(i, code)
  PROVE  Right(i, code)'
BY DEF Right, CodeOf, KeyOf, TextOf

\* A job that goes on, with what it had or with one more stage that is right.
LEMMA FaithfulStays ==
  ASSUME Faithful, job.at # Idle, job'.program = job.program, process' = process,
         job.texts \subseteq job'.texts, raced \subseteq raced',
         TextOf(job.program, text') \in job'.texts,
         \/ job'.codes = job.codes
         \/ job'.codes = <<>>
         \/ \E code : job'.codes = <<code>> /\ Right(1, code),
         job'.at = "compile" => job'.codes = <<>>,
         job'.at \in {"insert", "rename"} => \E t \in job.texts : job'.made = MadeOf(t)
  PROVE  Faithful'
<1>1. TextOf(job'.program, text') \in job'.texts
  OBVIOUS
<1>2. job'.codes = <<>> \/ \E code : job'.codes = <<code>> /\ Right(1, code)
  BY DEF Faithful
<1>3. job'.codes = <<>> \/ \E code : job'.codes = <<code>> /\ Right(1, code)'
  <2>1. ASSUME NEW CONSTANT code, job'.codes = <<code>>, Right(1, code) PROVE Right(1, code)'
    BY <2>1, RightStays
  <2> QED BY <1>2, <2>1
<1>4. job'.at \in {"insert", "rename"} => \E t \in job'.texts : job'.made = MadeOf(t)'
  <2>1. \A t : MadeOf(t)' = MadeOf(t)
    BY DEF MadeOf, CodeOf, TextOf
  <2> QED BY <2>1
<1> QED BY <1>1, <1>3, <1>4 DEF Faithful, TextOf

LEMMA IdleFaithful == job.at = Idle => Faithful
BY MarksAssumption DEF Faithful

\* The stores are not touched, and the job goes on.
LEMMA SameStores ==
  ASSUME IInv, PInv', UNCHANGED <<process, devFile, archive, cooked, dev, raced>>, Faithful'
  PROVE  IInv'
BY DEF IInv, Memory, Cache, Content

LEMMA InitIInv == Init => IInv
<1> SUFFICES ASSUME Init PROVE IInv
  OBVIOUS
<1>1. Memory /\ Cache /\ Content
  BY DEF Init, Memory, Cache, Content
<1>2. Faithful
  BY NoJobShape, IdleFaithful DEF Init
<1> QED BY <1>1, <1>2, InitPInv DEF IInv

LEMMA LoadSound ==
  ASSUME IInv, PInv', LoadCookedShaders
  PROVE  IInv'
<1> DEFINE usable == {name \in Archives : Usable(name)}
           c == CompilerOf[process.build]
<1>1. /\ process # NoFile
      /\ cooked' = IF usable = {} THEN {} ELSE {UNION {First(name, usable) : name \in usable}}
      /\ UNCHANGED <<text, archive, process, devFile, dev, job, raced>>
  BY DEF LoadCookedShaders, First, disk
<1>2. SoundIn(dev, c, raced)
  <2> DEFINE all == UNION cooked
  <2>1. SoundIn(all \cup dev, c, raced)
    BY <1>1 DEF IInv, Memory
  <2> HIDE DEF all, c
  <2> QED BY <2>1, SoundParts
<1>3. ASSUME NEW name \in usable PROVE SoundIn(First(name, usable), c, raced)
  <2>1. SoundIn(archive[name].entries, c, raced)
    BY DEF IInv, Content, Usable
  <2> QED BY <2>1 DEF SoundIn, First
<1>4. SoundIn(UNION cooked', c, raced)
  <2> HIDE DEF c, usable
  <2>1. SoundIn(UNION {First(name, usable) : name \in usable}, c, raced)
    BY <1>3 DEF SoundIn
  <2> DEFINE store == UNION {First(name, usable) : name \in usable}
  <2> HIDE DEF store
  <2>2. SoundIn(store, c, raced) /\ (cooked' = {} \/ cooked' = {store})
    BY <1>1, <2>1 DEF store
  <2> QED BY <2>2 DEF SoundIn
<1>5. SoundIn((UNION cooked') \cup dev, c, raced)
  <2> DEFINE all == UNION cooked'
  <2>1. SoundIn(all, c, raced)
    BY <1>4
  <2> HIDE DEF all, c
  <2>2. SoundIn(all \cup dev, c, raced)
    BY <1>2, <2>1, SoundTogether
  <2> QED BY <2>2 DEF all
<1>6. Memory' /\ Cache' /\ Content'
  BY <1>1, <1>5 DEF IInv, Memory, Cache, Content
<1>7. Faithful'
  BY <1>1 DEF IInv, Faithful, Right, MadeOf, KeyOf, CodeOf, TextOf
<1> QED BY <1>6, <1>7 DEF IInv

LEMMA CookSound ==
  ASSUME IInv, PInv', NEW name \in Archives, CookShaders(name)
  PROVE  IInv'
<1> DEFINE c == CompilerOf[process.build]
<1>1. /\ process # NoFile
      /\ archive' = [archive EXCEPT ![name] = [compiler |-> c, entries |-> Sealed]]
      /\ UNCHANGED <<text, process, devFile, cooked, dev, job, raced>>
  BY DEF CookShaders, session
<1>2. SoundIn(Sealed, c, raced)
  <2> DEFINE all == UNION cooked
  <2>1. SoundIn(all \cup dev, c, raced)
    BY <1>1 DEF IInv, Memory
  <2> HIDE DEF all, c
  <2>2. SoundIn(Merge(all, dev), c, raced)
    BY <2>1, SoundParts, SoundTogether
  <2> QED BY <2>2 DEF Sealed, all
<1>3. /\ archive'[name] = [compiler |-> c, entries |-> Sealed]
      /\ \A n \in Archives \ {name} : archive'[n] = archive[n]
  BY <1>1 DEF IInv, PInv, Typed
<1>4. Memory' /\ Cache'
  BY <1>1 DEF IInv, Memory, Cache
<1>5. Content'
  BY <1>1, <1>2, <1>3 DEF IInv, Content
<1>6. Faithful'
  BY <1>1 DEF IInv, Faithful, Right, MadeOf, KeyOf, CodeOf, TextOf
<1> QED BY <1>4, <1>5, <1>6 DEF IInv

LEMMA GoneSound ==
  ASSUME Gone
  PROVE  Memory' /\ Faithful'
BY NoJobShape, MarksAssumption DEF Gone, Memory, Faithful, NoJob, Done

LEMMA TornSound ==
  ASSUME IInv, PInv', NEW name \in Archives, CookIsTorn(name)
  PROVE  IInv'
<1>1. /\ archive' = [archive EXCEPT ![name] = Torn]
      /\ UNCHANGED <<text, devFile, raced>>
      /\ Gone \/ UNCHANGED <<process, cooked, dev, job>>
  BY DEF CookIsTorn
<1>2. /\ archive'[name] = Torn
      /\ \A n \in Archives \ {name} : archive'[n] = archive[n]
  BY <1>1 DEF IInv, PInv, Typed
<1>3. Cache' /\ Content'
  BY <1>1, <1>2 DEF IInv, Cache, Content
<1>4. CASE Gone
  BY <1>3, <1>4, GoneSound DEF IInv
<1>5. CASE UNCHANGED <<process, cooked, dev, job>>
  BY <1>1, <1>3, <1>5 DEF IInv, Memory, Faithful, Right, MadeOf, KeyOf, CodeOf, TextOf
<1> QED BY <1>1, <1>4, <1>5

LEMMA QuietSound ==
  ASSUME IInv, PInv', \/ \E only \in BOOLEAN : SetCookedShadersOnly(only)
                      \/ \E program \in Programs : Begin(program) \/ NotFound(program)
                      \/ Miss \/ CompileFails
  PROVE  IInv'
<1>1. UNCHANGED <<process, devFile, archive, cooked, dev, text, raced>>
  BY DEF SetCookedShadersOnly, Begin, NotFound, Miss, CompileFails, disk, session
<1>2. CASE \E only \in BOOLEAN : SetCookedShadersOnly(only)
  <2>1. job' = job
    BY <1>2 DEF SetCookedShadersOnly
  <2>2. Faithful'
    BY <1>1, <2>1 DEF IInv, Faithful, Right, MadeOf, KeyOf, CodeOf, TextOf
  <2> QED BY <1>1, <2>2, SameStores
<1>3. CASE \E program \in Programs : Begin(program)
  <2>1. /\ job'.at \in {"lookup", "compile"} /\ job'.codes = <<>>
        /\ job'.texts = {TextOf(job'.program, text)}
    BY <1>3 DEF Begin
  <2>2. Faithful'
    BY <1>1, <2>1, MarksAssumption DEF Faithful, TextOf
  <2> QED BY <1>1, <2>2, SameStores
<1>4. CASE Miss
  <2>1. /\ job.at # Idle /\ Typed
        /\ job'.at = "compile" /\ job'.codes = <<>>
        /\ job'.program = job.program /\ job'.texts = job.texts
    BY <1>4, MarksAssumption DEF Miss, IInv, PInv, Typed, JobOf
  <2>2. TextOf(job.program, text) \in job.texts
    BY <2>1 DEF IInv, Faithful
  <2>3. Faithful'
    BY <1>1, <2>1, <2>2, FaithfulStays DEF IInv
  <2> QED BY <1>1, <2>3, SameStores
<1>5. CASE CompileFails \/ \E program \in Programs : NotFound(program)
  <2>1. job'.at = Idle
    BY <1>5, NoJobShape DEF CompileFails, NotFound
  <2>2. Faithful'
    BY <2>1, MarksAssumption DEF Faithful
  <2> QED BY <1>1, <2>2, SameStores
<1> QED BY <1>2, <1>3, <1>4, <1>5

\* What is found of a stage is right.
LEMMA HitCode ==
  ASSUME IInv, Hit
  PROVE  /\ job.at = "lookup" /\ job.at # Idle
         /\ Right(Len(job.codes) + 1, Found(Within, Key).code)
<1>1. job.at = "lookup" /\ job.at # Idle /\ Holds(Within, Key)
  BY MarksAssumption DEF Hit
<1>2. SoundIn(Within, CompilerOf[process.build], raced)
  <2> DEFINE all == UNION cooked
             c == CompilerOf[process.build]
             more == IF job.only THEN {} ELSE dev
  <2>1. SoundIn(all, c, raced) /\ SoundIn(dev, c, raced)
    BY <1>1, Serving
  <2>2. SoundIn(more, c, raced)
    BY <2>1 DEF SoundIn
  <2>3. Within = Merge(all, more)
    BY DEF Within
  <2> HIDE DEF all, c, more
  <2>4. SoundIn(Merge(all, more), c, raced)
    BY <2>1, <2>2, SoundTogether
  <2> QED BY <2>3, <2>4 DEF c
<1>3. Key = KeyOf(job.program, Stage, process.build, text)
  BY DEF Key
<1> DEFINE t == TextOf(job.program, text)
           code == Found(Within, Key).code
<1>4. code = CodeOf(job.program, Stage, process.build, text) \/ Key \in raced
  BY <1>1, <1>2, <1>3, SoundFound
<1>5. \/ code = CodeOf(job.program, Stage, process.build, t)
      \/ KeyOf(job.program, Stage, process.build, t) \in raced
  <2> HIDE DEF code, t
  <2> QED BY <1>3, <1>4, SeenTwice DEF t
<1>6. t \in job.texts /\ Stage = Stages[Len(job.codes) + 1]
  BY <1>1, AtStage DEF IInv, Faithful
<1> HIDE DEF t, code
<1> QED BY <1>1, <1>5, <1>6 DEF Right, code

LEMMA HitSound ==
  ASSUME IInv, PInv', Hit
  PROVE  IInv'
<1> DEFINE code == Found(Within, Key).code
<1>1. /\ UNCHANGED <<process, devFile, archive, cooked, dev, text, raced>>
      /\ job' = With(code)
  BY DEF Hit, disk, session
<1>2. job.at = "lookup" /\ job.at # Idle /\ Right(Len(job.codes) + 1, code)
  BY HitCode
<1> HIDE DEF code
<1>3. \/ job'.at = Idle
      \/ /\ job'.at = "lookup" /\ job'.codes = <<code>> /\ Right(1, code)
         /\ job'.program = job.program /\ job'.texts = job.texts
  BY <1>1, <1>2, WithCode DEF IInv, PInv
<1>4. CASE job'.at = Idle
  <2>1. Faithful'
    BY <1>4, MarksAssumption DEF Faithful
  <2> QED BY <1>1, <2>1, SameStores
<1>5. CASE /\ job'.at = "lookup" /\ job'.codes = <<code>> /\ Right(1, code)
           /\ job'.program = job.program /\ job'.texts = job.texts
  <2>1. TextOf(job.program, text) \in job.texts
    BY <1>2 DEF IInv, Faithful
  <2>2. Faithful'
    BY <1>1, <1>2, <1>5, <2>1, FaithfulStays DEF IInv
  <2> QED BY <1>1, <2>2, SameStores
<1> QED BY <1>3, <1>4, <1>5

\* The compiler makes the code of the text that is there.
LEMMA CompileJob ==
  ASSUME IInv, Compile
  PROVE  LET seen == TextOf(job.program, text)
         IN  /\ job.at # Idle /\ seen \in job.texts
             /\ \/ job' = Done(MadeOf(seen))
                \/ /\ job'.at = "insert" /\ job'.made = MadeOf(seen) /\ job'.texts = {seen}
                   /\ job'.codes = job.codes /\ job'.program = job.program
<1> DEFINE seen == TextOf(job.program, text)
           made == [i \in 1..Len(Stages) |-> CodeOf(job.program, Stages[i], process.build, text)]
<1>1. /\ job.at = "compile" /\ job.at # Idle
      /\ \/ job' = [job EXCEPT !.at = "insert", !.made = made, !.texts = {seen}]
         \/ job' = Done(made)
  BY MarksAssumption DEF Compile
<1>2. made = MadeOf(seen)
  <2>1. \A i \in 1..Len(Stages) :
           CodeOf(job.program, Stages[i], process.build, seen)
             = CodeOf(job.program, Stages[i], process.build, text)
    BY SeenTwice
  <2> QED BY <2>1 DEF MadeOf
<1>3. seen \in job.texts /\ job = JobOf(job)
  BY <1>1 DEF IInv, PInv, Typed, Faithful
<1>4. ASSUME job' = [job EXCEPT !.at = "insert", !.made = made, !.texts = {seen}]
      PROVE  /\ job'.at = "insert" /\ job'.made = made /\ job'.texts = {seen}
             /\ job'.codes = job.codes /\ job'.program = job.program
  <2> DEFINE texts == {seen}
  <2> HIDE DEF made, texts
  <2> QED BY <1>3, <1>4 DEF JobOf
<1> HIDE DEF made, seen
<1> QED BY <1>1, <1>2, <1>3, <1>4 DEF seen

LEMMA CompileSound ==
  ASSUME IInv, PInv', Compile
  PROVE  IInv'
<1> DEFINE seen == TextOf(job.program, text)
<1>1. UNCHANGED <<process, devFile, archive, cooked, dev, text, raced>>
  BY DEF Compile, disk, session
<1>2. CASE job' = Done(MadeOf(seen))
  <2>1. job'.at = Idle
    BY <1>2 DEF Done
  <2>2. Faithful'
    BY <2>1, MarksAssumption DEF Faithful
  <2> QED BY <1>1, <2>2, SameStores
<1>3. CASE /\ job'.at = "insert" /\ job'.made = MadeOf(seen) /\ job'.texts = {seen}
           /\ job'.codes = job.codes /\ job'.program = job.program
  <2>1. job.codes = <<>>
    BY DEF Compile, IInv, Faithful
  <2>2. \A t : MadeOf(t)' = MadeOf(t)
    BY <1>1, <1>3 DEF MadeOf, CodeOf, TextOf
  <2>3. TextOf(job'.program, text') = seen
    BY <1>1, <1>3 DEF TextOf
  <2> HIDE DEF seen
  <2>4. Faithful'
    BY <1>3, <2>1, <2>2, <2>3 DEF Faithful, TextOf
  <2> QED BY <1>1, <2>4, SameStores
<1> QED BY <1>2, <1>3, CompileJob

\* What is inserted is right, and is the code of the key unless that is
\* one that a race spoiled.
LEMMA InsertCode ==
  ASSUME IInv, job.at \in {"insert", "rename"}
  PROVE  LET code == job.made[Len(job.codes) + 1]
         IN  /\ job.at # Idle /\ Right(Len(job.codes) + 1, code)
             /\ \E t \in job.texts : job.made = MadeOf(t)
             /\ job.texts = {TextOf(job.program, text)} =>
                   code = CodeOf(job.program, Stage, process.build, text)
<1>1. job.at # Idle
  BY MarksAssumption
<1>2. Len(job.codes) + 1 \in {1, 2} /\ Stage = Stages[Len(job.codes) + 1]
  BY <1>1, AtStage DEF IInv
<1>3. PICK t \in job.texts : job.made = MadeOf(t)
  BY DEF IInv, Faithful
<1> DEFINE i == Len(job.codes) + 1
<1>4. /\ job.made[i] = CodeOf(job.program, Stages[i], process.build, t)
      /\ Right(i, job.made[i])
  <2> HIDE DEF i
  <2> QED BY <1>2, <1>3, MadeRight DEF i
<1>5. ASSUME job.texts = {TextOf(job.program, text)}
      PROVE  job.made[i] = CodeOf(job.program, Stage, process.build, text)
  <2>1. t = TextOf(job.program, text)
    BY <1>5
  <2> HIDE DEF i
  <2> QED BY <1>2, <1>4, <2>1, SeenTwice DEF i
<1> HIDE DEF i
<1> QED BY <1>1, <1>3, <1>4, <1>5 DEF i

LEMMA InsertSound ==
  ASSUME IInv, PInv', Insert
  PROVE  IInv'
<1> DEFINE code == job.made[Len(job.codes) + 1]
           c == CompilerOf[process.build]
           seen == TextOf(job.program, text)
<1>1. /\ job.at = "insert" /\ job.at # Idle
      /\ dev' = Put(dev, Key, code)
      /\ job' = [job EXCEPT !.at = "rename"] \/ job' = With(code)
      /\ devFile' = [devFile EXCEPT ![c] = NoFile] \/ devFile' = devFile
      /\ raced' = raced \cup (IF job.texts = {seen} THEN {} ELSE {Key})
      /\ UNCHANGED <<process, archive, cooked, text>>
  BY MarksAssumption DEF Insert, disk, session
<1>2. /\ Right(Len(job.codes) + 1, code)
      /\ \E t \in job.texts : job.made = MadeOf(t)
      /\ job.texts = {seen} => code = CodeOf(job.program, Stage, process.build, text)
  BY <1>1, InsertCode
<1>3. raced \subseteq raced'
  <2> DEFINE more == IF job.texts = {seen} THEN {} ELSE {Key}
  <2>1. raced' = raced \cup more
    BY <1>1
  <2> HIDE DEF more
  <2> QED BY <2>1
<1>4. /\ SoundIn(UNION cooked, c, raced) /\ SoundIn(dev, c, raced) /\ Typed
  BY <1>1, Serving
<1>5. code = CodeOf(job.program, Stage, process.build, text) \/ Key \in raced'
  <2>1. CASE job.texts = {seen}
    BY <1>2, <2>1
  <2>2. CASE job.texts # {seen}
    <3> DEFINE key == Key
    <3>1. raced' = raced \cup {key}
      BY <1>1, <2>2
    <3> HIDE DEF key
    <3>2. key \in raced'
      BY <3>1
    <3> QED BY <3>2 DEF key
  <2> QED BY <2>1, <2>2
<1>6. SoundIn(dev', c, raced')
  <2>1. SoundIn(dev, c, raced')
    <3> HIDE DEF c
    <3> QED BY <1>3, <1>4, SoundLater
  <2>2. Key = KeyOf(job.program, Stage, process.build, text)
    BY DEF Key
  <2> HIDE DEF code
  <2> QED BY <1>1, <1>5, <2>1, <2>2, SoundPut
<1>7. SoundIn((UNION cooked) \cup dev', c, raced')
  <2> DEFINE all == UNION cooked
  <2>1. SoundIn(all, c, raced')
    <3> HIDE DEF c, all
    <3> QED BY <1>3, <1>4, SoundLater DEF all
  <2> HIDE DEF all, c
  <2> QED BY <1>6, <2>1, SoundTogether DEF all
<1>8. Memory'
  BY <1>1, <1>7 DEF Memory
<1>9. Content'
  BY <1>1, <1>3, SoundLater DEF IInv, Content
<1>10. Cache'
  <2> SUFFICES ASSUME NEW d \in DOMAIN devFile', devFile'[d] # NoFile
               PROVE  SoundIn(devFile'[d], d, raced')
    BY DEF Cache
  <2>1. devFile'[d] = devFile[d] /\ d \in DOMAIN devFile
    BY <1>1
  <2>2. SoundIn(devFile[d], d, raced)
    BY <2>1 DEF IInv, Cache
  <2> QED BY <1>3, <2>1, <2>2, SoundLater
<1>11. seen \in job.texts
  BY <1>1 DEF IInv, Faithful
<1>12. Faithful'
  <2> HIDE DEF code
  <2>1. CASE job' = With(code)
    <3>1. \/ job'.at = Idle
          \/ /\ job'.codes = <<code>> /\ Right(1, code) /\ job'.program = job.program
             /\ job'.made = job.made /\ job'.texts = job.texts
      BY <1>1, <1>2, <1>4, <2>1, WithCode DEF IInv
    <3>2. CASE job'.at = Idle
      BY <3>2, MarksAssumption DEF Faithful
    <3>3. CASE /\ job'.codes = <<code>> /\ Right(1, code) /\ job'.program = job.program
               /\ job'.made = job.made /\ job'.texts = job.texts
      <4>1. job'.at # "compile"
        <5>1. With(code).at \in {Idle, job.at}
          BY <1>4, WithShape
        <5> QED BY <1>1, <2>1, <5>1, MarksAssumption
      <4> QED BY <1>1, <1>2, <1>3, <1>11, <3>3, <4>1, FaithfulStays DEF IInv
    <3> QED BY <3>1, <3>2, <3>3
  <2>2. CASE job' = [job EXCEPT !.at = "rename"]
    <3>1. /\ job'.codes = job.codes /\ job'.made = job.made /\ job'.program = job.program
          /\ job'.texts = job.texts
      BY <1>4, <2>2 DEF Typed, JobOf
    <3>2. job'.at = "rename"
      BY <1>4, <2>2 DEF Typed, JobOf
    <3> QED BY <1>1, <1>2, <1>3, <1>11, <3>1, <3>2, FaithfulStays DEF IInv
  <2> QED BY <1>1, <2>1, <2>2
<1> QED BY <1>8, <1>9, <1>10, <1>12 DEF IInv

\* What the rename leaves of the job.
LEMMA RenameJob ==
  ASSUME IInv, Rename
  PROVE  LET code == job.made[Len(job.codes) + 1]
         IN  \/ job'.at = Idle /\ Both(job'.codes)
             \/ /\ job'.at = "insert" /\ job'.codes = <<code>> /\ Right(1, code)
                /\ job'.program = job.program /\ job'.made = job.made
                /\ job'.texts = job.texts
<1> DEFINE code == job.made[Len(job.codes) + 1]
           with == With(code)
<1>1. /\ job.at = "rename" /\ job.at # Idle
      /\ job' = [with EXCEPT !.at = IF with.at = Idle THEN Idle ELSE "insert"]
  BY MarksAssumption DEF Rename
<1>2. Right(Len(job.codes) + 1, code)
  BY <1>1, InsertCode
<1>3. Typed /\ Faithful
  BY DEF IInv, PInv
<1>4. with = JobOf(with)
  BY <1>3, WithShape
<1> HIDE DEF code
<1>5. \/ with.at = Idle /\ Both(with.codes)
      \/ /\ with.at = job.at /\ with.codes = <<code>> /\ Right(1, code)
         /\ with.program = job.program /\ with.made = job.made
         /\ with.texts = job.texts
  BY <1>1, <1>2, <1>3, WithCode
<1> HIDE DEF with
<1>6. /\ job'.codes = with.codes /\ job'.program = with.program /\ job'.made = with.made
      /\ job'.texts = with.texts /\ job'.at = IF with.at = Idle THEN Idle ELSE "insert"
  BY <1>1, <1>4 DEF JobOf
<1>7. CASE with.at = Idle /\ Both(with.codes)
  BY <1>6, <1>7 DEF Both
<1>8. CASE /\ with.at = job.at /\ with.codes = <<code>> /\ Right(1, code)
           /\ with.program = job.program /\ with.made = job.made
           /\ with.texts = job.texts
  BY <1>1, <1>6, <1>8 DEF code
<1> QED BY <1>5, <1>7, <1>8

LEMMA RenameSound ==
  ASSUME IInv, PInv', Rename
  PROVE  IInv'
<1> DEFINE code == job.made[Len(job.codes) + 1]
           c == CompilerOf[process.build]
<1>1. /\ job.at = "rename" /\ job.at # Idle
      /\ devFile' = [devFile EXCEPT ![c] = dev] \/ devFile' = devFile
      /\ UNCHANGED <<process, archive, cooked, dev, text, raced>>
  BY MarksAssumption DEF Rename, disk, session
<1>2. SoundIn(dev, c, raced) /\ Typed
  BY <1>1, Serving
<1>3. Memory' /\ Content'
  BY <1>1 DEF IInv, Memory, Content
<1>4. Cache'
  BY <1>1, <1>2 DEF IInv, Cache
<1>5. TextOf(job.program, text) \in job.texts /\ \E t \in job.texts : job.made = MadeOf(t)
  BY <1>1 DEF IInv, Faithful
<1>6. Faithful'
  <2>1. CASE job'.at = Idle
    BY <2>1, MarksAssumption DEF Faithful
  <2>2. CASE /\ job'.at = "insert" /\ job'.codes = <<code>> /\ Right(1, code)
             /\ job'.program = job.program /\ job'.made = job.made
             /\ job'.texts = job.texts
    <3> HIDE DEF code
    <3> QED BY <1>1, <1>5, <2>2, FaithfulStays DEF IInv
  <2> QED BY <2>1, <2>2, RenameJob
<1> QED BY <1>3, <1>4, <1>6 DEF IInv

LEMMA LaunchSound ==
  ASSUME IInv, PInv', NEW build \in Builds, NEW machine \in Machines, Launch(build, machine)
  PROVE  IInv'
<1>1. /\ process = NoFile /\ process'.build = build
      /\ dev' = IF machine.keeps THEN Entries(devFile[CompilerOf[build]]) ELSE {}
      /\ UNCHANGED <<devFile, archive, cooked, text, job, raced>>
  BY DEF Launch, disk
<1>2. cooked = {} /\ job.at = Idle /\ CompilerOf[build] \in DOMAIN devFile
  BY <1>1 DEF IInv, PInv, Typed
<1>3. SoundIn(dev', CompilerOf[build], raced)
  BY <1>1, <1>2 DEF IInv, Cache, Entries, SoundIn
<1>4. Memory'
  BY <1>1, <1>2, <1>3 DEF Memory, SoundIn
<1>5. Cache' /\ Content'
  BY <1>1 DEF IInv, Cache, Content
<1>6. Faithful'
  BY <1>1, <1>2, MarksAssumption DEF Faithful
<1> QED BY <1>4, <1>5, <1>6 DEF IInv

LEMMA CrashSound ==
  ASSUME IInv, PInv', Crash
  PROVE  IInv'
<1>1. Gone /\ UNCHANGED <<archive, devFile, raced>>
  BY DEF Crash, disk
<1> QED BY <1>1, GoneSound DEF IInv, Cache, Content

\* A text more that the files held.
LEMMA EditSound ==
  ASSUME IInv, PInv', NEW t \in Texts, Edit(t)
  PROVE  IInv'
<1>1. /\ text' = t
      /\ UNCHANGED <<process, devFile, archive, cooked, dev, raced>>
  BY DEF Edit, session
<1>2. /\ job'.at = job.at /\ (job.at = Idle => job' = job)
      /\ job'.program = job.program /\ job'.codes = job.codes /\ job'.made = job.made
      /\ job.at # Idle => job'.texts = job.texts \cup {TextOf(job.program, t)}
  BY EditJob DEF IInv, PInv
<1>3. Faithful'
  <2>1. CASE job.at = Idle
    BY <1>2, <2>1, MarksAssumption DEF Faithful
  <2>2. CASE job.at # Idle
    <3>1. job.texts \subseteq job'.texts /\ TextOf(job.program, text') \in job'.texts
      BY <1>1, <1>2, <2>2
    <3>2. /\ job.at = "compile" => job.codes = <<>>
          /\ job.at \in {"insert", "rename"} => \E u \in job.texts : job.made = MadeOf(u)
      BY DEF IInv, Faithful
    <3> QED BY <1>1, <1>2, <2>2, <3>1, <3>2, FaithfulStays DEF IInv
  <2> QED BY <2>1, <2>2
<1> QED BY <1>1, <1>3, SameStores

LEMMA NextIInv == IInv /\ [Next]_vars => IInv'
<1> SUFFICES ASSUME IInv, [Next]_vars PROVE IInv'
  OBVIOUS
<1>1. PInv'
  BY NextPInv DEF IInv
<1>2. CASE UNCHANGED vars
  <2>1. UNCHANGED <<process, devFile, archive, cooked, dev, text, job, raced>>
    BY <1>2 DEF vars
  <2>2. Faithful'
    BY <2>1 DEF IInv, Faithful, Right, MadeOf, KeyOf, CodeOf, TextOf
  <2> QED BY <1>1, <2>1, <2>2, SameStores
<1>3. CASE Next
  BY <1>1, <1>3, LoadSound, CookSound, TornSound, QuietSound, HitSound, CompileSound,
     InsertSound, RenameSound, LaunchSound, CrashSound, EditSound
     DEF Next
<1> QED BY <1>2, <1>3

\* Whatever is found under a key was made from the text the key hashes by the
\* compiler of its store, except where a source was edited between the
\* compiler's reading of it and the store's: for any programs, builds and
\* archives, through edits at any time, upgrades, torn archives and processes
\* that end anywhere (shaderStoreInsert, cookShaders, loadCookedShaders).
THEOREM StoresAlwaysSound == Spec => []HashCoversWhatCompilerSaw
BY HashCovers, InitIInv, NextIInv, PTL DEF Spec

\* A program is served, stage by stage, the code of a text that its files held
\* since they were asked for, whichever store it comes from, though it be
\* edited meanwhile; a key that a race spoiled is the one exception
\* (compileSlangProgram, shaderStoreLookup).
THEOREM AlwaysServedCurrent == Spec => ServedIsCurrent
<1> DEFINE Served == job.at # Idle /\ job'.at = Idle /\ job'.codes # <<>>
                     => \A i \in 1..Len(Stages) : Right(i, job'.codes[i])
<1>1. IInv /\ [Next]_vars => Served
  <2> SUFFICES ASSUME IInv, [Next]_vars, job.at # Idle, job'.at = Idle, job'.codes # <<>>
               PROVE  Right(1, job'.codes[1]) /\ Right(2, job'.codes[2])
    BY TwoStages
  <2>1. Typed /\ Faithful
    BY DEF IInv, PInv
  <2>2. job' # job /\ job' # NoJob
    BY NoJobShape
  <2>3. Next /\ ~Gone
    BY <2>2 DEF vars, Gone
  <2>4. Hit \/ Compile \/ Insert \/ Rename
    <3>1. ~\E program \in Programs : Begin(program) \/ NotFound(program)
      BY DEF Begin, NotFound
    <3>2. ~Miss
      BY <2>1, MarksAssumption DEF Miss, Typed, JobOf
    <3>3. ~CompileFails
      BY <2>2 DEF CompileFails
    <3>4. \A t \in Texts : ~Edit(t)
      BY <2>1, EditJob
    <3> QED BY <2>2, <2>3, <3>1, <3>2, <3>3, <3>4
          DEF Next, LoadCookedShaders, CookShaders, CookIsTorn, SetCookedShadersOnly,
              Launch, Crash
  <2>5. CASE Hit
    <3> DEFINE code == Found(Within, Key).code
    <3>1. job' = With(code) /\ Right(Len(job.codes) + 1, code)
      BY <2>5, HitCode DEF Hit
    <3>2. job.at = "lookup"
      BY <2>5 DEF Hit
    <3> HIDE DEF code
    <3> QED BY <2>1, <3>1, WithCode DEF Both
  <2>6. CASE Compile
    <3> DEFINE seen == TextOf(job.program, text)
    <3>1. seen \in job.texts /\ (job' = Done(MadeOf(seen)) \/ job'.at = "insert")
      BY <2>6, CompileJob
    <3>2. job'.codes = MadeOf(seen)
      BY <3>1, MarksAssumption DEF Done
    <3> HIDE DEF seen
    <3> QED BY <3>1, <3>2, MadeRight
  <2>7. CASE Insert
    <3> DEFINE code == job.made[Len(job.codes) + 1]
    <3>1. job.at = "insert" /\ (job' = [job EXCEPT !.at = "rename"] \/ job' = With(code))
      BY <2>7 DEF Insert
    <3>2. Right(Len(job.codes) + 1, code)
      BY <3>1, InsertCode
    <3> HIDE DEF code
    <3>3. job' # [job EXCEPT !.at = "rename"]
      BY <2>1, MarksAssumption DEF Typed, JobOf
    <3> QED BY <2>1, <3>1, <3>2, <3>3, WithCode DEF Both
  <2>8. CASE Rename
    BY <2>8, RenameJob, MarksAssumption DEF Both
  <2> QED BY <2>4, <2>5, <2>6, <2>7, <2>8
<1>2. IInv /\ [Next]_vars => [Served]_vars
  BY <1>1
<1> QED BY <1>2, InitIInv, NextIInv, PTL DEF Spec, ServedIsCurrent, Right
=============================================================================
