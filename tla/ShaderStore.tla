---------------------------- MODULE ShaderStore ----------------------------
(***************************************************************************)
(* Compiled shaders and where they are kept (ShaderCook.cpp,               *)
(* ShaderStore.hpp, the compile path of SlangCompiler.cpp and the source   *)
(* factory of ShaderSources.cpp).                                          *)
(*                                                                         *)
(* One function turns a program into code, one module per stage. Two       *)
(* stores stand in front of it: the archives a cook wrote, which ship as   *)
(* content, and a developer cache beside the executable. Both find an      *)
(* entry by a hash of the program's text and of all that it includes, and  *)
(* the text a game's own module contributes may be edited at any time;     *)
(* the engine's text is part of the build. In cooked-only mode the         *)
(* archives are all there is.                                              *)
(***************************************************************************)
EXTENDS Naturals, FiniteSets, Sequences

CONSTANTS
    Programs,               \* the programs that are compiled
    Authored,               \* those that include the game's module
    Missing,                \* those whose file is not among the sources
    Texts,                  \* what the file of the game's module may hold
    Broken,                 \* the texts that do not compile
    Builds,                 \* the builds of the engine
    CompilerOf,             \* the compiler each build was pinned to
    Machines,               \* what a process finds: a compiler, a cache, the
                            \* HP_COOKED_SHADERS of its environment
    Archives,               \* the names of the cooked archives, in order
    NoFile, Torn,           \* a file (a store) that is not there; one cut short
    Undecided,              \* a policy not resolved
    Idle,                   \* no program is being compiled
    MaxLaunches, MaxEdits, MaxCooks   \* bounds

ASSUME ProgramsAssumption == Authored \subseteq Programs
ASSUME TextsAssumption == Broken \subseteq Texts
ASSUME MachinesAssumption ==
    Machines \subseteq [slang : BOOLEAN, keeps : BOOLEAN, env : {"unset", "0", "1"}]
ASSUME ArchivesAssumption == Archives \subseteq Nat
ASSUME BoundsAssumption ==
    MaxLaunches \in Nat /\ MaxEdits \in Nat /\ MaxCooks \in Nat

VARIABLES
    text,       \* the game's module on disk
    edits,      \* how often it was edited
    cooks,      \* how often an archive was written
    launches,   \* how many processes there have been
    process,    \* the running process, or NoFile
    devFile,    \* the developer cache's file, one per compiler
    archive,    \* the archives on disk
    cooked,     \* the archives' entries as loaded, one store or none
    dev,        \* the developer cache in memory
    inserted,   \* this process has compiled something it kept
    policy,     \* cooked-only or not, resolved on first use
    job,        \* the compile in hand; as history, the texts its files held
    raced,      \* history: the keys under which something was kept after its
                \* source was edited since the compiler read it
    rendered,   \* history: the keys of what this process found or kept
    promised,   \* history: per archive, the keys its cook had rendered
    owed        \* history: the keys promised by the archives loaded last

vars == <<text, edits, cooks, launches, process, devFile, archive, cooked, dev,
          inserted, policy, job, raced, rendered, promised, owed>>
disk == <<text, edits, cooks, archive, promised>>
session == <<launches, process, owed>>

Stages == <<"vertex", "pixel">>

Processes == [build : Builds, slang : BOOLEAN, keeps : BOOLEAN, env : {"unset", "0", "1"}]

\* What marks that something is not there is none of what could be.
ASSUME MarksAssumption ==
    /\ Idle \notin {"lookup", "compile", "insert", "rename"}
    /\ NoFile \notin Processes

-----------------------------------------------------------------------------
(* Keys and code.                                                          *)

\* The text of the game's module as a program sees it: the factory looks a
\* name up among the engine's embedded files first, then in the file system.
TextOf(program, t) == IF program \in Authored THEN t ELSE NoFile

\* Mutant: the hash covers the file and not what it includes.
KeyOf_Unwalked(program, stage, build, t) ==
    [program |-> program, stage |-> stage, engine |-> build, module |-> NoFile]

\* What a variant is looked up by: file, entry point and stage, and the
\* hashed text of it and of every include.
KeyOf(program, stage, build, t) ==
    [program |-> program, stage |-> stage, engine |-> build, module |-> TextOf(program, t)]

\* What compiling a stage gives: it depends on all of that and the compiler.
CodeOf(program, stage, build, t) ==
    [program |-> program, stage |-> stage, engine |-> build, module |-> TextOf(program, t),
     compiler |-> CompilerOf[build]]

Compiles(program, t) == ~(program \in Authored /\ t \in Broken)

Holds(store, key) == \E entry \in store : entry.key = key
Found(store, key) == CHOOSE entry \in store : entry.key = key

\* Loading merges, and keeps what is there already.
Merge(store, other) ==
    store \union {entry \in other : ~Holds(store, entry.key)}

\* Adding replaces.
Put(store, key, code) ==
    {entry \in store : entry.key # key} \union {[key |-> key, code |-> code]}

Entries(store) == IF store = NoFile THEN {} ELSE store

-----------------------------------------------------------------------------
(* The cooked archives.                                                    *)

\* Mutant: any compiler's archive is taken.
Usable_Any(name) == archive[name] \notin {NoFile, Torn}

\* An archive is refused when it was cut short, or when another compiler
\* than this build's wrote it.
Usable(name) ==
    /\ archive[name] \notin {NoFile, Torn}
    /\ archive[name].compiler = CompilerOf[process.build]

\* All that can be used are merged, in the order of their names.
LoadCookedShaders ==
    /\ process # NoFile
    /\ LET usable == {name \in Archives : Usable(name)}
           first(name) ==
               {entry \in archive[name].entries :
                    ~\E other \in usable : other < name /\ Holds(archive[other].entries, entry.key)}
       IN /\ cooked' = IF usable = {} THEN {} ELSE {UNION {first(name) : name \in usable}}
          /\ owed' = UNION {promised[name] : name \in usable}
    /\ rendered' = {key \in rendered : Holds((UNION cooked') \union dev, key)}
    /\ UNCHANGED <<disk, launches, process, devFile, dev, inserted, policy, job, raced>>

\* Mutant: the cook seals what was compiled, not what was cooked before.
Sealed_Compiled == dev

\* What a cook seals: what was cooked already and what the cache holds.
Sealed == Merge(UNION cooked, dev)

\* Nothing to seal: the cache is off, or nothing was compiled or loaded.
MayCook == process.keeps /\ (inserted \/ cooked # {})

\* The archive is written in place.
CookShaders(name) ==
    /\ process # NoFile /\ MayCook
    /\ cooks < MaxCooks /\ cooks' = cooks + 1
    /\ archive' = [archive EXCEPT ![name] =
                       [compiler |-> CompilerOf[process.build], entries |-> Sealed]]
    /\ promised' = [promised EXCEPT ![name] = rendered]
    /\ UNCHANGED <<text, edits, session, devFile, cooked, dev, inserted, policy, job, raced, rendered>>

-----------------------------------------------------------------------------
(* Compiling a program.                                                    *)

Resolved == IF policy = Undecided
            THEN (IF process.env = "unset" THEN ~process.slang ELSE process.env = "1")
            ELSE policy

SetCookedShadersOnly(only) ==
    /\ process # NoFile
    /\ policy' = only
    /\ UNCHANGED <<disk, session, devFile, cooked, dev, inserted, job, raced, rendered>>

Done(codes) == [at |-> Idle, program |-> Idle, only |-> FALSE, keep |-> FALSE,
                codes |-> codes, made |-> <<>>, texts |-> {}]
NoJob == Done(<<>>)

\* A lookup that cannot hit is not made; and when the caller wants the
\* program reflected, the stores are passed over unless they are all there is.
Begin(program) ==
    /\ process # NoFile /\ job.at = Idle /\ program \notin Missing
    /\ policy' = Resolved
    /\ LET active == Resolved \/ cooked # {} \/ process.keeps
           reflect == program \in Authored
       IN job' = [at |-> IF active /\ (~reflect \/ Resolved) THEN "lookup" ELSE "compile",
                  program |-> program, only |-> Resolved, keep |-> active,
                  codes |-> <<>>, made |-> <<>>, texts |-> {TextOf(program, text)}]
    /\ UNCHANGED <<disk, session, devFile, cooked, dev, inserted, raced, rendered>>

\* The policy is resolved before the file is looked for.
NotFound(program) ==
    /\ process # NoFile /\ job.at = Idle /\ program \in Missing
    /\ policy' = Resolved /\ job' = NoJob
    /\ UNCHANGED <<disk, session, devFile, cooked, dev, inserted, raced, rendered>>

\* The stage the job is at, and its key as of now: the files are read again.
Stage == Stages[Len(job.codes) + 1]
Key == KeyOf(job.program, Stage, process.build, text)

\* The job with one more stage's code, done after the last.
With(code) ==
    LET codes == Append(job.codes, code)
    IN IF Len(codes) = Len(Stages) THEN Done(codes) ELSE [job EXCEPT !.codes = codes]

\* Cooked archives first; the developer cache only when they are not all.
Within == Merge(UNION cooked, IF job.only THEN {} ELSE dev)

Hit ==
    /\ job.at = "lookup" /\ Holds(Within, Key)
    /\ job' = With(Found(Within, Key).code)
    /\ rendered' = rendered \union {Key}
    /\ UNCHANGED <<disk, session, devFile, cooked, dev, inserted, policy, raced>>

\* Every stage or none: one that is missing drops what was found.
Miss ==
    /\ job.at = "lookup" /\ ~Holds(Within, Key)
    /\ job' = [job EXCEPT !.codes = <<>>, !.at = "compile"]
    /\ UNCHANGED <<disk, session, devFile, cooked, dev, inserted, policy, raced, rendered>>

\* A miss is fatal where nothing compiles.
CompileFails ==
    /\ job.at = "compile"
    /\ job.only \/ ~process.slang \/ ~Compiles(job.program, text)
    /\ job' = NoJob
    /\ UNCHANGED <<disk, session, devFile, cooked, dev, inserted, policy, raced, rendered>>

\* The compiler reads the program's files as they are now.
Compile ==
    /\ job.at = "compile"
    /\ ~job.only /\ process.slang /\ Compiles(job.program, text)
    /\ LET made == [i \in 1..Len(Stages) |->
                        CodeOf(job.program, Stages[i], process.build, text)]
       IN job' = IF job.keep /\ process.keeps
                 THEN [job EXCEPT !.at = "insert", !.made = made, !.texts = {TextOf(job.program, text)}]
                 ELSE Done(made)
    /\ UNCHANGED <<disk, session, devFile, cooked, dev, inserted, policy, raced, rendered>>

\* What was compiled is kept, and written through: to another file, which
\* then takes the place of the old one once that is removed. The key is of
\* the files as they are by now.
Insert ==
    /\ job.at = "insert"
    /\ LET code == job.made[Len(job.codes) + 1]
       IN /\ dev' = Put(dev, Key, code)
          /\ \/ /\ job' = [job EXCEPT !.at = "rename"]
                /\ devFile' = [devFile EXCEPT ![CompilerOf[process.build]] = NoFile]
             \/ job' = With(code) /\ UNCHANGED devFile     \* it could not be, or the old not removed
    /\ inserted' = TRUE
    /\ raced' = raced \union (IF job.texts = {TextOf(job.program, text)} THEN {} ELSE {Key})
    /\ rendered' = rendered \union {Key}
    /\ UNCHANGED <<disk, session, cooked, policy>>

\* One that fails leaves what is there.
Rename ==
    /\ job.at = "rename"
    /\ job' = [With(job.made[Len(job.codes) + 1]) EXCEPT
                   !.at = IF @ = Idle THEN Idle ELSE "insert"]
    /\ \/ devFile' = [devFile EXCEPT ![CompilerOf[process.build]] = dev]
       \/ UNCHANGED devFile
    /\ UNCHANGED <<disk, session, cooked, dev, inserted, policy, raced, rendered>>

-----------------------------------------------------------------------------
(* Around the process.                                                     *)

\* The cache named after this build's compiler is read, if it is there.
Launch(build, machine) ==
    /\ process = NoFile /\ launches < MaxLaunches
    /\ launches' = launches + 1
    /\ process' = [build |-> build, slang |-> machine.slang,
                   keeps |-> machine.keeps, env |-> machine.env]
    /\ dev' = IF machine.keeps THEN Entries(devFile[CompilerOf[build]]) ELSE {}
    /\ UNCHANGED <<disk, devFile, cooked, inserted, policy, job, raced, rendered, owed>>

Gone ==
    /\ process' = NoFile
    /\ cooked' = {} /\ dev' = {} /\ inserted' = FALSE
    /\ policy' = Undecided /\ job' = NoJob
    /\ rendered' = {} /\ owed' = {}

\* The process ends, at any point of a compile.
Crash ==
    /\ process # NoFile
    /\ Gone
    /\ UNCHANGED <<disk, launches, devFile, raced>>

\* An archive is left cut short: the process ended while it wrote one, or
\* the write failed and the process goes on.
CookIsTorn(name) ==
    /\ process # NoFile /\ MayCook
    /\ cooks < MaxCooks /\ cooks' = cooks + 1
    /\ archive' = [archive EXCEPT ![name] = Torn]
    /\ promised' = [promised EXCEPT ![name] = {}]
    /\ \/ Gone
       \/ UNCHANGED <<process, cooked, dev, inserted, policy, job, rendered, owed>>
    /\ UNCHANGED <<text, edits, launches, devFile, raced>>

\* The game's module is edited, at any time.
Edit(t) ==
    /\ edits < MaxEdits /\ t # text
    /\ text' = t /\ edits' = edits + 1
    /\ job' = IF job.at = Idle THEN job
              ELSE [job EXCEPT !.texts = @ \union {TextOf(job.program, t)}]
    /\ UNCHANGED <<cooks, session, devFile, archive, cooked, dev, inserted, policy,
                   raced, rendered, promised>>

Init ==
    /\ text \in Texts /\ edits = 0 /\ cooks = 0 /\ launches = 0
    /\ process = NoFile
    /\ devFile = [c \in {CompilerOf[b] : b \in Builds} |-> NoFile]
    /\ archive = [name \in Archives |-> NoFile]
    /\ cooked = {} /\ dev = {} /\ inserted = FALSE
    /\ policy = Undecided /\ job = NoJob /\ raced = {}
    /\ rendered = {} /\ owed = {}
    /\ promised = [name \in Archives |-> {}]

Next ==
    \/ LoadCookedShaders
    \/ \E name \in Archives : CookShaders(name) \/ CookIsTorn(name)
    \/ \E only \in BOOLEAN : SetCookedShadersOnly(only)
    \/ \E program \in Programs : Begin(program) \/ NotFound(program)
    \/ Hit \/ Miss \/ Compile \/ CompileFails \/ Insert \/ Rename
    \/ \E build \in Builds, machine \in Machines : Launch(build, machine)
    \/ Crash
    \/ \E t \in Texts : Edit(t)

Spec == Init /\ [][Next]_vars

-----------------------------------------------------------------------------
(* Correctness.                                                            *)

\* The entries of a store that are not what the compiler of the store makes
\* of the very text that their keys hash.
Unsound(store, compiler) ==
    {entry \in store :
        entry.code # [program |-> entry.key.program, stage |-> entry.key.stage,
                      engine |-> entry.key.engine, module |-> entry.key.module,
                      compiler |-> compiler]}

\* All such entries: of the running process (there are none without one), of
\* the developer caches and of the archives.
Mislabelled ==
    UNION ({Unsound((UNION cooked) \union dev, CompilerOf[process.build])}
           \union {Unsound(Entries(devFile[c]), c) : c \in DOMAIN devFile}
           \union {Unsound(archive[name].entries, archive[name].compiler) :
                     name \in {n \in Archives : archive[n] \notin {NoFile, Torn}}})

\* What an entry is found by tells what the compiler saw: the code under a
\* key was made from the very text that the key hashes, by the compiler of
\* the file it is kept in; except where a source was edited between the
\* compiler's reading of it and the store's.
HashCoversWhatCompilerSaw == \A entry \in Mislabelled : entry.key \in raced

\* Without that exception (the reads are apart, so an edit between them does
\* keep the code of one text under the key of the other).
HashNamesItsCode == Mislabelled = {}

\* A program is served, stage by stage, the code of a text that its files
\* held since the stores, or the compiler, were asked for it, by this build's
\* compiler: whichever store it comes from and whatever was edited, cooked or
\* upgraded before. Where nothing was edited meanwhile that is one text, the
\* current one. Only a key that a race spoiled may give something else.
ServedIsCurrent ==
    [][job.at # Idle /\ job'.at = Idle /\ job'.codes # <<>>
       => \A i \in 1..Len(Stages) : \E t \in job.texts :
            \/ job'.codes[i] = CodeOf(job.program, Stages[i], process.build, t)
            \/ KeyOf(job.program, Stages[i], process.build, t) \in raced]_vars

\* Content that was cooked renders where nothing compiles: cooked-only mode
\* never misses what the cook of an archive that is loaded had rendered.
PromiseKept ==
    [][job.at = "lookup" /\ job'.at = "compile" /\ job.only => Key \notin owed]_vars
=============================================================================
