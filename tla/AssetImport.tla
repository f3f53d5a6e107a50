---------------------------- MODULE AssetImport ----------------------------
(***************************************************************************)
(* Importing assets into a project: identities in metafiles, the assets a  *)
(* model file yields, and the pool they are loaded into                    *)
(* (engine/src/AssetImport.cpp, Import.cpp, Assets.cpp).                   *)
(*                                                                         *)
(* One project with one model and pictures that stand beside it.  An       *)
(* import is a sequence of file operations; each write is a step of its    *)
(* own that may be refused or torn, and the process may die between any    *)
(* two.  The author may act between any two as well: export the model      *)
(* again, put a file where an import puts one, delete it.  A GUID is the   *)
(* number of its minting.  Pixels and material factors are left out;       *)
(* texture references, keys and the order of the writes are kept.          *)
(***************************************************************************)
EXTENDS Integers, Sequences, FiniteSets, Vfs

CONSTANTS
    Model,       \* the glTF file
    Pictures,    \* image files beside it
    Exports,     \* what the model file may hold
    Unreadable,  \* a file that does not parse, an image that does not decode
    Embedded,    \* an image held by the model itself
    Pixels,      \* an extracted image
    Authored,    \* a generated file rewritten by the author
    NoGuid,      \* a null Guid
    MaxGuids,    \* bound: identities minted
    MaxFaults,   \* bound: failed writes and crashes
    MaxEdits     \* bound: actions of the author

ASSUME AssetImportAssumption ==
    /\ MaxGuids \in Nat /\ MaxFaults \in Nat /\ MaxEdits \in Nat
    /\ Model \notin Pictures
    /\ NoGuid \notin Nat
    /\ NoFile \notin {Unreadable, Pixels} /\ NoFile \notin [textures : SUBSET Nat]
    /\ Embedded \notin Pictures \cup {Unreadable}

VARIABLES
    export,   \* what the model file holds now
    body,     \* the generated files: .hpmat and extracted images
    meta,     \* the metafile of every asset
    minted,   \* number of GUIDs generated
    pool,     \* AssetPool of the running process
    job,      \* the import that is running
    faults, edits,
    settled   \* history: a whole import of the model went through and neither
              \* the author nor a fault has touched the project since

project == <<body, meta>>
vars == <<export, body, meta, minted, pool, job, faults, edits, settled>>

-----------------------------------------------------------------------------
(* Keys: a name is a sequence, its text and any numeric suffix.             *)

Named(names, kind) ==
    [i \in DOMAIN names |-> IF names[i] = <<>> THEN <<kind, i>> ELSE names[i]]

\* Named and unique keeps the name, the n-th of equal names gets suffix n.
StableKeys(names, kind) ==
    LET named == Named(names, kind)
        Occurrence(i) == Cardinality({j \in 1..i : named[j] = named[i]})
    IN  [i \in DOMAIN names |->
            IF Occurrence(i) = 1 THEN named[i]
            ELSE Append(named[i], Occurrence(i))]

NamesOf(s) == [i \in DOMAIN s |-> s[i].name]

\* A sub-asset is its kind and key; its path follows from them.
MaterialsOf(x) ==
    LET keys == StableKeys(NamesOf(x.materials), "material")
    IN  [i \in DOMAIN keys |-> <<"material", keys[i]>>]
ImagesOf(x) ==
    LET keys == StableKeys(NamesOf(x.images), "image")
    IN  [i \in DOMAIN keys |-> <<"image", keys[i]>>]

Elements(s) == {s[i] : i \in DOMAIN s}

Generated == UNION {Elements(MaterialsOf(x)) \cup Elements(ImagesOf(x)) : x \in Exports}
Assets == {Model} \cup Pictures \cup Generated

\* An export is two lists, materials name images by index, what is generated
\* lies in a directory of its own, and a metafile that is missing or does not
\* parse is none.
ASSUME ExportsAssumption ==
    /\ \A x \in Exports :
          /\ x.materials \in Seq(Elements(x.materials)) /\ x.images \in Seq(Elements(x.images))
          /\ \A m \in Elements(x.materials) : m.images \in Seq(DOMAIN x.images)
    /\ ({Model} \cup Pictures) \cap Generated = {}
    /\ {NoFile, Unreadable} \cap
          [guid : Nat, records : Seq([sub : Generated, guid : Nat])] = {}

-----------------------------------------------------------------------------
(* Metafiles.  The registry of sub-assets is a sequence of records.         *)

Sidecar(guid) == [guid |-> guid, records |-> <<>>]

Readable(m) == m \notin {NoFile, Unreadable}

Has(m, sub) == \E i \in DOMAIN m.records : m.records[i].sub = sub
RecordOf(m, sub) ==
    m.records[CHOOSE i \in DOMAIN m.records :
                /\ m.records[i].sub = sub
                /\ \A j \in 1..(i - 1) : m.records[j].sub # sub]

\* What a torn metafile is read as: nothing, or a registry cut short.
PartsOf(m) ==
    {Unreadable} \cup
    {[m EXCEPT !.records = SubSeq(@, 1, n)] : n \in 0..(Len(m.records) - 1)}

\* loadOrCreateAssetMeta: an unreadable metafile is answered like a missing one.
Minting(a) == ~Readable(meta[a])
\* Mutant: the registry of a metafile is not read back.
Loaded_Bare(a) == Sidecar(IF Minting(a) THEN minted + 1 ELSE meta[a].guid)
Loaded(a) == IF Minting(a) THEN Sidecar(minted + 1) ELSE meta[a]

\* Bound: no import begins that might mint more than there is room for,
\* whatever the model holds by the time it is read.
Room == \A x \in Exports : minted + 2 + Len(x.materials) + Len(x.images) <= MaxGuids

-----------------------------------------------------------------------------
(* The import that runs.  doc is the document it works on, todo the rest    *)
(* of the loop of produceEngineAssets, images the cache of imageGuid, clean *)
(* that no write failed and the author kept away; late is history: the      *)
(* files the author put there after the import had found them missing and   *)
(* before it wrote them.                                                    *)

NoJob == [at |-> "idle"]
Idle == job.at = "idle"
At(step) == job.at = step
Task(op) == At("pass") /\ job.todo # <<>> /\ Head(job.todo).op = op
Here == Head(job.todo)

Goto(step) == [job EXCEPT !.at = step]
Then(tasks) == [job EXCEPT !.at = "pass", !.todo = tasks \o Tail(@)]
Failing(j) == IF j.at = "idle" THEN j ELSE [j EXCEPT !.clean = FALSE]

\* A write of a metafile, after which the job continues with next or, where
\* it failed, with otherwise.
WriteMeta(a, m, next, otherwise) ==
    \/ /\ \E r \in Completes(meta, a, m) : meta' = r.disk
       /\ job' = next
       /\ UNCHANGED <<faults, settled>>
    \/ /\ faults < MaxFaults
       /\ faults' = faults + 1 /\ settled' = FALSE
       /\ \E r \in Failures(meta, a, PartsOf(m)) : meta' = r.disk
       /\ job' = Failing(otherwise)

\* The same for a generated file.
WriteBody(g, content, next, otherwise) ==
    \/ /\ \E r \in Completes(body, g, content) : body' = r.disk
       /\ job' = next
       /\ UNCHANGED <<faults, settled>>
    \/ /\ faults < MaxFaults
       /\ faults' = faults + 1 /\ settled' = FALSE
       /\ \E r \in Failures(body, g, {Unreadable}) : body' = r.disk
       /\ job' = Failing(otherwise)

Finish == job' = NoJob

-----------------------------------------------------------------------------
(* importAsset.                                                             *)

\* The identity comes first, whatever becomes of the load.
Import(a) ==
    /\ Idle
    /\ Room
    /\ job' = [at |-> IF Exists(meta, a) THEN "load" ELSE "persist",
               asset |-> a, meta |-> Loaded(a), doc |-> export, todo |-> <<>>,
               changed |-> FALSE, images |-> <<>>, clean |-> TRUE, late |-> {}]
    /\ minted' = IF Minting(a) THEN minted + 1 ELSE minted
    /\ UNCHANGED <<export, body, meta, pool, faults, edits, settled>>

Persist ==
    /\ At("persist")
    /\ WriteMeta(job.asset, job.meta, Goto("load"), Goto("load"))
    /\ UNCHANGED <<export, body, minted, pool, edits>>

\* A picture that cannot be decoded is stored as the placeholder; a model
\* that cannot be loaded is not stored.
LoadPicture ==
    /\ At("load")
    /\ job.asset \in Pictures
    /\ pool' = pool \cup {<<job.asset, job.meta.guid>>}
    /\ Finish
    /\ UNCHANGED <<export, body, meta, minted, faults, edits, settled>>

LoadModel ==
    /\ At("load")
    /\ job.asset = Model
    /\ \/ /\ pool' = pool \cup {<<Model, job.meta.guid>>}
          /\ job' = Goto("produce")
       \/ Finish /\ UNCHANGED pool
    /\ UNCHANGED <<export, body, meta, minted, faults, edits, settled>>

-----------------------------------------------------------------------------
(* produceEngineAssets.                                                     *)

Tasks(op, n) == [i \in 1..n |-> [op |-> op, nr |-> i]]

\* The model file and its metafile are read a second time; what is parsed now
\* is the document of the whole pass.
Produce ==
    /\ At("produce")
    /\ job' = [job EXCEPT
                 !.at = "pass", !.meta = Loaded(Model), !.doc = export,
                 !.todo = Tasks("material", Len(export.materials))
                          \o Tasks("image", Len(export.images))]
    /\ minted' = IF Minting(Model) THEN minted + 1 ELSE minted
    /\ UNCHANGED <<export, body, meta, pool, faults, edits, settled>>

\* A model that cannot be read this time yields nothing.
GiveUp ==
    /\ At("produce")
    /\ Finish
    /\ UNCHANGED <<export, body, meta, minted, pool, faults, edits, settled>>

\* registryGuid: the record of a sub-asset, minted where there is none.
Registered(m, sub, guid) ==
    IF Has(m, sub) THEN m
    ELSE [m EXCEPT !.records = Append(@, [sub |-> sub, guid |-> guid])]
\* Mutant: a new record does not mark the registry as changed.
Register_Unmarked(j, sub) == [j EXCEPT !.meta = Registered(@, sub, minted + 1)]
Register(j, sub) ==
    [j EXCEPT !.meta = Registered(@, sub, minted + 1),
              !.changed = @ \/ ~Has(j.meta, sub)]
Mints(sub) == minted' = IF Has(job.meta, sub) THEN minted ELSE minted + 1

\* Extract once: a file that is there is left alone, whatever it holds.
\* Mutant: the sidecar is looked for in place of the file.
Kept_Sidecar(sub) == Exists(meta, sub)
Kept(sub) == Exists(body, sub)

Material ==
    /\ Task("material")
    /\ LET sub == MaterialsOf(job.doc)[Here.nr]
           used == job.doc.materials[Here.nr].images
           slots == [i \in DOMAIN used |-> [op |-> "image", nr |-> used[i]]]
           rest == <<[op |-> "sidecar", sub |-> sub]>>
       IN  /\ Mints(sub)
           /\ job' = Register(Then(IF Kept(sub) THEN rest
                                   ELSE slots \o <<[op |-> "write", nr |-> Here.nr]>> \o rest),
                              sub)
    /\ UNCHANGED <<export, body, meta, pool, faults, edits, settled>>

\* A .hpmat names its textures by identity.
Mapped(m) == [textures |-> {job.images[i] : i \in Elements(m.images)} \ {NoGuid}]

\* A material that cannot be written gets no sidecar; its record stays.
WriteMaterial ==
    /\ Task("write")
    /\ WriteBody(MaterialsOf(job.doc)[Here.nr], Mapped(job.doc.materials[Here.nr]),
                 Then(<<>>), [job EXCEPT !.todo = Tail(Tail(@))])
    /\ UNCHANGED <<export, meta, minted, pool, edits>>

\* Mutant: any sidecar that can be read will do.
Agrees_Readable(sub, guid) == Readable(meta[sub])
Agrees(sub, guid) == Readable(meta[sub]) /\ meta[sub].guid = guid

\* The registry wins over a sidecar that says otherwise.
WriteSidecar ==
    /\ Task("sidecar")
    /\ LET guid == RecordOf(job.meta, Here.sub).guid
       IN  IF Agrees(Here.sub, guid)
           THEN job' = Then(<<>>) /\ UNCHANGED <<meta, faults, settled>>
           ELSE WriteMeta(Here.sub, Sidecar(guid), Then(<<>>), Then(<<>>))
    /\ UNCHANGED <<export, body, minted, pool, edits>>

Caching(j, i, guid) == [j EXCEPT !.images = [k \in DOMAIN @ \cup {i} |->
                                               IF k = i THEN guid ELSE @[k]]]

\* imageGuid of an image met before, or one that cannot be read.
ImageKnown ==
    /\ Task("image")
    /\ \/ /\ Here.nr \in DOMAIN job.images
          /\ job' = Then(<<>>)
       \/ /\ Here.nr \notin DOMAIN job.images
          /\ job.doc.images[Here.nr].holds = Unreadable
          /\ job' = Caching(Then(<<>>), Here.nr, NoGuid)
    /\ UNCHANGED <<export, body, meta, minted, pool, faults, edits, settled>>

\* An image file beside the model has an identity of its own.
ImageBeside ==
    /\ Task("image")
    /\ Here.nr \notin DOMAIN job.images
    /\ LET p == job.doc.images[Here.nr].holds
           next == Caching(Then(<<>>), Here.nr, Loaded(p).guid)
       IN  /\ p \in Pictures
           /\ minted' = IF Minting(p) THEN minted + 1 ELSE minted
           /\ IF Exists(meta, p)
              THEN job' = next /\ UNCHANGED <<meta, faults, settled>>
              ELSE WriteMeta(p, Loaded(p), next, next)
    /\ UNCHANGED <<export, body, pool, edits>>

\* An embedded image is extracted unless its file is there.
ImageEmbedded ==
    /\ Task("image")
    /\ Here.nr \notin DOMAIN job.images
    /\ job.doc.images[Here.nr].holds = Embedded
    /\ LET sub == ImagesOf(job.doc)[Here.nr]
           known == Register(job, sub)
           rest == <<[op |-> "sidecar", sub |-> sub]>>
       IN  /\ Mints(sub)
           /\ job' = IF Kept(sub)
                     THEN Caching(Register(Then(rest), sub), Here.nr,
                                  RecordOf(known.meta, sub).guid)
                     ELSE Register(Goto("extract"), sub)
    /\ UNCHANGED <<export, body, meta, pool, faults, edits, settled>>

\* One that cannot be written has no identity in this pass, although its record
\* was minted.
Extract ==
    /\ At("extract")
    /\ LET sub == ImagesOf(job.doc)[Here.nr]
           rest == <<[op |-> "sidecar", sub |-> sub]>>
       IN  WriteBody(sub, Pixels,
                     Caching(Then(rest), Here.nr, RecordOf(job.meta, sub).guid),
                     Caching(Then(<<>>), Here.nr, NoGuid))
    /\ UNCHANGED <<export, meta, minted, pool, edits>>

\* The registry is written last, and only where a record was added.
WriteRegistry ==
    /\ At("pass")
    /\ job.todo = <<>>
    /\ IF job.changed
       THEN WriteMeta(Model, job.meta, Goto("end"), Goto("end"))
       ELSE job' = Goto("end") /\ UNCHANGED <<meta, faults, settled>>
    /\ UNCHANGED <<export, body, minted, pool, edits>>

Return ==
    /\ At("end")
    /\ Finish
    /\ settled' = job.clean
    /\ UNCHANGED <<export, body, meta, minted, pool, faults, edits>>

ImportStep ==
    \/ Persist \/ LoadPicture \/ LoadModel \/ Produce \/ GiveUp \/ Material
    \/ WriteMaterial \/ WriteSidecar \/ ImageKnown \/ ImageBeside
    \/ ImageEmbedded \/ Extract \/ WriteRegistry \/ Return

-----------------------------------------------------------------------------
(* The author, and the end of the process.                                  *)

Edits == edits < MaxEdits /\ edits' = edits + 1 /\ settled' = FALSE

Reexport ==
    /\ Edits
    /\ export' \in Exports \ {export}
    /\ job' = Failing(job)
    /\ UNCHANGED <<body, meta, minted, pool, faults>>

\* The import has found a file missing and has yet to write it.
Awaited(j, g) ==
    \/ j.at = "extract" /\ ImagesOf(j.doc)[Head(j.todo).nr] = g
    \/ /\ j.at \in {"pass", "extract"}
       /\ \E i \in DOMAIN j.todo :
             j.todo[i].op = "write" /\ MaterialsOf(j.doc)[j.todo[i].nr] = g

\* A file of the author's takes the place of what was there, if anything was.
EditFile(g) ==
    /\ Edits
    /\ body' = [body EXCEPT ![g] = Authored]
    /\ job' = IF Awaited(job, g) THEN [Failing(job) EXCEPT !.late = @ \cup {g}]
              ELSE Failing(job)
    /\ UNCHANGED <<export, meta, minted, pool, faults>>

DeleteFile(g) ==
    /\ Edits
    /\ Exists(body, g)
    /\ body' = Removed(body, g)
    /\ job' = Failing(job)
    /\ UNCHANGED <<export, meta, minted, pool, faults>>

\* The editor is closed, or dies in the middle of an import.
Restart ==
    /\ IF Idle THEN UNCHANGED <<faults, settled>>
       ELSE faults < MaxFaults /\ faults' = faults + 1 /\ settled' = FALSE
    /\ pool' = {}
    /\ job' = NoJob
    /\ UNCHANGED <<export, body, meta, minted, edits>>

Init ==
    /\ export \in Exports
    /\ body = [g \in Generated |-> NoFile]
    /\ meta = [a \in Assets |-> NoFile]
    /\ minted = 0
    /\ pool = {}
    /\ job = NoJob
    /\ faults = 0 /\ edits = 0
    /\ settled = FALSE

Next ==
    \/ \E a \in {Model} \cup Pictures : Import(a)
    \/ ImportStep
    \/ Reexport
    \/ \E g \in Generated : EditFile(g) \/ DeleteFile(g)
    \/ Restart

Spec == Init /\ [][Next]_vars

-----------------------------------------------------------------------------
(* Properties.                                                              *)

Metafiles ==
    [guid : 1..MaxGuids,
     records : Seq([sub : Generated, guid : 1..MaxGuids])]

\* Every file holds something an import, a fault or the author can have put
\* there, and no identity is used that was not minted.
TypeOK ==
    /\ export \in Exports
    /\ minted \in 0..MaxGuids /\ faults \in 0..MaxFaults /\ edits \in 0..MaxEdits
    /\ \A g \in Generated :
         body[g] \in {NoFile, Unreadable, Pixels, Authored}
                    \cup [textures : SUBSET (1..minted)]
    /\ \A a \in Assets : Readable(meta[a]) => meta[a] \in Metafiles
    /\ pool \subseteq ({Model} \cup Pictures) \X (1..minted)
    /\ settled \in BOOLEAN

\* "Only a file that does not exist is written, so an author's edits survive
\* every re-import structurally" (Import.cpp): whatever the author does while
\* an import runs, the import writes over no file that is there, but one the
\* author put there after the import had looked for it and before it wrote.
Overtaken == IF Idle THEN {} ELSE job.late
ExtractOnce ==
    [][edits' = edits =>
         \A g \in Generated \ Overtaken : Exists(body, g) => body'[g] = body[g]]_vars

\* The identity of an asset and the records of its sub-assets, once on disk,
\* are never minted again, renumbered or dropped, unless a write is torn.
RegistryPermanent ==
    [][faults' = faults =>
         \A a \in {Model} \cup Pictures : Readable(meta[a]) =>
            /\ Readable(meta'[a])
            /\ meta'[a].guid = meta[a].guid
            /\ \E n \in 0..Len(meta'[a].records) :
                  meta[a].records = SubSeq(meta'[a].records, 1, n)]_vars

Produced(x) ==
    Elements(MaterialsOf(x)) \cup
    {ImagesOf(x)[i] : i \in {k \in DOMAIN x.images : x.images[k].holds = Embedded}}

\* After an import whose writes all went through, whatever had happened to
\* the project before, every file of the model is there and its sidecar
\* names the identity the registry has for it.
SidecarsAgree ==
    settled => \A sub \in Produced(export) :
        /\ Exists(body, sub)
        /\ Readable(meta[sub]) /\ Readable(meta[Model])
        /\ Has(meta[Model], sub)
        /\ meta[sub].guid = RecordOf(meta[Model], sub).guid

References(b) == IF b \in {NoFile, Unreadable, Pixels, Authored} THEN {} ELSE b.textures
Identities == {meta[a].guid : a \in {b \in Assets : Readable(meta[b])}}

\* As long as no write has failed and no import has been cut short, through
\* every re-export and every deletion, the textures a generated material
\* names and the assets of the pool are those of the metafiles.
IdentitiesHold ==
    faults = 0 /\ Idle =>
        /\ \A g \in Generated : References(body[g]) \subseteq Identities
        /\ \A p \in pool : Readable(meta[p[1]]) /\ meta[p[1]].guid = p[2]

\* The header of Assets.hpp: "minting and writing one when absent, so the
\* identity survives the next open", and "the same response as a missing one"
\* of a malformed metafile.  An import that ran to its end without a failed
\* write leaves the identity it gave the model on disk.
IdentitySurvives ==
    At("end") /\ job.clean =>
        \E p \in pool : p[1] = Model /\ Readable(meta[Model]) /\ meta[Model].guid = p[2]
=============================================================================
