------------------------- MODULE AssetImport_proofs -------------------------
(***************************************************************************)
(* That an import writes over nothing that is there, that identities on    *)
(* disk stay what they were, that a whole import leaves every file with a  *)
(* sidecar the registry agrees with, and that what names an asset names    *)
(* one there is: for any model files, any pictures and whatever the author *)
(* does between imports and while one runs.                                *)
(*                                                                         *)
(* IInv is what the running import knows of the disk: nothing but the      *)
(* import changes a metafile while it runs, so the registry it holds goes  *)
(* on from the one on disk, and a file it is about to write is not there,  *)
(* unless the author has put it there since.                               *)
(* DInv adds what a pass has made and what is still to come, HInv what     *)
(* holds until a write fails.                                              *)
(***************************************************************************)
EXTENDS AssetImport, TLAPS, WellFoundedInduction

Sources == {Model} \cup Pictures
Metas == [guid : Nat, records : Seq([sub : Generated, guid : Nat])]

TasksOf(x) ==
    [op : {"material", "write"}, nr : DOMAIN x.materials]
    \cup [op : {"image"}, nr : DOMAIN x.images]
    \cup [op : {"sidecar"}, sub : Generated]

\* An import in progress; of the flags and the cache of images nothing is said.
JobOf(j) ==
    [at |-> j.at, asset |-> j.asset, meta |-> j.meta, doc |-> j.doc, todo |-> j.todo,
     changed |-> j.changed, images |-> j.images, clean |-> j.clean, late |-> j.late]
JobOK(j) ==
    /\ j = JobOf(j)
    /\ j.at \in {"persist", "load", "produce", "pass", "extract", "end"}
    /\ j.asset \in Sources
    /\ j.meta \in Metas
    /\ j.doc \in Exports
    /\ j.todo \in Seq(TasksOf(j.doc))

Typed ==
    /\ export \in Exports /\ minted \in Nat /\ faults \in Nat
    /\ body = [g \in Generated |-> body[g]]
    /\ meta = [a \in Assets |-> meta[a]]
    /\ \A a \in Sources : meta[a] \in Metas \cup {NoFile, Unreadable}
    /\ job = NoJob \/ JobOK(job)

-----------------------------------------------------------------------------
(* The inductive invariant.                                                 *)

\* One registry goes on from another: what was there is there, in its place.
Extends(m, before) ==
    /\ m.guid = before.guid
    /\ Len(before.records) <= Len(m.records)
    /\ \A i \in 1..Len(before.records) : m.records[i] = before.records[i]

\* The files as the import has seen them: without those the author put there
\* after it had looked.
Seen == [g \in Generated |-> IF g \in job.late THEN NoFile ELSE body[g]]

\* A material that is to be written was not there, and no other material has
\* its turn before it.
Pending(todo, files) ==
    \A i \in DOMAIN todo : todo[i].op = "write" =>
        /\ files[MaterialsOf(job.doc)[todo[i].nr]] = NoFile
        /\ i < Len(todo)
        /\ \A j \in 1..i - 1 : todo[j].op \in {"image", "sidecar"}

\* An image that is about to be extracted has its turn and its record, and
\* was not there.
Waiting(j, files) ==
    /\ j.todo # <<>> /\ Head(j.todo).op = "image"
    /\ Head(j.todo).nr \notin DOMAIN j.images
    /\ j.doc.images[Head(j.todo).nr].holds = Embedded
    /\ Has(j.meta, ImagesOf(j.doc)[Head(j.todo).nr])
    /\ files[ImagesOf(j.doc)[Head(j.todo).nr]] = NoFile

Knows ==
    /\ At("persist") => ~Exists(meta, job.asset)
    /\ At("pass") \/ At("extract") =>
          /\ Readable(meta[Model]) => Extends(job.meta, meta[Model])
          /\ Pending(job.todo, Seen)
    /\ At("extract") => Waiting(job, Seen)

IInv == Typed /\ Knows

-----------------------------------------------------------------------------
(* What an export yields.                                                   *)

LEMMA Keys ==
  ASSUME NEW x \in Exports
  PROVE  /\ DOMAIN MaterialsOf(x) = DOMAIN x.materials
         /\ DOMAIN ImagesOf(x) = DOMAIN x.images
         /\ DOMAIN x.materials = 1..Len(x.materials) /\ Len(x.materials) \in Nat
         /\ DOMAIN x.images = 1..Len(x.images) /\ Len(x.images) \in Nat
         /\ \A i \in DOMAIN x.materials :
               MaterialsOf(x)[i] \in Generated /\ MaterialsOf(x)[i][1] = "material"
         /\ \A i \in DOMAIN x.images :
               ImagesOf(x)[i] \in Generated /\ ImagesOf(x)[i][1] = "image"
         /\ \A i \in DOMAIN x.materials :
               x.materials[i].images \in Seq(DOMAIN x.images)
<1>1. /\ DOMAIN x.materials = 1..Len(x.materials) /\ Len(x.materials) \in Nat
      /\ DOMAIN x.images = 1..Len(x.images) /\ Len(x.images) \in Nat
  BY ExportsAssumption
<1>2. \A i \in DOMAIN x.materials : x.materials[i].images \in Seq(DOMAIN x.images)
  BY ExportsAssumption DEF Elements
<1>3. /\ DOMAIN MaterialsOf(x) = DOMAIN x.materials
      /\ \A i \in DOMAIN x.materials : MaterialsOf(x)[i][1] = "material"
  BY DEF MaterialsOf, StableKeys, Named, NamesOf
<1>4. /\ DOMAIN ImagesOf(x) = DOMAIN x.images
      /\ \A i \in DOMAIN x.images : ImagesOf(x)[i][1] = "image"
  BY DEF ImagesOf, StableKeys, Named, NamesOf
<1>5. /\ \A i \in DOMAIN MaterialsOf(x) : MaterialsOf(x)[i] \in Generated
      /\ \A i \in DOMAIN ImagesOf(x) : ImagesOf(x)[i] \in Generated
  BY DEF Generated, Elements
<1> QED BY <1>1, <1>2, <1>3, <1>4, <1>5

-----------------------------------------------------------------------------
(* What is changed in a job, and what is not.                               *)

LEMMA NewTodo ==
  ASSUME NEW j, JobOK(j), NEW todo \in Seq(TasksOf(j.doc))
  PROVE  LET k == [j EXCEPT !.todo = todo]
         IN  /\ JobOK(k) /\ k.todo = todo
             /\ k.at = j.at /\ k.asset = j.asset /\ k.meta = j.meta
             /\ k.doc = j.doc /\ k.late = j.late
BY DEF JobOK, JobOf

LEMMA NewStep ==
  ASSUME NEW j, JobOK(j), NEW step \in {"persist", "load", "produce", "pass", "extract", "end"}
  PROVE  LET k == [j EXCEPT !.at = step]
         IN  /\ JobOK(k) /\ k.at = step
             /\ k.todo = j.todo /\ k.asset = j.asset /\ k.meta = j.meta
             /\ k.doc = j.doc /\ k.late = j.late
BY DEF JobOK, JobOf

LEMMA NewTurn ==
  ASSUME NEW j, JobOK(j), NEW todo \in Seq(TasksOf(j.doc))
  PROVE  LET k == [j EXCEPT !.at = "pass", !.todo = todo]
         IN  /\ JobOK(k) /\ k.todo = todo
             /\ k.at = "pass" /\ k.asset = j.asset /\ k.meta = j.meta
             /\ k.doc = j.doc /\ k.late = j.late
<1> DEFINE i == [j EXCEPT !.at = "pass"]
           k == [i EXCEPT !.todo = todo]
<1>1. /\ JobOK(i) /\ i.at = "pass" /\ i.asset = j.asset /\ i.meta = j.meta
      /\ i.doc = j.doc /\ i.late = j.late
  BY NewStep
<1>2. [j EXCEPT !.at = "pass", !.todo = todo] = k
  OBVIOUS
<1>4. todo \in Seq(TasksOf(i.doc))
  BY <1>1
<1> HIDE DEF i
<1>3. /\ JobOK(k) /\ k.todo = todo /\ k.at = i.at /\ k.asset = i.asset /\ k.meta = i.meta
      /\ k.doc = i.doc /\ k.late = i.late
  BY <1>1, <1>4, NewTodo
<1> QED BY <1>1, <1>2, <1>3

LEMMA Failed ==
  ASSUME NEW j, JobOK(j)
  PROVE  LET k == Failing(j)
         IN  /\ JobOK(k) /\ k.at = j.at
             /\ k.todo = j.todo /\ k.asset = j.asset /\ k.meta = j.meta
             /\ k.doc = j.doc /\ k.late = j.late
BY DEF JobOK, JobOf, Failing

LEMMA Cached ==
  ASSUME NEW j, JobOK(j), NEW i, NEW guid
  PROVE  LET k == Caching(j, i, guid)
         IN  /\ JobOK(k) /\ k.at = j.at
             /\ k.todo = j.todo /\ k.asset = j.asset /\ k.meta = j.meta
             /\ k.doc = j.doc /\ k.late = j.late
BY DEF JobOK, JobOf, Caching

LEMMA Appended ==
  ASSUME NEW m \in Metas, NEW sub \in Generated, NEW guid \in Nat
  PROVE  /\ Registered(m, sub, guid) \in Metas
         /\ Extends(Registered(m, sub, guid), m)
<1> DEFINE R == [sub : Generated, guid : Nat]
           r == [sub |-> sub, guid |-> guid]
<1>1. m.records \in Seq(R) /\ m.guid \in Nat /\ m = [guid |-> m.guid, records |-> m.records]
  BY DEF Metas
<1>2. r \in R
  OBVIOUS
<1>3. /\ Append(m.records, r) \in Seq(R)
      /\ Len(Append(m.records, r)) = Len(m.records) + 1 /\ Len(m.records) \in Nat
      /\ \A i \in 1..Len(m.records) : Append(m.records, r)[i] = m.records[i]
  <2> HIDE DEF R, r
  <2> QED BY <1>1, <1>2
<1>4. CASE Has(m, sub)
  BY <1>3, <1>4 DEF Registered, Extends
<1>5. CASE ~Has(m, sub)
  <2>1. Registered(m, sub, guid) = [guid |-> m.guid, records |-> Append(m.records, r)]
    BY <1>1, <1>5 DEF Registered
  <2> HIDE DEF r
  <2> QED BY <1>1, <1>3, <2>1 DEF Metas, Extends
<1> QED BY <1>4, <1>5

LEMMA Records ==
  ASSUME NEW j, JobOK(j), minted \in Nat, NEW sub \in Generated
  PROVE  LET k == Register(j, sub)
         IN  /\ JobOK(k) /\ k.at = j.at
             /\ k.todo = j.todo /\ k.asset = j.asset /\ Extends(k.meta, j.meta)
             /\ k.doc = j.doc /\ k.late = j.late
<1>1. j.meta \in Metas
  BY DEF JobOK
<1>2. /\ Registered(j.meta, sub, minted + 1) \in Metas
      /\ Extends(Registered(j.meta, sub, minted + 1), j.meta)
  BY <1>1, Appended
<1> DEFINE m == Registered(j.meta, sub, minted + 1)
           changed == j.changed \/ ~Has(j.meta, sub)
<1>3. Register(j, sub) = [j EXCEPT !.meta = m, !.changed = changed]
  BY DEF Register
<1> HIDE DEF m, changed
<1>4. m \in Metas /\ Extends(m, j.meta)
  BY <1>2 DEF m
<1> QED BY <1>3, <1>4 DEF JobOK, JobOf

LEMMA Filed ==
  ASSUME NEW m \in Metas, NEW sub \in Generated, NEW guid \in Nat
  PROVE  Has(Registered(m, sub, guid), sub)
<1>1. m.records \in Seq([sub : Generated, guid : Nat])
      /\ m = [guid |-> m.guid, records |-> m.records]
  BY DEF Metas
<1>2. CASE Has(m, sub)
  BY <1>2 DEF Registered
<1>3. CASE ~Has(m, sub)
  <2> DEFINE r == [sub |-> sub, guid |-> guid]
             s == Append(m.records, r)
  <2>1. Registered(m, sub, guid).records = s
    BY <1>1, <1>3 DEF Registered
  <2>2. Len(m.records) + 1 \in DOMAIN s /\ s[Len(m.records) + 1] = r
    <3>1. r \in [sub : Generated, guid : Nat]
      OBVIOUS
    <3> HIDE DEF r
    <3> QED BY <1>1, <3>1
  <2>3. r.sub = sub
    OBVIOUS
  <2> HIDE DEF s, r
  <2> QED BY <2>1, <2>2, <2>3 DEF Has
<1> QED BY <1>2, <1>3

LEMMA RegisterRest ==
  ASSUME NEW j, JobOK(j), NEW sub
  PROVE  LET k == Register(j, sub)
         IN  /\ k.todo = j.todo /\ k.meta = Registered(j.meta, sub, minted + 1)
             /\ k.images = j.images /\ k.clean = j.clean
             /\ k.doc = j.doc /\ k.late = j.late
             /\ k.changed <=> j.changed \/ ~Has(j.meta, sub)
<1>1. j = JobOf(j)
  BY DEF JobOK
<1> DEFINE m == Registered(j.meta, sub, minted + 1)
           c == j.changed \/ ~Has(j.meta, sub)
<1>2. Register(j, sub) = [j EXCEPT !.meta = m, !.changed = c]
  BY DEF Register
<1> HIDE DEF m, c
<1>3. Register(j, sub) = [at |-> j.at, asset |-> j.asset, meta |-> m, doc |-> j.doc,
                          todo |-> j.todo, changed |-> c, images |-> j.images,
                          clean |-> j.clean, late |-> j.late]
  BY <1>1, <1>2 DEF JobOf
<1>4. Register(j, sub).changed = c
  BY <1>3
<1>5. Register(j, sub).changed <=> c
  BY Zenon, <1>4
<1> QED BY <1>3, <1>5 DEF m, c

-----------------------------------------------------------------------------
(* Tasks.                                                                   *)

NoWrite(todo) == \A i \in DOMAIN todo : todo[i].op # "write"
Quiet(todo) == \A i \in DOMAIN todo : todo[i].op \in {"image", "sidecar"}

LEMMA Rest ==
  ASSUME NEW T, NEW todo \in Seq(T), todo # <<>>
  PROVE  /\ Head(todo) = todo[1] /\ Head(todo) \in T
         /\ Tail(todo) \in Seq(T) /\ Len(Tail(todo)) = Len(todo) - 1
         /\ Len(todo) \in Nat \ {0} /\ DOMAIN todo = 1..Len(todo)
         /\ DOMAIN Tail(todo) = 1..Len(todo) - 1
         /\ \A i \in 1..Len(todo) - 1 : Tail(todo)[i] = todo[i + 1]
OBVIOUS

LEMMA Joined ==
  ASSUME NEW T, NEW s \in Seq(T), NEW t \in Seq(T)
  PROVE  /\ s \o t \in Seq(T)
         /\ Len(s) \in Nat /\ Len(t) \in Nat /\ Len(s \o t) = Len(s) + Len(t)
         /\ DOMAIN s = 1..Len(s) /\ DOMAIN t = 1..Len(t)
         /\ DOMAIN (s \o t) = 1..Len(s) + Len(t)
         /\ \A i \in 1..Len(s) : (s \o t)[i] = s[i]
         /\ \A i \in Len(s) + 1..Len(s) + Len(t) : (s \o t)[i] = t[i - Len(s)]
OBVIOUS

LEMMA PendingTail ==
  ASSUME NEW T, NEW todo \in Seq(T), todo # <<>>, NEW files, Pending(todo, files)
  PROVE  Pending(Tail(todo), files)
<1> SUFFICES ASSUME NEW i \in 1..Len(todo) - 1, Tail(todo)[i].op = "write"
             PROVE  /\ files[MaterialsOf(job.doc)[Tail(todo)[i].nr]] = NoFile
                    /\ i < Len(todo) - 1
                    /\ \A j \in 1..i - 1 : Tail(todo)[j].op \in {"image", "sidecar"}
  BY Rest DEF Pending
<1>1. i + 1 \in DOMAIN todo /\ todo[i + 1] = Tail(todo)[i]
  BY Rest
<1>2. /\ files[MaterialsOf(job.doc)[todo[i + 1].nr]] = NoFile
      /\ i + 1 < Len(todo)
      /\ \A j \in 1..i : todo[j].op \in {"image", "sidecar"}
  BY <1>1, Rest DEF Pending
<1>3. \A j \in 1..i - 1 : Tail(todo)[j] = todo[j + 1] /\ j + 1 \in 1..i
  BY Rest
<1> QED BY <1>1, <1>2, <1>3, Rest

LEMMA PendingLater ==
  ASSUME NEW T, NEW s \in Seq(T), Quiet(s), NEW todo \in Seq(T),
         NEW files, Pending(todo, files)
  PROVE  Pending(s \o todo, files)
<1> DEFINE all == s \o todo
<1> SUFFICES ASSUME NEW i \in DOMAIN all, all[i].op = "write"
             PROVE  /\ files[MaterialsOf(job.doc)[all[i].nr]] = NoFile
                    /\ i < Len(all)
                    /\ \A j \in 1..i - 1 : all[j].op \in {"image", "sidecar"}
  BY DEF Pending
<1> HIDE DEF all
<1>1. /\ Len(s) \in Nat /\ Len(todo) \in Nat /\ Len(all) = Len(s) + Len(todo)
      /\ DOMAIN s = 1..Len(s) /\ DOMAIN todo = 1..Len(todo)
      /\ DOMAIN all = 1..Len(s) + Len(todo)
      /\ \A k \in 1..Len(s) : all[k] = s[k]
      /\ \A k \in Len(s) + 1..Len(s) + Len(todo) : all[k] = todo[k - Len(s)]
  BY Joined DEF all
<1>2. i > Len(s)
  BY <1>1 DEF Quiet
<1>3. i - Len(s) \in DOMAIN todo /\ all[i] = todo[i - Len(s)]
  BY <1>1, <1>2
<1>4. /\ files[MaterialsOf(job.doc)[all[i].nr]] = NoFile
      /\ i - Len(s) < Len(todo)
      /\ \A j \in 1..i - Len(s) - 1 : todo[j].op \in {"image", "sidecar"}
  BY <1>3 DEF Pending
<1>5. ASSUME NEW j \in 1..i - 1 PROVE all[j].op \in {"image", "sidecar"}
  <2>1. CASE j <= Len(s)
    BY <1>1, <2>1 DEF Quiet
  <2>2. CASE j > Len(s)
    <3>1. j - Len(s) \in 1..i - Len(s) - 1 /\ all[j] = todo[j - Len(s)]
      BY <1>1, <2>2
    <3> QED BY <1>4, <3>1
  <2> QED BY <1>1, <2>1, <2>2
<1> QED BY <1>1, <1>4, <1>5

\* Behind a material, or behind what is written of one, nothing is pending.
LEMMA NothingPending ==
  ASSUME NEW T, NEW todo \in Seq(T), todo # <<>>, NEW files, Pending(todo, files),
         Head(todo).op \notin {"image", "sidecar"}
  PROVE  NoWrite(Tail(todo))
BY Rest DEF Pending, NoWrite

LEMMA NoWritePending ==
  ASSUME NEW todo, NEW files, NoWrite(todo)
  PROVE  Pending(todo, files)
BY DEF NoWrite, Pending

LEMMA PendingSame ==
  ASSUME job.doc \in Exports, NEW todo \in Seq(TasksOf(job.doc)), NEW files, NEW after,
         Pending(todo, files),
         \A i \in DOMAIN job.doc.materials :
            after[MaterialsOf(job.doc)[i]] = files[MaterialsOf(job.doc)[i]]
  PROVE  Pending(todo, after)
<1> SUFFICES ASSUME NEW i \in DOMAIN todo, todo[i].op = "write"
             PROVE  todo[i].nr \in DOMAIN job.doc.materials
  BY DEF Pending
<1>1. todo[i] \in TasksOf(job.doc)
  OBVIOUS
<1> QED BY <1>1 DEF TasksOf

\* The tasks of a material that is not there.
LEMMA MaterialTasks ==
  ASSUME NEW T, NEW slots \in Seq(T), NEW w \in T, NEW s \in T
  PROVE  LET tasks == slots \o <<w>> \o <<s>>
             n == Len(slots)
         IN  /\ tasks \in Seq(T) /\ n \in Nat /\ Len(tasks) = n + 2
             /\ DOMAIN slots = 1..n /\ DOMAIN tasks = 1..n + 2
             /\ \A i \in 1..n : tasks[i] = slots[i]
             /\ tasks[n + 1] = w /\ tasks[n + 2] = s
<1>1. <<w>> \in Seq(T) /\ <<s>> \in Seq(T) /\ <<w>> \o <<s>> \in Seq(T)
  OBVIOUS
<1> DEFINE n == Len(slots)
<1>2. /\ slots \o <<w>> \in Seq(T) /\ DOMAIN slots = 1..n /\ n \in Nat
      /\ Len(slots \o <<w>>) = n + 1
      /\ \A i \in 1..n : (slots \o <<w>>)[i] = slots[i]
      /\ (slots \o <<w>>)[n + 1] = w
  <2> HIDE DEF n
  <2>1. Len(<<w>>) = 1 /\ <<w>>[1] = w
    OBVIOUS
  <2> QED BY <1>1, <2>1, Joined DEF n
<1>3. /\ slots \o <<w>> \o <<s>> \in Seq(T)
      /\ Len(slots \o <<w>> \o <<s>>) = n + 2
      /\ \A i \in 1..n : (slots \o <<w>> \o <<s>>)[i] = slots[i]
      /\ (slots \o <<w>> \o <<s>>)[n + 1] = w
      /\ (slots \o <<w>> \o <<s>>)[n + 2] = s
  <2> DEFINE two == slots \o <<w>>
  <2> HIDE DEF n, two
  <2>1. Len(<<s>>) = 1 /\ <<s>>[1] = s
    OBVIOUS
  <2>2. two \in Seq(T) /\ Len(two) = n + 1 /\ n \in Nat
        /\ (\A i \in 1..n : two[i] = slots[i]) /\ two[n + 1] = w
    BY <1>2 DEF two
  <2>3. /\ two \o <<s>> \in Seq(T) /\ Len(two \o <<s>>) = n + 2
        /\ \A i \in 1..n : (two \o <<s>>)[i] = slots[i]
        /\ (two \o <<s>>)[n + 1] = w /\ (two \o <<s>>)[n + 2] = s
    BY <1>1, <2>1, <2>2, Joined
  <2> QED BY <2>3 DEF two
<1> QED BY <1>2, <1>3

LEMMA PendingMaterial ==
  ASSUME NEW T, NEW slots \in Seq(T), Quiet(slots), NEW w \in T, NEW s \in T,
         NEW rest \in Seq(T), NoWrite(rest), NEW files,
         w.op = "write", files[MaterialsOf(job.doc)[w.nr]] = NoFile, s.op = "sidecar"
  PROVE  Pending((slots \o <<w>> \o <<s>>) \o rest, files)
<1> DEFINE all == (slots \o <<w>> \o <<s>>) \o rest
           n == Len(slots)
<1>2. DOMAIN slots = 1..n /\ n \in Nat
  OBVIOUS
<1>3. /\ slots \o <<w>> \o <<s>> \in Seq(T)
      /\ Len(slots \o <<w>> \o <<s>>) = n + 2
      /\ \A i \in 1..n : (slots \o <<w>> \o <<s>>)[i] = slots[i]
      /\ (slots \o <<w>> \o <<s>>)[n + 1] = w
      /\ (slots \o <<w>> \o <<s>>)[n + 2] = s
  BY MaterialTasks
<1>4. /\ DOMAIN all = 1..Len(all) /\ Len(all) = n + 2 + Len(rest) /\ Len(rest) \in Nat
      /\ \A i \in 1..n : all[i] = slots[i]
      /\ all[n + 1] = w /\ all[n + 2] = s
      /\ \A i \in n + 3..Len(all) : all[i] = rest[i - (n + 2)] /\ i - (n + 2) \in DOMAIN rest
  <2> DEFINE three == slots \o <<w>> \o <<s>>
  <2> HIDE DEF n, three
  <2>1. three \in Seq(T) /\ Len(three) = n + 2 /\ n \in Nat
        /\ (\A i \in 1..n : three[i] = slots[i]) /\ three[n + 1] = w /\ three[n + 2] = s
    BY <1>2, <1>3 DEF three
  <2>2. all = three \o rest
    BY DEF three
  <2> HIDE DEF all
  <2>3. /\ all \in Seq(T) /\ Len(rest) \in Nat /\ Len(all) = n + 2 + Len(rest)
        /\ DOMAIN rest = 1..Len(rest) /\ DOMAIN all = 1..Len(all)
        /\ \A i \in 1..n + 2 : all[i] = three[i]
        /\ \A i \in n + 3..n + 2 + Len(rest) : all[i] = rest[i - (n + 2)]
    <3>1. /\ all \in Seq(T) /\ Len(rest) \in Nat /\ Len(all) = Len(three) + Len(rest)
          /\ DOMAIN rest = 1..Len(rest) /\ DOMAIN all = 1..Len(three) + Len(rest)
          /\ \A i \in 1..Len(three) : all[i] = three[i]
          /\ \A i \in Len(three) + 1..Len(three) + Len(rest) : all[i] = rest[i - Len(three)]
      <4>1. three \in Seq(T)
        BY <2>1
      <4> QED BY <4>1, <2>2, Joined
    <3> QED BY <2>1, <3>1
  <2> QED BY <2>1, <2>3
<1> HIDE DEF all, n
<1>5. \A i \in DOMAIN all : all[i].op = "write" => i = n + 1
  <2> SUFFICES ASSUME NEW i \in DOMAIN all, all[i].op = "write", i # n + 1 PROVE FALSE
    OBVIOUS
  <2>1. CASE i <= n
    BY <1>2, <1>4, <2>1 DEF Quiet
  <2>2. CASE i = n + 2
    BY <1>4, <2>2
  <2>3. CASE i > n + 2
    BY <1>2, <1>4, <2>3 DEF NoWrite
  <2> QED BY <1>2, <1>4, <2>1, <2>2, <2>3
<1>6. \A j \in 1..n : all[j].op \in {"image", "sidecar"}
  BY <1>2, <1>4 DEF Quiet
<1>7. n + 1 < Len(all)
  BY <1>2, <1>4
<1>8. Pending(all, files)
  BY <1>2, <1>4, <1>5, <1>6, <1>7 DEF Pending
<1> QED BY <1>8 DEF all

-----------------------------------------------------------------------------
(* Metafiles.                                                               *)

LEMMA MetasReadable ==
  ASSUME NEW m \in Metas
  PROVE  Readable(m)
BY ExportsAssumption DEF Metas, Readable

LEMMA ReadableMeta ==
  ASSUME Typed, NEW a \in Sources, Readable(meta[a])
  PROVE  meta[a] \in Metas
BY DEF Typed, Readable

LEMMA FreshMeta ==
  ASSUME NEW guid \in Nat
  PROVE  Sidecar(guid) \in Metas
BY DEF Sidecar, Metas

LEMMA LoadedMeta ==
  ASSUME Typed, NEW a \in Sources
  PROVE  Loaded(a) \in Metas
<1>1. minted + 1 \in Nat
  BY DEF Typed
<1> QED BY <1>1, FreshMeta, ReadableMeta DEF Loaded, Minting

LEMMA Reflexive ==
  ASSUME NEW m \in Metas
  PROVE  Extends(m, m)
BY DEF Extends, Metas

LEMMA Transitive ==
  ASSUME NEW l \in Metas, NEW m \in Metas, NEW n \in Metas, Extends(l, m), Extends(m, n)
  PROVE  Extends(l, n)
BY DEF Extends, Metas

\* A torn metafile is unreadable, or a shorter one.
LEMMA Torn ==
  ASSUME NEW m \in Metas
  PROVE  PartsOf(m) \subseteq Metas \cup {Unreadable}
<1> DEFINE R == [sub : Generated, guid : Nat]
<1> SUFFICES ASSUME NEW n \in 0..(Len(m.records) - 1)
             PROVE  [m EXCEPT !.records = SubSeq(@, 1, n)] \in Metas
  BY DEF PartsOf
<1>1. m.records \in Seq(R) /\ m.guid \in Nat /\ m = [guid |-> m.guid, records |-> m.records]
  BY DEF Metas
<1>2. SubSeq(m.records, 1, n) \in Seq(R)
  <2> HIDE DEF R
  <2> QED BY <1>1
<1> QED BY <1>1, <1>2 DEF Metas

LEMMA MetaWritten ==
  ASSUME Typed, NEW a \in Assets, NEW m, a \in Sources => m \in Metas,
         NEW next, NEW otherwise, WriteMeta(a, m, next, otherwise)
  PROVE  /\ meta' = [b \in Assets |-> meta'[b]]
         /\ \A b \in Assets \ {a} : meta'[b] = meta[b]
         /\ \A b \in Sources : meta'[b] \in Metas \cup {NoFile, Unreadable}
         /\ faults' \in Nat
         /\ \/ faults' = faults /\ meta'[a] = m /\ job' = next
            \/ faults' # faults /\ job' = Failing(otherwise)
<1>1. meta = [b \in Assets |-> meta[b]] /\ faults \in Nat
  BY DEF Typed
<1>2. \A b \in Sources : b \in Assets /\ meta[b] \in Metas \cup {NoFile, Unreadable}
  BY DEF Typed, Sources, Assets
<1>3. CASE /\ \E r \in Completes(meta, a, m) : meta' = r.disk
           /\ job' = next
           /\ UNCHANGED <<faults, settled>>
  <2>1. meta' = [meta EXCEPT ![a] = m]
    BY <1>3 DEF Completes
  <2> QED BY <1>1, <1>2, <1>3, <2>1
<1>4. CASE /\ faults < MaxFaults
           /\ faults' = faults + 1 /\ settled' = FALSE
           /\ \E r \in Failures(meta, a, PartsOf(m)) : meta' = r.disk
           /\ job' = Failing(otherwise)
  <2>1. \/ meta' = meta
        \/ \E p \in PartsOf(m) : meta' = [meta EXCEPT ![a] = p]
    BY <1>4 DEF Failures, Refusals, Tears
  <2>2. faults' \in Nat /\ faults' # faults
    BY <1>1, <1>4
  <2>3. CASE meta' = meta
    BY <1>1, <1>2, <1>4, <2>2, <2>3
  <2>4. ASSUME NEW p \in PartsOf(m), meta' = [meta EXCEPT ![a] = p]
        PROVE  /\ meta' = [b \in Assets |-> meta'[b]]
               /\ \A b \in Assets \ {a} : meta'[b] = meta[b]
               /\ \A b \in Sources : meta'[b] \in Metas \cup {NoFile, Unreadable}
    <3>1. a \in Sources => p \in Metas \cup {Unreadable}
      BY Torn
    <3> QED BY <1>1, <1>2, <2>4, <3>1
  <2> QED BY <1>4, <2>1, <2>2, <2>3, <2>4
<1> QED BY <1>3, <1>4 DEF WriteMeta

\* The same for a generated file.
LEMMA BodyWritten ==
  ASSUME Typed, NEW g \in Generated, NEW content, NEW next, NEW otherwise,
         WriteBody(g, content, next, otherwise)
  PROVE  /\ body' = [f \in Generated |-> body'[f]]
         /\ \A f \in Generated : f # g => body'[f] = body[f]
         /\ faults' \in Nat
         /\ job' = next \/ job' = Failing(otherwise)
<1>1. body = [f \in Generated |-> body[f]] /\ faults \in Nat
  BY DEF Typed
<1>2. CASE /\ \E r \in Completes(body, g, content) : body' = r.disk
           /\ job' = next
           /\ UNCHANGED <<faults, settled>>
  <2>1. body' = [body EXCEPT ![g] = content]
    BY <1>2 DEF Completes
  <2> QED BY <1>1, <1>2, <2>1
<1>3. CASE /\ faults < MaxFaults
           /\ faults' = faults + 1 /\ settled' = FALSE
           /\ \E r \in Failures(body, g, {Unreadable}) : body' = r.disk
           /\ job' = Failing(otherwise)
  <2>1. body' = body \/ body' = [body EXCEPT ![g] = Unreadable]
    BY <1>3 DEF Failures, Refusals, Tears
  <2>2. faults' \in Nat
    BY <1>1, <1>3
  <2> QED BY <1>1, <1>3, <2>1, <2>2
<1> QED BY <1>2, <1>3 DEF WriteBody

-----------------------------------------------------------------------------
(* What a step does not undo.                                               *)

BodyKept == \A g \in Generated \ Overtaken : Exists(body, g) => body'[g] = body[g]
MetaKept ==
    faults' = faults =>
        \A a \in Sources : Readable(meta[a]) => Readable(meta'[a]) /\ Extends(meta'[a], meta[a])

LEMMA MetaSame ==
  ASSUME Typed, UNCHANGED meta
  PROVE  MetaKept
BY ReadableMeta, Reflexive DEF MetaKept

LEMMA MetaElsewhere ==
  ASSUME Typed, NEW a, \A b \in Assets \ {a} : meta'[b] = meta[b],
         a \notin Sources \/ ~Exists(meta, a)
  PROVE  MetaKept
<1> SUFFICES ASSUME NEW b \in Sources, Readable(meta[b])
             PROVE  Readable(meta'[b]) /\ Extends(meta'[b], meta[b])
  BY DEF MetaKept
<1>1. b # a /\ b \in Assets
  BY DEF Readable, Exists, Sources, Assets
<1>2. meta'[b] = meta[b]
  BY <1>1
<1> QED BY <1>2, ReadableMeta, Reflexive

\* A job that goes on with its tasks.
LEMMA Onward ==
  ASSUME IInv, At("pass") \/ At("extract"), UNCHANGED export,
         NEW k, JobOK(k), k.at = "pass", Extends(k.meta, job.meta), k.doc = job.doc,
         Pending(k.todo, Seen'),
         job' = k, JobOK(job),
         minted' \in Nat, faults' \in Nat,
         body' = [f \in Generated |-> body'[f]],
         meta' = [b \in Assets |-> meta'[b]],
         \A b \in Sources : meta'[b] \in Metas \cup {NoFile, Unreadable},
         meta'[Model] = meta[Model]
  PROVE  IInv'
<1>1. Typed'
  BY DEF IInv, Typed, JobOK, JobOf
<1>2. k.meta \in Metas /\ job.meta \in Metas
  BY DEF JobOK
<1>3. Readable(meta[Model]) => Extends(k.meta, meta[Model])
  <2>1. Model \in Sources /\ Typed
    BY DEF Sources, IInv
  <2>2. Readable(meta[Model]) => Extends(job.meta, meta[Model])
    BY DEF IInv, Knows
  <2> QED BY <1>2, <2>1, <2>2, ReadableMeta, Transitive
<1>4. Knows'
  <2>1. Pending(k.todo, Seen)'
    BY DEF Pending
  <2> QED BY <1>3, <2>1 DEF Knows, At
<1> QED BY <1>1, <1>4 DEF IInv

\* A job that ends, or is not among its tasks.
LEMMA Aside ==
  ASSUME IInv, NEW k, k = NoJob \/ (JobOK(k) /\ k.at \in {"load", "produce", "end"}),
         job' = k, UNCHANGED <<export, minted, body>>, faults' \in Nat,
         meta' = [b \in Assets |-> meta'[b]],
         \A b \in Sources : meta'[b] \in Metas \cup {NoFile, Unreadable}
  PROVE  IInv'
<1>1. Typed'
  BY DEF IInv, Typed, JobOK, JobOf
<1>2. Knows'
  BY DEF Knows, At, NoJob
<1> QED BY <1>1, <1>2 DEF IInv

LEMMA Working ==
  ASSUME IInv, ~Idle
  PROVE  /\ Typed /\ JobOK(job) /\ export \in Exports
         /\ job.meta \in Metas /\ job.asset \in Sources
         /\ job.doc \in Exports /\ job.todo \in Seq(TasksOf(job.doc))
         /\ minted \in Nat /\ faults \in Nat
         /\ Sources \subseteq Assets /\ Generated \subseteq Assets
         /\ Model \in Sources /\ Sources \cap Generated = {} /\ Model \notin Pictures
         /\ Pictures \subseteq Sources
         /\ body = [f \in Generated |-> body[f]]
         /\ meta = [b \in Assets |-> meta[b]]
         /\ \A b \in Sources : meta[b] \in Metas \cup {NoFile, Unreadable}
<1>1. Typed /\ JobOK(job)
  BY DEF IInv, Typed, Idle, NoJob
<1>2. /\ Sources \subseteq Assets /\ Generated \subseteq Assets
      /\ Model \in Sources /\ Sources \cap Generated = {} /\ Model \notin Pictures
      /\ Pictures \subseteq Sources
  BY ExportsAssumption, AssetImportAssumption DEF Sources, Assets
<1>3. /\ export \in Exports /\ minted \in Nat /\ faults \in Nat
      /\ body = [f \in Generated |-> body[f]]
      /\ meta = [b \in Assets |-> meta[b]]
      /\ \A b \in Sources : meta[b] \in Metas \cup {NoFile, Unreadable}
  BY <1>1 DEF Typed
<1>4. /\ job.meta \in Metas /\ job.asset \in Sources
      /\ job.doc \in Exports /\ job.todo \in Seq(TasksOf(job.doc))
  BY <1>1 DEF JobOK
<1> QED BY <1>1, <1>2, <1>3, <1>4

\* What heads the tasks of a pass.
LEMMA TaskKinds ==
  ASSUME NEW x, NEW r \in TasksOf(x)
  PROVE  /\ r.op \in {"material", "write"} => r.nr \in DOMAIN x.materials
         /\ r.op = "image" => r.nr \in DOMAIN x.images
         /\ r.op = "sidecar" => r.sub \in Generated
BY DEF TasksOf

LEMMA OnTurn ==
  ASSUME IInv, At("pass") \/ At("extract"), job.todo # <<>>
  PROVE  /\ ~Idle /\ Head(job.todo) \in TasksOf(job.doc)
         /\ Tail(job.todo) \in Seq(TasksOf(job.doc))
         /\ Pending(job.todo, Seen) /\ Pending(Tail(job.todo), Seen)
         /\ Here.op \in {"material", "write"} => Here.nr \in DOMAIN job.doc.materials
         /\ Here.op = "image" => Here.nr \in DOMAIN job.doc.images
         /\ Here.op = "sidecar" => Here.sub \in Generated
<1>1. ~Idle
  BY DEF At, Idle
<1>2. Pending(job.todo, Seen)
  BY DEF IInv, Knows
<1>3. job.todo \in Seq(TasksOf(job.doc))
  BY <1>1, Working
<1>4. Head(job.todo) \in TasksOf(job.doc) /\ Tail(job.todo) \in Seq(TasksOf(job.doc))
  BY <1>3, Rest
<1> QED BY <1>1, <1>2, <1>3, <1>4, PendingTail, TaskKinds DEF Here

LEMMA OnTask ==
  ASSUME IInv, NEW op, Task(op)
  PROVE  /\ ~Idle /\ At("pass") /\ job.todo # <<>> /\ Head(job.todo) \in TasksOf(job.doc)
         /\ Here.op = op /\ Tail(job.todo) \in Seq(TasksOf(job.doc))
         /\ Pending(job.todo, Seen) /\ Pending(Tail(job.todo), Seen)
         /\ op \in {"material", "write"} => Here.nr \in DOMAIN job.doc.materials
         /\ op = "image" => Here.nr \in DOMAIN job.doc.images
         /\ op = "sidecar" => Here.sub \in Generated
<1>1. At("pass") /\ job.todo # <<>> /\ Here.op = op
  BY DEF Task, Here
<1> QED BY <1>1, OnTurn

LEMMA OnExtract ==
  ASSUME IInv, At("extract")
  PROVE  /\ ~Idle /\ job.todo # <<>> /\ Head(job.todo) \in TasksOf(job.doc)
         /\ Here.op = "image" /\ Tail(job.todo) \in Seq(TasksOf(job.doc))
         /\ Pending(job.todo, Seen) /\ Pending(Tail(job.todo), Seen)
         /\ Here.nr \in DOMAIN job.doc.images
<1>1. job.todo # <<>> /\ Here.op = "image"
  BY DEF IInv, Knows, Waiting, Here
<1> QED BY <1>1, OnTurn

-----------------------------------------------------------------------------
(* One step of an import.                                                   *)

LEMMA InitInv == Init => IInv
<1> SUFFICES ASSUME Init PROVE IInv
  OBVIOUS
<1>1. /\ body = [g \in Generated |-> body[g]]
      /\ meta = [a \in Assets |-> meta[a]]
      /\ \A a \in Sources : meta[a] = NoFile
  BY DEF Init, Sources, Assets
<1>2. Typed
  BY <1>1 DEF Init, Typed
<1>3. Knows
  BY DEF Init, Knows, At, NoJob
<1> QED BY <1>2, <1>3 DEF IInv

LEMMA EmptyTodo ==
  ASSUME NEW x
  PROVE  <<>> \in Seq(TasksOf(x))
OBVIOUS

LEMMA ImportKeeps ==
  ASSUME IInv, NEW a \in Sources, Import(a)
  PROVE  IInv' /\ MetaKept /\ BodyKept
<1>1. Loaded(a) \in Metas /\ Typed
  BY LoadedMeta DEF IInv
<1> DEFINE m == Loaded(a)
<1> HIDE DEF m
<1>2. job' = [at |-> IF Exists(meta, a) THEN "load" ELSE "persist",
              asset |-> a, meta |-> m, doc |-> export, todo |-> <<>>,
              changed |-> FALSE, images |-> <<>>, clean |-> TRUE, late |-> {}]
  BY DEF Import, m
<1>3. m \in Metas
  BY <1>1 DEF m
<1>4. JobOK(job)'
  BY <1>1, <1>2, <1>3, EmptyTodo DEF JobOK, JobOf, Import, Typed
<1>5. Typed'
  BY <1>4 DEF IInv, Typed, Import
<1>6. Knows'
  BY <1>2 DEF Knows, At, Exists, Import
<1> QED BY <1>1, <1>5, <1>6, MetaSame DEF IInv, Import, BodyKept

LEMMA PersistKeeps ==
  ASSUME IInv, Persist
  PROVE  IInv' /\ MetaKept /\ BodyKept
<1>1. ~Idle /\ At("persist")
  BY DEF Persist, At, Idle
<1>2. /\ JobOK(job) /\ job.asset \in Sources /\ job.asset \in Assets
      /\ job.meta \in Metas /\ Typed /\ ~Exists(meta, job.asset)
  BY <1>1, Working DEF IInv, Knows
<1>3. JobOK(Goto("load")) /\ Goto("load").at = "load"
  BY <1>2, NewStep DEF Goto
<1>4. JobOK(Failing(Goto("load"))) /\ Failing(Goto("load")).at = "load"
  BY <1>3, Failed
<1>5. WriteMeta(job.asset, job.meta, Goto("load"), Goto("load"))
  BY DEF Persist
<1>6. /\ meta' = [b \in Assets |-> meta'[b]]
      /\ \A b \in Assets \ {job.asset} : meta'[b] = meta[b]
      /\ \A b \in Sources : meta'[b] \in Metas \cup {NoFile, Unreadable}
      /\ faults' \in Nat
      /\ job' = Goto("load") \/ job' = Failing(Goto("load"))
  BY <1>2, <1>5, MetaWritten
<1>7. UNCHANGED <<export, minted, body>>
  BY DEF Persist
<1>8. IInv'
  BY <1>3, <1>4, <1>6, <1>7, Aside
<1>9. MetaKept
  BY <1>2, <1>6, MetaElsewhere
<1> QED BY <1>7, <1>8, <1>9 DEF BodyKept

LEMMA LoadKeeps ==
  ASSUME IInv, LoadPicture \/ LoadModel \/ GiveUp
  PROVE  IInv' /\ MetaKept /\ BodyKept
<1>1. ~Idle /\ UNCHANGED <<export, body, meta, minted, faults>>
  BY DEF LoadPicture, LoadModel, GiveUp, At, Idle
<1>2. Typed /\ JobOK(job) /\ faults \in Nat
      /\ meta = [b \in Assets |-> meta[b]]
      /\ \A b \in Sources : meta[b] \in Metas \cup {NoFile, Unreadable}
  BY <1>1, Working
<1>3. JobOK(Goto("produce")) /\ Goto("produce").at = "produce"
  BY <1>2, NewStep DEF Goto
<1>4. job' = NoJob \/ job' = Goto("produce")
  BY DEF LoadPicture, LoadModel, GiveUp, Finish
<1>5. IInv'
  BY <1>1, <1>2, <1>3, <1>4, Aside
<1> QED BY <1>1, <1>2, <1>5, MetaSame DEF BodyKept

LEMMA ReturnKeeps ==
  ASSUME IInv, Return
  PROVE  IInv' /\ MetaKept /\ BodyKept
<1>1. ~Idle /\ UNCHANGED <<export, body, meta, minted, faults>> /\ job' = NoJob
  BY DEF Return, Finish, At, Idle
<1>2. Typed /\ faults \in Nat
      /\ meta = [b \in Assets |-> meta[b]]
      /\ \A b \in Sources : meta[b] \in Metas \cup {NoFile, Unreadable}
  BY <1>1, Working
<1>3. IInv'
  BY <1>1, <1>2, Aside
<1> QED BY <1>1, <1>2, <1>3, MetaSame DEF BodyKept

LEMMA WriteRegistryKeeps ==
  ASSUME IInv, WriteRegistry
  PROVE  IInv' /\ MetaKept /\ BodyKept
<1>1. ~Idle /\ At("pass") /\ UNCHANGED <<export, body, minted>>
  BY DEF WriteRegistry, At, Idle
<1>2. /\ JobOK(job) /\ Model \in Sources /\ Model \in Assets /\ faults \in Nat
      /\ job.meta \in Metas /\ Typed
      /\ meta = [b \in Assets |-> meta[b]]
      /\ \A b \in Sources : meta[b] \in Metas \cup {NoFile, Unreadable}
  BY <1>1, Working
<1>3. JobOK(Goto("end")) /\ Goto("end").at = "end"
  BY <1>2, NewStep DEF Goto
<1>4. JobOK(Failing(Goto("end"))) /\ Failing(Goto("end")).at = "end"
  BY <1>3, Failed
<1>5. CASE job' = Goto("end") /\ UNCHANGED <<meta, faults, settled>>
  <2>1. IInv'
    BY <1>1, <1>2, <1>3, <1>5, Aside
  <2> QED BY <1>1, <1>2, <1>5, <2>1, MetaSame DEF BodyKept
<1>6. CASE WriteMeta(Model, job.meta, Goto("end"), Goto("end"))
  <2>1. /\ meta' = [b \in Assets |-> meta'[b]]
        /\ \A b \in Assets \ {Model} : meta'[b] = meta[b]
        /\ \A b \in Sources : meta'[b] \in Metas \cup {NoFile, Unreadable}
        /\ faults' \in Nat
        /\ \/ faults' = faults /\ meta'[Model] = job.meta /\ job' = Goto("end")
           \/ faults' # faults /\ job' = Failing(Goto("end"))
    BY <1>2, <1>6, MetaWritten
  <2>2. IInv'
    BY <1>1, <1>3, <1>4, <2>1, Aside
  <2>3. ASSUME NEW b \in Sources, Readable(meta[b]), faults' = faults
        PROVE  Readable(meta'[b]) /\ Extends(meta'[b], meta[b])
    <3>1. CASE b = Model
      <4>1. Extends(job.meta, meta[Model])
        BY <1>1, <2>3, <3>1 DEF IInv, Knows
      <4> QED BY <1>2, <2>1, <2>3, <3>1, <4>1, MetasReadable
    <3>2. CASE b # Model
      <4>1. meta'[b] = meta[b]
        BY <2>1, <3>2 DEF Sources, Assets
      <4> QED BY <1>2, <2>3, <4>1, ReadableMeta, Reflexive
    <3> QED BY <3>1, <3>2
  <2> QED BY <1>1, <2>2, <2>3 DEF MetaKept, BodyKept
<1> QED BY <1>5, <1>6 DEF WriteRegistry

LEMMA AllTasks ==
  ASSUME export \in Exports
  PROVE  LET todo == Tasks("material", Len(export.materials))
                     \o Tasks("image", Len(export.images))
         IN  todo \in Seq(TasksOf(export)) /\ NoWrite(todo)
<1> DEFINE T == TasksOf(export)
           s == Tasks("material", Len(export.materials))
           t == Tasks("image", Len(export.images))
<1>1. /\ DOMAIN export.materials = 1..Len(export.materials) /\ Len(export.materials) \in Nat
      /\ DOMAIN export.images = 1..Len(export.images) /\ Len(export.images) \in Nat
  BY Keys
<1>2. ASSUME NEW n \in Nat, NEW f \in [1..n -> T] PROVE f \in Seq(T)
  OBVIOUS
<1>3. s \in Seq(T) /\ \A i \in DOMAIN s : s[i].op = "material"
  <2>1. s \in [1..Len(export.materials) -> T] /\ \A i \in DOMAIN s : s[i].op = "material"
    BY <1>1 DEF Tasks, TasksOf
  <2> HIDE DEF s, T
  <2> QED BY <1>1, <1>2, <2>1
<1>4. t \in Seq(T) /\ \A i \in DOMAIN t : t[i].op = "image"
  <2>1. t \in [1..Len(export.images) -> T] /\ \A i \in DOMAIN t : t[i].op = "image"
    BY <1>1 DEF Tasks, TasksOf
  <2> HIDE DEF t, T
  <2> QED BY <1>1, <1>2, <2>1
<1> HIDE DEF s, t, T
<1>5. /\ s \o t \in Seq(T)
      /\ Len(s) \in Nat /\ Len(t) \in Nat /\ DOMAIN s = 1..Len(s) /\ DOMAIN t = 1..Len(t)
      /\ DOMAIN (s \o t) = 1..Len(s) + Len(t)
      /\ \A i \in 1..Len(s) : (s \o t)[i] = s[i]
      /\ \A i \in Len(s) + 1..Len(s) + Len(t) : (s \o t)[i] = t[i - Len(s)]
  BY <1>3, <1>4, Joined
<1>6. ASSUME NEW i \in DOMAIN (s \o t) PROVE (s \o t)[i].op # "write"
  <2>1. CASE i <= Len(s)
    BY <1>3, <1>5, <2>1
  <2>2. CASE i > Len(s)
    <3>1. i - Len(s) \in DOMAIN t /\ (s \o t)[i] = t[i - Len(s)]
      BY <1>5, <2>2
    <3> QED BY <1>4, <3>1
  <2> QED BY <1>5, <2>1, <2>2
<1> QED BY <1>5, <1>6 DEF NoWrite, s, t, T

LEMMA ProduceKeeps ==
  ASSUME IInv, Produce
  PROVE  IInv' /\ MetaKept /\ BodyKept
<1> DEFINE todo == Tasks("material", Len(export.materials))
                   \o Tasks("image", Len(export.images))
           m == Loaded(Model)
<1>1. ~Idle
  BY DEF Produce, At, Idle
<1>2. Typed /\ JobOK(job) /\ export \in Exports /\ Model \in Sources /\ minted \in Nat
  BY <1>1, Working
<1>3. todo \in Seq(TasksOf(export)) /\ NoWrite(todo)
  BY <1>2, AllTasks
<1>4. m \in Metas
  BY <1>2, LoadedMeta
<1>5. Readable(meta[Model]) => Extends(m, meta[Model])
  BY <1>2, ReadableMeta, Reflexive DEF Loaded, Minting
<1>6. /\ job' = [job EXCEPT !.at = "pass", !.meta = m, !.doc = export, !.todo = todo]
      /\ minted' \in Nat /\ UNCHANGED <<export, body, meta, faults>>
  BY <1>2 DEF Produce
<1> HIDE DEF todo, m
<1>7. JobOK(job)' /\ job'.meta = m /\ job'.todo = todo
  BY <1>2, <1>3, <1>4, <1>6 DEF JobOK, JobOf
<1>8. Typed'
  BY <1>6, <1>7 DEF IInv, Typed
<1>9. Knows'
  <2>1. Pending(job.todo, Seen)'
    BY <1>3, <1>7 DEF Pending, NoWrite
  <2>2. job'.at = "pass"
    BY <1>2, <1>6 DEF JobOK, JobOf
  <2> QED BY <1>5, <1>6, <1>7, <2>1, <2>2 DEF Knows, At
<1> QED BY <1>2, <1>6, <1>8, <1>9, MetaSame DEF IInv, BodyKept

\* Nothing but the tasks of the job and the number of identities.
LEMMA OnwardQuietly ==
  ASSUME IInv, At("pass") \/ At("extract"),
         UNCHANGED <<export, body, meta, faults>>, minted' \in Nat,
         NEW k, JobOK(k), k.at = "pass", Extends(k.meta, job.meta),
         k.doc = job.doc, k.late = job.late, Pending(k.todo, Seen),
         job' = k
  PROVE  IInv' /\ MetaKept /\ BodyKept
<1>1. ~Idle
  BY DEF At, Idle
<1>2. Typed /\ JobOK(job) /\ faults \in Nat
      /\ body = [f \in Generated |-> body[f]]
      /\ meta = [b \in Assets |-> meta[b]]
      /\ \A b \in Sources : meta[b] \in Metas \cup {NoFile, Unreadable}
  BY <1>1, Working
<1>0. Seen' = Seen
  BY DEF Seen
<1>3. /\ Pending(k.todo, Seen') /\ faults' \in Nat
      /\ body' = [f \in Generated |-> body'[f]]
      /\ meta' = [b \in Assets |-> meta'[b]]
      /\ \A b \in Sources : meta'[b] \in Metas \cup {NoFile, Unreadable}
      /\ meta'[Model] = meta[Model]
  BY <1>0, <1>2
<1>4. IInv'
  BY <1>2, <1>3, Onward
<1> QED BY <1>2, <1>4, MetaSame DEF BodyKept

\* The job with other tasks before the rest of them.
LEMMA Continued ==
  ASSUME IInv, At("pass") \/ At("extract"), job.todo # <<>>,
         NEW tasks \in Seq(TasksOf(job.doc)),
         Pending(tasks \o Tail(job.todo), Seen)
  PROVE  LET k == Then(tasks)
         IN  /\ JobOK(k) /\ k.at = "pass" /\ k.meta = job.meta
             /\ k.todo = tasks \o Tail(job.todo) /\ k.meta \in Metas
             /\ Extends(k.meta, job.meta) /\ Pending(k.todo, Seen)
             /\ k.doc = job.doc /\ k.late = job.late
<1> DEFINE todo == tasks \o Tail(job.todo)
<1>1. ~Idle /\ Tail(job.todo) \in Seq(TasksOf(job.doc))
  BY OnTurn
<1>2. JobOK(job) /\ job.meta \in Metas
  BY <1>1, Working
<1>3. todo \in Seq(TasksOf(job.doc))
  BY <1>1, Joined
<1>4. Then(tasks) = [job EXCEPT !.at = "pass", !.todo = todo]
  BY DEF Then
<1>5. Pending(todo, Seen)
  OBVIOUS
<1> HIDE DEF todo
<1>6. /\ JobOK(Then(tasks)) /\ Then(tasks).at = "pass"
      /\ Then(tasks).meta = job.meta /\ Then(tasks).todo = todo
      /\ Then(tasks).doc = job.doc /\ Then(tasks).late = job.late
  <2> DEFINE k == [job EXCEPT !.at = "pass", !.todo = todo]
  <2>1. /\ JobOK(k) /\ k.todo = todo /\ k.at = "pass" /\ k.meta = job.meta
        /\ k.doc = job.doc /\ k.late = job.late
    BY <1>2, <1>3, NewTurn
  <2> HIDE DEF k
  <2>2. Then(tasks) = k
    BY <1>4 DEF k
  <2> QED BY <2>1, <2>2
<1>7. Extends(Then(tasks).meta, job.meta)
  BY <1>2, <1>6, Reflexive
<1> QED BY <1>2, <1>5, <1>6, <1>7 DEF todo

LEMMA Nothing ==
  ASSUME NEW T, NEW todo \in Seq(T)
  PROVE  <<>> \o todo = todo /\ <<>> \in Seq(T)
OBVIOUS

LEMMA One ==
  ASSUME NEW T, NEW r \in T
  PROVE  <<r>> \in Seq(T) /\ DOMAIN <<r>> = {1} /\ <<r>>[1] = r
OBVIOUS

\* The task is done.
LEMMA Done ==
  ASSUME IInv, At("pass") \/ At("extract"), job.todo # <<>>
  PROVE  LET k == Then(<<>>)
         IN  /\ JobOK(k) /\ k.at = "pass" /\ k.meta = job.meta
             /\ k.todo = Tail(job.todo) /\ k.meta \in Metas
             /\ Extends(k.meta, job.meta) /\ Pending(k.todo, Seen)
             /\ k.doc = job.doc /\ k.late = job.late
<1>1. Tail(job.todo) \in Seq(TasksOf(job.doc)) /\ Pending(Tail(job.todo), Seen)
  BY OnTurn
<1>2. <<>> \o Tail(job.todo) = Tail(job.todo) /\ <<>> \in Seq(TasksOf(job.doc))
  BY <1>1, Nothing
<1> QED BY <1>1, <1>2, Continued

\* What looks the images of a material up.
LookUps(n) ==
    LET used == job.doc.materials[n].images
    IN  [i \in DOMAIN used |-> [op |-> "image", nr |-> used[i]]]

LEMMA SlotTasks ==
  ASSUME job.doc \in Exports, NEW n \in DOMAIN job.doc.materials
  PROVE  LET slots == LookUps(n)
         IN  /\ slots \in Seq(TasksOf(job.doc)) /\ Quiet(slots)
             /\ DOMAIN slots = 1..Len(slots) /\ Len(slots) \in Nat
             /\ \A i \in DOMAIN slots : slots[i].op = "image"
             /\ \A i \in Elements(job.doc.materials[n].images) :
                   \E m \in DOMAIN slots : slots[m].op = "image" /\ slots[m].nr = i
<1> DEFINE used == job.doc.materials[n].images
           slots == LookUps(n)
<1>1. used \in Seq(DOMAIN job.doc.images)
  BY Keys
<1> HIDE DEF used
<1>2. /\ DOMAIN used = 1..Len(used) /\ Len(used) \in Nat
      /\ \A i \in DOMAIN used : used[i] \in DOMAIN job.doc.images
  BY <1>1
<1>3. slots = [i \in DOMAIN used |-> [op |-> "image", nr |-> used[i]]]
  BY DEF used, LookUps
<1>4. /\ \A i \in DOMAIN slots : slots[i].op = "image"
      /\ \A i \in Elements(used) : \E m \in DOMAIN slots : slots[m].op = "image" /\ slots[m].nr = i
  BY <1>3 DEF Elements
<1>5. slots \in [1..Len(used) -> TasksOf(job.doc)]
  BY <1>2, <1>3 DEF TasksOf
<1> HIDE DEF slots
<1>6. ASSUME NEW T, NEW k \in Nat, NEW f \in [1..k -> T]
      PROVE  f \in Seq(T) /\ Len(f) = k /\ DOMAIN f = 1..k
  OBVIOUS
<1>7. slots \in Seq(TasksOf(job.doc)) /\ DOMAIN slots = 1..Len(slots) /\ Len(slots) \in Nat
  BY <1>2, <1>5, <1>6
<1> QED BY <1>4, <1>7 DEF used, slots, Quiet

LEMMA MaterialKeeps ==
  ASSUME IInv, Material
  PROVE  IInv' /\ MetaKept /\ BodyKept
<1> DEFINE T == TasksOf(job.doc)
           sub == MaterialsOf(job.doc)[Here.nr]
           used == job.doc.materials[Here.nr].images
           slots == [i \in DOMAIN used |-> [op |-> "image", nr |-> used[i]]]
           s == [op |-> "sidecar", sub |-> sub]
           w == [op |-> "write", nr |-> Here.nr]
           rest == Tail(job.todo)
           tasks == IF Kept(sub) THEN <<s>> ELSE slots \o <<w>> \o <<s>>
<1>1. /\ ~Idle /\ At("pass") /\ Here.nr \in DOMAIN job.doc.materials
      /\ job.todo # <<>> /\ Head(job.todo) = Here
      /\ Here.op = "material" /\ rest \in Seq(T) /\ Pending(job.todo, Seen) /\ Pending(rest, Seen)
  BY OnTask DEF Material, Here
<1>2. /\ job.doc \in Exports /\ Typed /\ job.meta \in Metas /\ minted \in Nat
      /\ JobOK(job) /\ job.todo \in Seq(T)
  BY <1>1, Working
<1>3. sub \in Generated /\ used \in Seq(DOMAIN job.doc.images)
  BY <1>1, <1>2, Keys
<1>4. s \in T /\ w \in T
  BY <1>1, <1>3 DEF TasksOf
<1>5. slots \in Seq(T) /\ Quiet(slots)
  <2>1. DOMAIN used = 1..Len(used) /\ Len(used) \in Nat
        /\ \A i \in DOMAIN used : used[i] \in DOMAIN job.doc.images
    <3> HIDE DEF used
    <3> QED BY <1>3
  <2>2. slots \in [1..Len(used) -> T]
    <3> HIDE DEF used
    <3> QED BY <2>1 DEF TasksOf
  <2>3. ASSUME NEW n \in Nat, NEW f \in [1..n -> T] PROVE f \in Seq(T)
    OBVIOUS
  <2>4. Quiet(slots)
    BY DEF Quiet
  <2> HIDE DEF slots, used, T
  <2> QED BY <2>1, <2>2, <2>3, <2>4
<1>6. NoWrite(rest)
  BY <1>1, <1>2, NothingPending
<1>7. s.op = "sidecar" /\ w.op = "write" /\ w.nr = Here.nr
  OBVIOUS
<1>8. tasks \in Seq(T) /\ Pending(tasks \o rest, Seen)
  <2>1. CASE Kept(sub)
    <3>1. tasks = <<s>>
      BY <2>1
    <3> HIDE DEF tasks, s, rest, T
    <3>2. <<s>> \in Seq(T) /\ Quiet(<<s>>)
      BY <1>4, <1>7, One DEF Quiet
    <3> QED BY <1>1, <3>1, <3>2, PendingLater
  <2>2. CASE ~Kept(sub)
    <3>1. tasks = slots \o <<w>> \o <<s>>
      BY <2>2
    <3>2. Seen[MaterialsOf(job.doc)[w.nr]] = NoFile
      BY <1>3, <1>7, <2>2 DEF Kept, Exists, Seen
    <3> HIDE DEF tasks, slots, s, w, rest, T
    <3>3. <<w>> \in Seq(T) /\ <<s>> \in Seq(T)
      BY <1>4, One
    <3>4. slots \o <<w>> \in Seq(T)
      BY <1>5, <3>3, Joined
    <3>5. tasks \in Seq(T)
      BY <3>1, <3>3, <3>4, Joined
    <3>6. Pending(tasks \o rest, Seen)
      BY <1>1, <1>4, <1>5, <1>6, <1>7, <3>1, <3>2, PendingMaterial
    <3> QED BY <3>5, <3>6
  <2> QED BY <2>1, <2>2
<1>9. /\ job' = Register(Then(tasks), sub)
      /\ UNCHANGED <<export, body, meta, faults>> /\ minted' \in Nat
  BY <1>2 DEF Material, Mints
<1> HIDE DEF tasks, sub, rest, T
<1>10. /\ JobOK(Then(tasks)) /\ Then(tasks).at = "pass" /\ Then(tasks).meta = job.meta
       /\ Then(tasks).todo = tasks \o rest
       /\ Then(tasks).doc = job.doc /\ Then(tasks).late = job.late
  BY <1>1, <1>8, Continued DEF T, rest
<1>11. /\ JobOK(job') /\ job'.at = "pass" /\ job'.todo = tasks \o rest
       /\ Extends(job'.meta, job.meta)
       /\ job'.doc = job.doc /\ job'.late = job.late
  BY <1>2, <1>3, <1>9, <1>10, Records
<1>12. Pending(job'.todo, Seen)
  BY <1>8, <1>11
<1> QED BY <1>1, <1>9, <1>11, <1>12, OnwardQuietly

LEMMA ImageKnownKeeps ==
  ASSUME IInv, ImageKnown
  PROVE  IInv' /\ MetaKept /\ BodyKept
<1>1. ~Idle /\ At("pass") /\ job.todo # <<>>
  BY OnTask DEF ImageKnown
<1>2. minted \in Nat
  BY <1>1, Working
<1>3. LET k == Then(<<>>)
      IN  /\ JobOK(k) /\ k.at = "pass"
          /\ Extends(k.meta, job.meta) /\ Pending(k.todo, Seen)
          /\ k.doc = job.doc /\ k.late = job.late
  BY <1>1, Done
<1>4. LET k == Caching(Then(<<>>), Here.nr, NoGuid)
      IN  /\ JobOK(k) /\ k.at = "pass"
          /\ Extends(k.meta, job.meta) /\ Pending(k.todo, Seen)
          /\ k.doc = job.doc /\ k.late = job.late
  BY <1>3, Cached
<1>5. /\ job' = Then(<<>>) \/ job' = Caching(Then(<<>>), Here.nr, NoGuid)
      /\ UNCHANGED <<export, body, meta, faults>> /\ minted' \in Nat
  BY <1>2 DEF ImageKnown
<1> QED BY <1>1, <1>3, <1>4, <1>5, OnwardQuietly

\* A generated file is written and the metafiles are not.
LEMMA OnwardWriting ==
  ASSUME IInv, At("pass") \/ At("extract"),
         UNCHANGED <<export, meta>>, minted' \in Nat, faults' \in Nat,
         NEW g \in Generated, Seen[g] = NoFile,
         body' = [f \in Generated |-> body'[f]],
         \A f \in Generated : f # g => body'[f] = body[f],
         NEW k, JobOK(k), k.at = "pass", Extends(k.meta, job.meta),
         k.doc = job.doc, k.late = job.late, Pending(k.todo, Seen'),
         job' = k
  PROVE  IInv' /\ MetaKept /\ BodyKept
<1>1. ~Idle
  BY DEF At, Idle
<1>2. Typed /\ JobOK(job)
      /\ meta = [b \in Assets |-> meta[b]]
      /\ \A b \in Sources : meta[b] \in Metas \cup {NoFile, Unreadable}
  BY <1>1, Working
<1>3. /\ meta' = [b \in Assets |-> meta'[b]]
      /\ \A b \in Sources : meta'[b] \in Metas \cup {NoFile, Unreadable}
      /\ meta'[Model] = meta[Model]
  BY <1>2
<1>4. IInv'
  BY <1>2, <1>3, Onward
<1>5. BodyKept
  BY <1>1 DEF BodyKept, Overtaken, Seen, Exists
<1> QED BY <1>2, <1>4, <1>5, MetaSame

LEMMA WriteMaterialKeeps ==
  ASSUME IInv, WriteMaterial
  PROVE  IInv' /\ MetaKept /\ BodyKept
<1> DEFINE g == MaterialsOf(job.doc)[Here.nr]
           other == [job EXCEPT !.todo = Tail(Tail(job.todo))]
<1>1. /\ ~Idle /\ At("pass") /\ Here.nr \in DOMAIN job.doc.materials
      /\ job.todo # <<>> /\ Head(job.todo) = Here
      /\ Here.op = "write" /\ Tail(job.todo) \in Seq(TasksOf(job.doc))
      /\ Pending(job.todo, Seen)
  BY OnTask DEF WriteMaterial, Here
<1>2. /\ job.doc \in Exports /\ Typed /\ JobOK(job) /\ minted \in Nat /\ job.meta \in Metas
      /\ job.todo \in Seq(TasksOf(job.doc)) /\ job.at = "pass"
  BY <1>1, Working DEF At
<1>3. g \in Generated
  BY <1>1, <1>2, Keys
<1>4. Seen[g] = NoFile /\ Tail(job.todo) # <<>>
  <2>1. job.todo[1] = Here /\ 1 \in DOMAIN job.todo /\ Len(job.todo) \in Nat
        /\ Len(Tail(job.todo)) = Len(job.todo) - 1
    BY <1>1, <1>2, Rest
  <2>2. Seen[g] = NoFile /\ 1 < Len(job.todo)
    BY <1>1, <2>1 DEF Pending
  <2>3. Len(Tail(job.todo)) > 0
    BY <2>1, <2>2
  <2>4. Tail(job.todo) # <<>>
    BY <2>3
  <2> QED BY <2>2, <2>4
<1>5. NoWrite(Tail(job.todo))
  BY <1>1, <1>2, NothingPending
<1>6. NoWrite(Tail(Tail(job.todo))) /\ Tail(Tail(job.todo)) \in Seq(TasksOf(job.doc))
  <2> DEFINE rest == Tail(job.todo)
  <2>1. rest \in Seq(TasksOf(job.doc)) /\ rest # <<>> /\ NoWrite(rest)
    BY <1>1, <1>4, <1>5
  <2> HIDE DEF rest
  <2>2. NoWrite(Tail(rest)) /\ Tail(rest) \in Seq(TasksOf(job.doc))
    BY <2>1, Rest DEF NoWrite
  <2> QED BY <2>2 DEF rest
<1>7. /\ JobOK(Then(<<>>)) /\ Then(<<>>).at = "pass"
      /\ Extends(Then(<<>>).meta, job.meta) /\ Then(<<>>).todo = Tail(job.todo)
      /\ Then(<<>>).doc = job.doc /\ Then(<<>>).late = job.late
  BY <1>1, Done
<1>8. /\ JobOK(other) /\ other.at = "pass" /\ other.meta = job.meta
      /\ other.todo = Tail(Tail(job.todo))
      /\ other.doc = job.doc /\ other.late = job.late
  BY <1>2, <1>6, NewTodo
<1>9. WriteBody(g, Mapped(job.doc.materials[Here.nr]), Then(<<>>), other)
  BY DEF WriteMaterial
<1>10. UNCHANGED <<export, meta>> /\ minted' \in Nat
  BY <1>2 DEF WriteMaterial
<1> HIDE DEF g, other
<1>11. /\ body' = [f \in Generated |-> body'[f]]
       /\ \A f \in Generated : f # g => body'[f] = body[f]
       /\ faults' \in Nat
       /\ job' = Then(<<>>) \/ job' = Failing(other)
  BY <1>2, <1>3, <1>4, <1>9, BodyWritten
<1>12. /\ JobOK(Failing(other)) /\ Failing(other).at = "pass"
       /\ Extends(Failing(other).meta, job.meta)
       /\ Failing(other).todo = Tail(Tail(job.todo))
       /\ Failing(other).doc = job.doc /\ Failing(other).late = job.late
  BY <1>2, <1>8, Failed, Reflexive
<1>13. Pending(Tail(job.todo), Seen') /\ Pending(Tail(Tail(job.todo)), Seen')
  BY <1>5, <1>6, NoWritePending
<1>14. CASE job' = Then(<<>>)
  BY <1>1, <1>3, <1>4, <1>7, <1>10, <1>11, <1>13, <1>14, OnwardWriting
<1>15. CASE job' = Failing(other)
  BY <1>1, <1>3, <1>10, <1>4, <1>11, <1>12, <1>13, <1>15, OnwardWriting
<1> QED BY <1>11, <1>14, <1>15

\* An image is not where a material is to be.
LEMMA ImageElsewhere ==
  ASSUME job.doc \in Exports, NEW i \in DOMAIN job.doc.images, NEW files, NEW after,
         \A f \in Generated : f # ImagesOf(job.doc)[i] => after[f] = files[f]
  PROVE  \A n \in DOMAIN job.doc.materials :
            after[MaterialsOf(job.doc)[n]] = files[MaterialsOf(job.doc)[n]]
<1>1. ImagesOf(job.doc)[i][1] = "image"
  BY Keys
<1>2. \A n \in DOMAIN job.doc.materials :
         MaterialsOf(job.doc)[n] \in Generated /\ MaterialsOf(job.doc)[n][1] = "material"
  BY Keys
<1> QED BY <1>1, <1>2

\* The record of an image that is about to be extracted is made first.
LEMMA ExtractAhead ==
  ASSUME IInv, ImageEmbedded, ~Kept(ImagesOf(job.doc)[Here.nr])
  PROVE  IInv' /\ MetaKept /\ BodyKept
<1> DEFINE sub == ImagesOf(job.doc)[Here.nr]
           k == Register(Goto("extract"), sub)
<1>1. /\ ~Idle /\ At("pass") /\ Here.nr \in DOMAIN job.doc.images
      /\ job.todo # <<>> /\ Here.op = "image" /\ Pending(job.todo, Seen)
  BY OnTask DEF ImageEmbedded
<1>2. /\ job.doc \in Exports /\ Typed /\ JobOK(job) /\ minted \in Nat /\ faults \in Nat
      /\ job.meta \in Metas /\ Model \in Sources
  BY <1>1, Working
<1>3. sub \in Generated
  BY <1>1, <1>2, Keys
<1>4. /\ UNCHANGED <<export, body, meta, faults>> /\ minted' \in Nat /\ job' = k
  BY <1>2 DEF ImageEmbedded, Mints
<1>5. LET g == Goto("extract")
      IN  /\ JobOK(g) /\ g.at = "extract" /\ g.todo = job.todo /\ g.meta = job.meta
          /\ g.doc = job.doc /\ g.late = job.late /\ g.images = job.images
  <2>1. Goto("extract").images = job.images
    BY <1>2 DEF Goto, JobOK, JobOf
  <2> QED BY <1>2, <2>1, NewStep DEF Goto
<1>6. /\ JobOK(k) /\ k.at = "extract" /\ k.todo = job.todo /\ Extends(k.meta, job.meta)
      /\ k.doc = job.doc /\ k.late = job.late
  <2> HIDE DEF sub
  <2> QED BY <1>2, <1>3, <1>5, Records
<1>7. /\ k.images = job.images /\ Has(k.meta, sub)
  <2>1. k.images = job.images /\ k.meta = Registered(job.meta, sub, minted + 1)
    <3> HIDE DEF sub
    <3> QED BY <1>5, RegisterRest
  <2> QED BY <1>2, <1>3, <2>1, Filed
<1>8. Seen' = Seen /\ Seen[sub] = NoFile
  BY <1>3, <1>4, <1>6 DEF Seen, Kept, Exists
<1>9. /\ Here.nr \notin DOMAIN job.images /\ job.doc.images[Here.nr].holds = Embedded
      /\ Here = Head(job.todo)
  BY DEF ImageEmbedded, Here
<1>10. Waiting(job, Seen)'
  BY <1>1, <1>4, <1>6, <1>7, <1>8, <1>9 DEF Waiting
<1>11. Typed'
  BY <1>2, <1>4, <1>6 DEF Typed
<1> HIDE DEF k, sub
<1>12. Pending(job.todo, Seen)'
  BY <1>1, <1>4, <1>6, <1>8 DEF Pending
<1>13. Readable(meta[Model]) => Extends(k.meta, meta[Model])
  <2>1. Readable(meta[Model]) => Extends(job.meta, meta[Model])
    BY <1>1 DEF IInv, Knows
  <2>2. k.meta \in Metas
    BY <1>6 DEF JobOK
  <2> QED BY <1>2, <1>6, <2>1, <2>2, ReadableMeta, Transitive
<1>14. Knows'
  BY <1>4, <1>6, <1>10, <1>12, <1>13 DEF Knows, At
<1> QED BY <1>2, <1>4, <1>11, <1>14, MetaSame DEF IInv, BodyKept

LEMMA ImageEmbeddedKeeps ==
  ASSUME IInv, ImageEmbedded
  PROVE  IInv' /\ MetaKept /\ BodyKept
<1> DEFINE T == TasksOf(job.doc)
           sub == ImagesOf(job.doc)[Here.nr]
           guid == RecordOf(Register(job, sub).meta, sub).guid
           s == [op |-> "sidecar", sub |-> sub]
           rest == Tail(job.todo)
           after == Register(Then(<<s>>), sub)
           next == Caching(after, Here.nr, guid)
<1>1. /\ ~Idle /\ At("pass") /\ Here.nr \in DOMAIN job.doc.images
      /\ job.todo # <<>> /\ rest \in Seq(T) /\ Pending(rest, Seen)
  BY OnTask DEF ImageEmbedded
<1>2. job.doc \in Exports /\ Typed /\ JobOK(job) /\ minted \in Nat
  BY <1>1, Working
<1>3. sub \in Generated
  BY <1>1, <1>2, Keys
<1>4. s \in T /\ s.op = "sidecar"
  BY <1>3 DEF TasksOf
<1>5. CASE ~Kept(sub)
  BY <1>5, ExtractAhead
<1>6. CASE Kept(sub)
  <2>1. /\ UNCHANGED <<export, body, meta, faults>> /\ minted' \in Nat
        /\ job' = next
    BY <1>2, <1>6 DEF ImageEmbedded, Mints
  <2> HIDE DEF s, T, guid
  <2>2. <<s>> \in Seq(T) /\ Pending(<<s>> \o rest, Seen)
    <3> HIDE DEF rest
    <3>1. <<s>> \in Seq(T) /\ Quiet(<<s>>)
      BY <1>4, One DEF Quiet
    <3> QED BY <1>1, <3>1, PendingLater
  <2>3. /\ JobOK(Then(<<s>>)) /\ Then(<<s>>).at = "pass" /\ Then(<<s>>).meta = job.meta
        /\ Then(<<s>>).todo = <<s>> \o rest
        /\ Then(<<s>>).doc = job.doc /\ Then(<<s>>).late = job.late
    BY <1>1, <2>2, Continued DEF T
  <2>4. /\ JobOK(after) /\ after.at = "pass" /\ Extends(after.meta, job.meta)
        /\ after.todo = <<s>> \o rest
        /\ after.doc = job.doc /\ after.late = job.late
    BY <1>2, <1>3, <2>3, Records
  <2>5. /\ JobOK(next) /\ next.at = "pass" /\ Extends(next.meta, job.meta)
        /\ next.todo = <<s>> \o rest
        /\ next.doc = job.doc /\ next.late = job.late
    <3> HIDE DEF after
    <3> QED BY <2>4, Cached
  <2> HIDE DEF next, rest
  <2>6. Pending(next.todo, Seen)
    BY <2>2, <2>5
  <2> QED BY <1>1, <2>1, <2>5, <2>6, OnwardQuietly
<1> QED BY <1>5, <1>6

LEMMA ExtractKeeps ==
  ASSUME IInv, Extract
  PROVE  IInv' /\ MetaKept /\ BodyKept
<1> DEFINE T == TasksOf(job.doc)
           sub == ImagesOf(job.doc)[Here.nr]
           guid == RecordOf(job.meta, sub).guid
           s == [op |-> "sidecar", sub |-> sub]
           rest == Tail(job.todo)
           next == Caching(Then(<<s>>), Here.nr, guid)
           other == Caching(Then(<<>>), Here.nr, NoGuid)
<1>0. At("extract")
  BY DEF Extract
<1>1. /\ ~Idle /\ Here.nr \in DOMAIN job.doc.images
      /\ job.todo # <<>> /\ rest \in Seq(T) /\ Pending(rest, Seen)
  BY <1>0, OnExtract
<1>2. /\ job.doc \in Exports /\ Typed /\ JobOK(job) /\ minted \in Nat /\ faults \in Nat
      /\ body = [f \in Generated |-> body[f]]
  BY <1>1, Working
<1>3. sub \in Generated /\ Seen[sub] = NoFile
  <2>1. Seen[sub] = NoFile
    BY <1>0 DEF IInv, Knows, Waiting, Here
  <2> QED BY <1>1, <1>2, <2>1, Keys
<1>4. s \in T /\ s.op = "sidecar"
  BY <1>3 DEF TasksOf
<1>5. /\ UNCHANGED <<export, meta>> /\ minted' \in Nat
      /\ WriteBody(sub, Pixels, next, other)
  BY <1>2 DEF Extract
<1> HIDE DEF s, T, guid
<1>6. <<s>> \in Seq(T) /\ Pending(<<s>> \o rest, Seen) /\ <<s>> \o rest \in Seq(T)
  <2> HIDE DEF rest
  <2>1. <<s>> \in Seq(T) /\ Quiet(<<s>>)
    BY <1>4, One DEF Quiet
  <2> QED BY <1>1, <2>1, PendingLater, Joined
<1>7. /\ JobOK(Then(<<s>>)) /\ Then(<<s>>).at = "pass" /\ Then(<<s>>).todo = <<s>> \o rest
      /\ Extends(Then(<<s>>).meta, job.meta)
      /\ Then(<<s>>).doc = job.doc /\ Then(<<s>>).late = job.late
  BY <1>0, <1>1, <1>6, Continued DEF T
<1>8. /\ JobOK(Then(<<>>)) /\ Then(<<>>).at = "pass" /\ Then(<<>>).todo = rest
      /\ Extends(Then(<<>>).meta, job.meta)
      /\ Then(<<>>).doc = job.doc /\ Then(<<>>).late = job.late
  BY <1>0, <1>1, Done
<1>9. /\ JobOK(next) /\ next.at = "pass" /\ Extends(next.meta, job.meta)
      /\ next.todo = <<s>> \o rest
      /\ next.doc = job.doc /\ next.late = job.late
  BY <1>7, Cached
<1>10. /\ JobOK(other) /\ other.at = "pass" /\ Extends(other.meta, job.meta)
       /\ other.todo = rest
       /\ other.doc = job.doc /\ other.late = job.late
  BY <1>8, Cached
<1>11. /\ JobOK(Failing(other)) /\ Failing(other).at = "pass"
       /\ Extends(Failing(other).meta, job.meta) /\ Failing(other).todo = rest
       /\ Failing(other).doc = job.doc /\ Failing(other).late = job.late
  <2> HIDE DEF other
  <2> QED BY <1>10, Failed
<1> HIDE DEF sub, next, other, rest
<1>12. /\ body' = [f \in Generated |-> body'[f]]
       /\ \A f \in Generated : f # sub => body'[f] = body[f]
       /\ faults' \in Nat
       /\ job' = next \/ job' = Failing(other)
  BY <1>2, <1>3, <1>5, BodyWritten
<1>13. job'.late = job.late
  BY <1>9, <1>11, <1>12
<1>14. \A n \in DOMAIN job.doc.materials :
          Seen'[MaterialsOf(job.doc)[n]] = Seen[MaterialsOf(job.doc)[n]]
  <2>1. \A f \in Generated : f # ImagesOf(job.doc)[Here.nr] => Seen'[f] = Seen[f]
    BY <1>12, <1>13 DEF sub, Seen
  <2> QED BY <1>1, <1>2, <2>1, ImageElsewhere
<1>15. Pending(<<s>> \o rest, Seen') /\ Pending(rest, Seen')
  BY <1>1, <1>2, <1>6, <1>14, PendingSame DEF T
<1>16. CASE job' = next
  BY <1>0, <1>3, <1>5, <1>9, <1>12, <1>15, <1>16, OnwardWriting
<1>17. CASE job' = Failing(other)
  BY <1>0, <1>3, <1>5, <1>11, <1>12, <1>15, <1>17, OnwardWriting
<1> QED BY <1>12, <1>16, <1>17

\* A metafile is written, neither the one of the model nor one that is there.
LEMMA OnwardRecording ==
  ASSUME IInv, At("pass"), UNCHANGED <<export, body>>, minted' \in Nat,
         NEW a \in Assets \ {Model}, a \notin Sources \/ ~Exists(meta, a),
         NEW m, a \in Sources => m \in Metas, NEW k, WriteMeta(a, m, k, k),
         JobOK(k), k.at = "pass", Extends(k.meta, job.meta),
         k.doc = job.doc, k.late = job.late, Pending(k.todo, Seen)
  PROVE  IInv' /\ MetaKept /\ BodyKept
<1>1. ~Idle
  BY DEF At, Idle
<1>2. Typed /\ JobOK(job) /\ Model \in Assets
      /\ body = [f \in Generated |-> body[f]]
  BY <1>1, Working
<1>3. /\ meta' = [b \in Assets |-> meta'[b]]
      /\ \A b \in Assets \ {a} : meta'[b] = meta[b]
      /\ \A b \in Sources : meta'[b] \in Metas \cup {NoFile, Unreadable}
      /\ faults' \in Nat
      /\ job' = k \/ job' = Failing(k)
  BY <1>2, MetaWritten
<1>4. /\ meta'[Model] = meta[Model]
      /\ body' = [f \in Generated |-> body'[f]]
  BY <1>2, <1>3
<1>5. /\ JobOK(Failing(k)) /\ Failing(k).at = "pass"
      /\ Extends(Failing(k).meta, job.meta) /\ Failing(k).todo = k.todo
      /\ Failing(k).doc = job.doc /\ Failing(k).late = job.late
  BY Failed
<1>9. Pending(k.todo, Seen')
  <2>1. job'.late = job.late
    BY <1>3, <1>5
  <2>2. Seen' = Seen
    BY <2>1 DEF Seen
  <2> QED BY <2>2
<1>6. MetaKept
  BY <1>2, <1>3, MetaElsewhere
<1>7. CASE job' = k
  BY <1>2, <1>3, <1>4, <1>6, <1>7, <1>9, Onward DEF BodyKept
<1>8. CASE job' = Failing(k)
  <2>1. IInv'
    BY <1>2, <1>3, <1>4, <1>5, <1>8, <1>9, Onward
  <2> QED BY <1>6, <2>1 DEF BodyKept
<1> QED BY <1>3, <1>7, <1>8

LEMMA WriteSidecarKeeps ==
  ASSUME IInv, WriteSidecar
  PROVE  IInv' /\ MetaKept /\ BodyKept
<1> DEFINE sub == Here.sub
           m == Sidecar(RecordOf(job.meta, sub).guid)
<1>1. ~Idle /\ At("pass") /\ job.todo # <<>> /\ sub \in Generated
  BY OnTask DEF WriteSidecar
<1>2. /\ Typed /\ minted \in Nat /\ job.meta \in Metas
      /\ Sources \cap Generated = {} /\ Model \in Sources /\ Generated \subseteq Assets
  BY <1>1, Working
<1>3. /\ JobOK(Then(<<>>)) /\ Then(<<>>).at = "pass"
      /\ Extends(Then(<<>>).meta, job.meta) /\ Pending(Then(<<>>).todo, Seen)
      /\ Then(<<>>).doc = job.doc /\ Then(<<>>).late = job.late
  BY <1>1, Done
<1>4. UNCHANGED <<export, body>> /\ minted' \in Nat
  BY <1>2 DEF WriteSidecar
<1>5. CASE job' = Then(<<>>) /\ UNCHANGED <<meta, faults, settled>>
  BY <1>1, <1>3, <1>4, <1>5, OnwardQuietly
<1>6. CASE WriteMeta(sub, m, Then(<<>>), Then(<<>>))
  <2>1. sub \in Assets \ {Model} /\ sub \notin Sources
    BY <1>1, <1>2
  <2> HIDE DEF m, sub
  <2> QED BY <1>1, <1>3, <1>4, <1>6, <2>1, OnwardRecording
<1> QED BY <1>5, <1>6 DEF WriteSidecar

LEMMA ImageBesideKeeps ==
  ASSUME IInv, ImageBeside
  PROVE  IInv' /\ MetaKept /\ BodyKept
<1> DEFINE p == job.doc.images[Here.nr].holds
           m == Loaded(p)
           next == Caching(Then(<<>>), Here.nr, m.guid)
<1>1. ~Idle /\ At("pass") /\ job.todo # <<>> /\ p \in Pictures
  BY OnTask DEF ImageBeside
<1>2. /\ Typed /\ minted \in Nat /\ p \in Sources /\ p \in Assets \ {Model}
  BY <1>1, Working
<1>3. /\ JobOK(Then(<<>>)) /\ Then(<<>>).at = "pass"
      /\ Extends(Then(<<>>).meta, job.meta) /\ Pending(Then(<<>>).todo, Seen)
      /\ Then(<<>>).doc = job.doc /\ Then(<<>>).late = job.late
  BY <1>1, Done
<1>4. m \in Metas
  BY <1>2, LoadedMeta
<1>5. /\ UNCHANGED <<export, body>> /\ minted' \in Nat
      /\ IF Exists(meta, p) THEN job' = next /\ UNCHANGED <<meta, faults, settled>>
                            ELSE WriteMeta(p, m, next, next)
  BY <1>2 DEF ImageBeside
<1> HIDE DEF p, m
<1>6. /\ JobOK(next) /\ next.at = "pass"
      /\ Extends(next.meta, job.meta) /\ Pending(next.todo, Seen)
      /\ next.doc = job.doc /\ next.late = job.late
  BY <1>3, Cached
<1> HIDE DEF next
<1>7. CASE Exists(meta, p)
  BY <1>1, <1>5, <1>6, <1>7, OnwardQuietly
<1>8. CASE ~Exists(meta, p)
  BY <1>1, <1>2, <1>4, <1>5, <1>6, <1>8, OnwardRecording
<1> QED BY <1>7, <1>8

LEMMA ImportStepKeeps ==
  ASSUME IInv, ImportStep
  PROVE  IInv' /\ MetaKept /\ BodyKept
BY PersistKeeps, LoadKeeps, ProduceKeeps, MaterialKeeps, WriteMaterialKeeps,
   WriteSidecarKeeps, ImageKnownKeeps, ImageBesideKeeps, ImageEmbeddedKeeps,
   ExtractKeeps, WriteRegistryKeeps, ReturnKeeps
   DEF ImportStep

-----------------------------------------------------------------------------
(* The author, and the end of the process.                                  *)

\* What the author does during an import leaves it its document and its tasks,
\* and gives it no file it had found missing.
LEMMA Disturbed ==
  ASSUME IInv, Reexport \/ \E g \in Generated : EditFile(g) \/ DeleteFile(g), ~Idle
  PROVE  /\ JobOK(job') /\ job'.at = job.at /\ job'.asset = job.asset
         /\ job'.meta = job.meta /\ job'.doc = job.doc /\ job'.todo = job.todo
         /\ job'.changed = job.changed /\ job'.images = job.images /\ job'.clean = FALSE
         /\ \A i \in DOMAIN job.todo :
               (At("pass") \/ At("extract")) /\ job.todo[i].op = "write" =>
                  LET f == MaterialsOf(job.doc)[job.todo[i].nr]
                  IN  f \in Generated /\ Seen[f] = NoFile => Seen'[f] = NoFile
         /\ At("extract") =>
               LET f == ImagesOf(job.doc)[Head(job.todo).nr]
               IN  f \in Generated /\ Seen[f] = NoFile => Seen'[f] = NoFile
<1>1. JobOK(job) /\ job = JobOf(job) /\ body = [f \in Generated |-> body[f]]
  BY Working DEF JobOK
<1>2. CASE Reexport \/ \E g \in Generated : DeleteFile(g)
  <2>1. job' = Failing(job)
    BY <1>2 DEF Reexport, DeleteFile
  <2>2. \A f \in Generated : body'[f] \in {body[f], NoFile}
    BY <1>1, <1>2 DEF Reexport, DeleteFile, Removed
  <2>3. job' = [job EXCEPT !.clean = FALSE]
    BY <2>1 DEF Failing, Idle
  <2>4. /\ JobOK(job') /\ job'.at = job.at /\ job'.asset = job.asset
        /\ job'.meta = job.meta /\ job'.doc = job.doc /\ job'.todo = job.todo
        /\ job'.changed = job.changed /\ job'.images = job.images /\ job'.clean = FALSE
        /\ job'.late = job.late
    BY <1>1, <2>3 DEF JobOK, JobOf
  <2>5. \A f \in Generated : Seen[f] = NoFile => Seen'[f] = NoFile
    BY <2>2, <2>4 DEF Seen
  <2> QED BY <2>4, <2>5
<1>3. ASSUME NEW g \in Generated, EditFile(g)
      PROVE  /\ JobOK(job') /\ job'.at = job.at /\ job'.asset = job.asset
             /\ job'.meta = job.meta /\ job'.doc = job.doc /\ job'.todo = job.todo
             /\ job'.changed = job.changed /\ job'.images = job.images
             /\ job'.clean = FALSE
             /\ \A f \in Generated : Seen[f] = NoFile =>
                   Seen'[f] = NoFile \/ (f = g /\ ~Awaited(job, g))
  <2> DEFINE late == IF Awaited(job, g) THEN job.late \cup {g} ELSE job.late
  <2>1. job' = [job EXCEPT !.clean = FALSE, !.late = late]
    <3>1. Failing(job) = [job EXCEPT !.clean = FALSE]
      BY DEF Failing, Idle
    <3>2. Failing(job) = [Failing(job) EXCEPT !.late = job.late]
      BY <1>1, <3>1 DEF JobOf
    <3> QED BY <1>1, <1>3, <3>1, <3>2 DEF EditFile, JobOf
  <2> HIDE DEF late
  <2>2. /\ JobOK(job') /\ job'.at = job.at /\ job'.asset = job.asset
        /\ job'.meta = job.meta /\ job'.doc = job.doc /\ job'.todo = job.todo
        /\ job'.changed = job.changed /\ job'.images = job.images /\ job'.clean = FALSE
        /\ job'.late = late
    BY <1>1, <2>1 DEF JobOK, JobOf
  <2>3. \A f \in Generated : f # g => body'[f] = body[f]
    BY <1>1, <1>3 DEF EditFile
  <2>4. ASSUME NEW f \in Generated, Seen[f] = NoFile, f # g \/ Awaited(job, g)
        PROVE  Seen'[f] = NoFile
    BY <2>2, <2>3, <2>4 DEF Seen, late
  <2> QED BY <2>2, <2>4
<1>4. ASSUME NEW g \in Generated, EditFile(g)
      PROVE  /\ \A i \in DOMAIN job.todo :
                   (At("pass") \/ At("extract")) /\ job.todo[i].op = "write" =>
                      LET f == MaterialsOf(job.doc)[job.todo[i].nr]
                      IN  f \in Generated /\ Seen[f] = NoFile => Seen'[f] = NoFile
             /\ At("extract") =>
                   LET f == ImagesOf(job.doc)[Head(job.todo).nr]
                   IN  f \in Generated /\ Seen[f] = NoFile => Seen'[f] = NoFile
  BY <1>3, <1>4 DEF Awaited, At
<1> QED BY <1>2, <1>3, <1>4

LEMMA OutsideKeeps ==
  ASSUME IInv, \/ Reexport
               \/ \E g \in Generated : EditFile(g) \/ DeleteFile(g)
               \/ Restart
  PROVE  IInv' /\ MetaKept /\ (edits \in Nat /\ edits' = edits => BodyKept)
<1>1. Typed /\ faults \in Nat
  BY DEF IInv, Typed
<1>2. CASE Restart
  <2>1. job' = NoJob /\ UNCHANGED <<export, body, meta, minted>> /\ faults' \in Nat
    BY <1>1, <1>2 DEF Restart
  <2>2. IInv'
    BY <1>1, <2>1 DEF IInv, Typed, Knows, At, NoJob
  <2> QED BY <1>1, <2>1, <2>2, MetaSame DEF BodyKept
<1>3. CASE Reexport \/ \E g \in Generated : EditFile(g) \/ DeleteFile(g)
  <2>1. /\ UNCHANGED <<meta, minted, faults>> /\ export' \in Exports
        /\ edits' = edits + 1
    BY <1>1, <1>3 DEF Reexport, EditFile, DeleteFile, Edits, Typed
  <2>2. edits \in Nat => edits' # edits
    BY <2>1
  <2>3. body' = [g \in Generated |-> body'[g]]
    BY <1>1, <1>3 DEF Typed, Reexport, EditFile, DeleteFile, Removed
  <2>4. CASE Idle
    <3>1. job = NoJob /\ job' = NoJob
      BY <1>1, <1>3, <2>4 DEF Typed, Idle, JobOK, Reexport, EditFile, DeleteFile,
                              Awaited, Failing, NoJob
    <3>2. IInv'
      BY <1>1, <2>1, <2>3, <3>1 DEF IInv, Typed, Knows, At, NoJob
    <3> QED BY <1>1, <2>1, <2>2, <3>2, MetaSame
  <2>5. CASE ~Idle
    <3>1. /\ JobOK(job') /\ job'.at = job.at /\ job'.asset = job.asset
          /\ job'.meta = job.meta /\ job'.doc = job.doc /\ job'.todo = job.todo
          /\ job'.images = job.images
      BY <1>3, <2>5, Disturbed
    <3>2. Typed'
      BY <1>1, <2>1, <2>3, <3>1 DEF Typed
    <3>3. job.doc \in Exports /\ job.todo \in Seq(TasksOf(job.doc))
      BY <2>5, Working
    <3>4. At("pass") \/ At("extract") => Pending(job.todo, Seen)'
      <4>1. SUFFICES ASSUME At("pass") \/ At("extract"), NEW i \in DOMAIN job.todo,
                            job.todo[i].op = "write"
                     PROVE  Seen'[MaterialsOf(job.doc)[job.todo[i].nr]] = NoFile
        BY <3>1 DEF Pending, IInv, Knows
      <4>2. Seen[MaterialsOf(job.doc)[job.todo[i].nr]] = NoFile
        BY <4>1 DEF Pending, IInv, Knows
      <4>3. MaterialsOf(job.doc)[job.todo[i].nr] \in Generated
        <5>1. job.todo[i] \in TasksOf(job.doc)
          BY <3>3, <4>1
        <5> QED BY <3>3, <4>1, <5>1, TaskKinds, Keys
      <4> QED BY <1>3, <2>5, <4>1, <4>2, <4>3, Disturbed
    <3>5. At("extract") => Waiting(job, Seen)'
      <4>1. SUFFICES ASSUME At("extract") PROVE Waiting(job, Seen)'
        OBVIOUS
      <4>2. Waiting(job, Seen)
        BY <4>1 DEF IInv, Knows
      <4>3. ImagesOf(job.doc)[Head(job.todo).nr] \in Generated
        BY <3>3, <4>1, OnExtract, Keys DEF Here
      <4>4. Seen'[ImagesOf(job.doc)[Head(job.todo).nr]] = NoFile
        BY <1>3, <2>5, <4>1, <4>2, <4>3, Disturbed DEF Waiting
      <4> QED BY <3>1, <4>2, <4>4 DEF Waiting
    <3>6. Knows'
      BY <2>1, <3>1, <3>4, <3>5 DEF IInv, Knows, At
    <3> QED BY <1>1, <2>1, <2>2, <3>2, <3>6, MetaSame DEF IInv
  <2> QED BY <2>4, <2>5
<1> QED BY <1>2, <1>3

LEMMA NextInv ==
  IInv /\ [Next]_vars =>
     IInv' /\ MetaKept /\ (edits \in Nat /\ edits' = edits => BodyKept)
<1> SUFFICES ASSUME IInv, [Next]_vars
             PROVE  IInv' /\ MetaKept /\ (edits \in Nat /\ edits' = edits => BodyKept)
  OBVIOUS
<1>1. ASSUME NEW a \in {Model} \cup Pictures, Import(a)
      PROVE  IInv' /\ MetaKept /\ BodyKept
  BY <1>1, ImportKeeps DEF Sources
<1>2. CASE ImportStep
  BY <1>2, ImportStepKeeps
<1>3. CASE \/ Reexport
           \/ \E g \in Generated : EditFile(g) \/ DeleteFile(g)
           \/ Restart
  BY <1>3, OutsideKeeps
<1>4. CASE UNCHANGED vars
  <2>1. UNCHANGED <<export, body, meta, minted, job, faults>>
    BY <1>4 DEF vars
  <2>2. IInv'
    BY <2>1 DEF IInv, Typed, Knows, At, JobOK, JobOf, TasksOf, Pending, Seen, Waiting
  <2> QED BY <2>1, <2>2, MetaSame DEF IInv, BodyKept
<1> QED BY <1>1, <1>2, <1>3, <1>4 DEF Next

-----------------------------------------------------------------------------
(* Records of a registry, and the parts of a job the lemmas above leave     *)
(* out.                                                                     *)

LEMMA Least ==
  ASSUME NEW S \in SUBSET Nat, S # {}
  PROVE  \E n \in S : \A m \in S : ~(m < n)
<1> DEFINE R == OpToRel(<, Nat)
<1>1. IsWellFoundedOn(R, Nat)
  BY NatLessThanWellFounded
<1> HIDE DEF R
<1>2. \E n \in S : \A m \in S : <<m, n>> \notin R
  BY <1>1, WFMin
<1> QED BY <1>2 DEF R, OpToRel

LEMMA Element ==
  ASSUME NEW T, NEW s \in Seq(T), NEW i \in DOMAIN s
  PROVE  s[i] \in T
OBVIOUS

\* The record of a sub-asset is the first of its name, and a registry that
\* goes on from another has the same one.
LEMMA Found ==
  ASSUME NEW l \in Metas, NEW sub, Has(l, sub)
  PROVE  /\ RecordOf(l, sub) \in [sub : Generated, guid : Nat]
         /\ \A m \in Metas : Extends(m, l) =>
               Has(m, sub) /\ RecordOf(m, sub) = RecordOf(l, sub)
<1> DEFINE P(m, i) == /\ i \in DOMAIN m.records
                      /\ m.records[i].sub = sub
                      /\ \A j \in 1..(i - 1) : m.records[j].sub # sub
           S == {i \in DOMAIN l.records : l.records[i].sub = sub}
<1>1. \A m \in Metas : /\ m.records \in Seq([sub : Generated, guid : Nat])
                       /\ DOMAIN m.records = 1..Len(m.records) /\ Len(m.records) \in Nat
  BY DEF Metas
<1>2. S \in SUBSET Nat /\ S # {}
  BY <1>1 DEF Has
<1>3. PICK n \in S : \A i \in S : ~(i < n)
  BY <1>2, Least
<1>4. P(l, n)
  BY <1>1, <1>3
<1>5. ASSUME NEW m \in Metas, P(m, n)
      PROVE  RecordOf(m, sub) = m.records[n]
  <2>1. ASSUME NEW i \in DOMAIN m.records, P(m, i) PROVE i = n
    <3>1. i \in Nat /\ n \in Nat
      BY <1>1, <1>3
    <3>2. CASE i < n
      BY <1>1, <1>5, <2>1, <3>1, <3>2
    <3>3. CASE n < i
      BY <1>1, <1>3, <1>5, <2>1, <3>1, <3>3
    <3> QED BY <3>1, <3>2, <3>3
  <2>2. (CHOOSE i \in DOMAIN m.records :
            /\ m.records[i].sub = sub
            /\ \A j \in 1..(i - 1) : m.records[j].sub # sub) = n
    BY <1>5, <2>1
  <2> QED BY <2>2 DEF RecordOf
<1>6. RecordOf(l, sub) = l.records[n]
  BY <1>4, <1>5
<1>7. ASSUME NEW m \in Metas, Extends(m, l)
      PROVE  Has(m, sub) /\ RecordOf(m, sub) = RecordOf(l, sub)
  <2>1. \A i \in 1..n : i \in DOMAIN m.records /\ m.records[i] = l.records[i]
    <3>1. n \in 1..Len(l.records) /\ Len(l.records) \in Nat /\ Len(m.records) \in Nat
      BY <1>1, <1>3
    <3>2. \A i \in 1..Len(l.records) : m.records[i] = l.records[i]
      BY <1>7 DEF Extends
    <3>3. Len(l.records) <= Len(m.records) /\ DOMAIN m.records = 1..Len(m.records)
      BY <1>1, <1>7 DEF Extends
    <3> HIDE DEF S, P
    <3> QED BY <3>1, <3>2, <3>3
  <2>2. n \in 1..n /\ \A j \in 1..(n - 1) : j \in 1..n
    BY <1>1, <1>3
  <2>3. P(m, n)
    BY <1>4, <2>1, <2>2
  <2> QED BY <1>5, <1>6, <2>1, <2>2, <2>3 DEF Has
<1>8. l.records[n] \in [sub : Generated, guid : Nat]
  <2> DEFINE R == [sub : Generated, guid : Nat]
  <2>1. l.records \in Seq(R) /\ n \in DOMAIN l.records
    BY <1>1, <1>3
  <2> HIDE DEF R
  <2>2. l.records[n] \in R
    BY <2>1, Element
  <2> QED BY <2>2 DEF R
<1> QED BY <1>6, <1>7, <1>8

LEMMA ThenRest ==
  ASSUME JobOK(job), NEW tasks
  PROVE  LET k == Then(tasks)
         IN  /\ k.todo = tasks \o Tail(job.todo) /\ k.meta = job.meta
             /\ k.images = job.images /\ k.changed = job.changed /\ k.clean = job.clean
             /\ k.doc = job.doc
BY DEF JobOK, JobOf, Then

LEMMA FailingRest ==
  ASSUME NEW j, JobOK(j)
  PROVE  LET k == Failing(j)
         IN  /\ k.todo = j.todo /\ k.meta = j.meta
             /\ k.images = j.images /\ k.changed = j.changed /\ k.clean = FALSE
             /\ k.doc = j.doc
BY DEF JobOK, JobOf, Failing

LEMMA CachingRest ==
  ASSUME NEW j, JobOK(j), NEW i, NEW guid
  PROVE  LET k == Caching(j, i, guid)
         IN  /\ k.todo = j.todo /\ k.meta = j.meta
             /\ k.images = [n \in DOMAIN j.images \cup {i} |->
                              IF n = i THEN guid ELSE j.images[n]]
             /\ k.changed = j.changed /\ k.clean = j.clean /\ k.doc = j.doc
BY DEF JobOK, JobOf, Caching

-----------------------------------------------------------------------------
(* What is delivered, and what is still to come.                            *)

\* The cache holds identities, a sidecar is only due for what is registered,
\* and the images of a material that is to be written have been looked up, or
\* will be before it.
Ready(j) ==
    /\ \A n \in DOMAIN j.images : j.images[n] \in Nat \cup {NoGuid}
    /\ \A i \in DOMAIN j.todo : j.todo[i].op = "sidecar" => Has(j.meta, j.todo[i].sub)
    /\ \A i \in DOMAIN j.todo : j.todo[i].op = "write" =>
          \A n \in Elements(j.doc.materials[j.todo[i].nr].images) :
             \/ n \in DOMAIN j.images
             \/ \E m \in 1..i - 1 : j.todo[m].op = "image" /\ j.todo[m].nr = n

\* The registry is the one on disk, or will be written, or has nothing in it.
Standing(j, disk) == j.changed \/ j.meta.records = <<>> \/ j.meta = disk[Model]

Writes(x, t, sub) == t.op = "write" /\ MaterialsOf(x)[t.nr] = sub
Embeds(x, n, sub) == x.images[n].holds = Embedded /\ ImagesOf(x)[n] = sub

\* A task of the pass is going to see to a sub-asset.
Coming(j, files, sub) ==
    \E i \in DOMAIN j.todo :
        \/ j.todo[i].op = "material" /\ MaterialsOf(j.doc)[j.todo[i].nr] = sub
        \/ /\ j.todo[i].op = "image" /\ j.todo[i].nr \notin DOMAIN j.images
           /\ Embeds(j.doc, j.todo[i].nr, sub)
        \/ /\ j.todo[i].op = "sidecar" /\ j.todo[i].sub = sub
           /\ files[sub] # NoFile \/ \E m \in 1..i - 1 : Writes(j.doc, j.todo[m], sub)

Made(j, files, disk, sub) ==
    /\ files[sub] # NoFile /\ Readable(disk[sub]) /\ Has(j.meta, sub)
    /\ disk[sub].guid = RecordOf(j.meta, sub).guid

Delivers(j, files, disk) ==
    \A sub \in Produced(j.doc) : Coming(j, files, sub) \/ Made(j, files, disk, sub)

Agreed ==
    \A sub \in Produced(export) :
        /\ Exists(body, sub)
        /\ Readable(meta[sub]) /\ Readable(meta[Model])
        /\ Has(meta[Model], sub)
        /\ meta[sub].guid = RecordOf(meta[Model], sub).guid

Passing ==
    At("pass") \/ At("extract") =>
        /\ Ready(job) /\ Standing(job, meta)
        /\ job.clean => job.doc = export /\ Delivers(job, body, meta)

DInv ==
    /\ job.at \in {"persist", "load", "produce"} => job.images = <<>> /\ ~job.changed
    /\ Passing
    /\ At("end") /\ job.clean => Agreed
    /\ SidecarsAgree

\* Other tasks before the rest of them.
LEMMA Shifted ==
  ASSUME NEW T, NEW p \in Seq(T), NEW todo \in Seq(T), todo # <<>>
  PROVE  LET new == p \o Tail(todo)
         IN  /\ Len(p) \in Nat /\ Len(todo) \in Nat \ {0}
             /\ DOMAIN p = 1..Len(p) /\ DOMAIN todo = 1..Len(todo)
             /\ DOMAIN new = 1..Len(p) + Len(todo) - 1
             /\ \A i \in 1..Len(p) : new[i] = p[i]
             /\ \A i \in 2..Len(todo) : new[i + Len(p) - 1] = todo[i]
             /\ todo[1] = Head(todo)
<1> DEFINE t == Tail(todo)
<1>1. /\ t \in Seq(T) /\ Len(t) = Len(todo) - 1 /\ Len(todo) \in Nat \ {0}
      /\ DOMAIN todo = 1..Len(todo) /\ Head(todo) = todo[1]
      /\ \A i \in 1..Len(todo) - 1 : t[i] = todo[i + 1]
  BY Rest
<1> HIDE DEF t
<1>2. /\ Len(p) \in Nat /\ Len(t) \in Nat /\ DOMAIN p = 1..Len(p)
      /\ DOMAIN (p \o t) = 1..Len(p) + Len(t)
      /\ \A i \in 1..Len(p) : (p \o t)[i] = p[i]
      /\ \A i \in Len(p) + 1..Len(p) + Len(t) : (p \o t)[i] = t[i - Len(p)]
  BY <1>1, Joined
<1>3. ASSUME NEW i \in 2..Len(todo) PROVE (p \o t)[i + Len(p) - 1] = todo[i]
  <2> DEFINE k == i + Len(p) - 1
  <2>1. k \in Len(p) + 1..Len(p) + Len(t) /\ k - Len(p) = i - 1 /\ i - 1 \in 1..Len(todo) - 1
        /\ (i - 1) + 1 = i
    BY <1>1, <1>2
  <2>2. (p \o t)[k] = t[i - 1]
    BY <1>2, <2>1
  <2>3. t[i - 1] = todo[i]
    BY <1>1, <2>1
  <2> QED BY <2>2, <2>3
<1>4. Len(p) + Len(t) = Len(p) + Len(todo) - 1
  BY <1>1, <1>2
<1> QED BY <1>1, <1>2, <1>3, <1>4 DEF t

\* A job k that has other tasks p in place of the one at the head of j, which
\* has been done: its images are looked up, and its sidecars registered.
Continues(j, p, k) ==
    /\ k.doc = j.doc
    /\ k.todo = p \o Tail(j.todo)
    /\ DOMAIN j.images \subseteq DOMAIN k.images
    /\ \A n \in DOMAIN k.images : k.images[n] \in Nat \cup {NoGuid}
    /\ Head(j.todo).op = "image" => Head(j.todo).nr \in DOMAIN k.images
    /\ \A sub : Has(j.meta, sub) => Has(k.meta, sub)
    /\ \A i \in DOMAIN p : p[i].op = "sidecar" => Has(k.meta, p[i].sub)
    /\ \A i \in DOMAIN p : p[i].op = "write" =>
          \A n \in Elements(j.doc.materials[p[i].nr].images) :
             \E m \in 1..i - 1 : p[m].op = "image" /\ p[m].nr = n

LEMMA ReadyOn ==
  ASSUME NEW j, Ready(j), j.todo \in Seq(TasksOf(j.doc)), j.todo # <<>>,
         NEW p \in Seq(TasksOf(j.doc)), NEW k, Continues(j, p, k)
  PROVE  Ready(k)
<1>0. /\ k.doc = j.doc
      /\ k.todo = p \o Tail(j.todo)
      /\ DOMAIN j.images \subseteq DOMAIN k.images
      /\ \A n \in DOMAIN k.images : k.images[n] \in Nat \cup {NoGuid}
      /\ Head(j.todo).op = "image" => Head(j.todo).nr \in DOMAIN k.images
      /\ \A sub : Has(j.meta, sub) => Has(k.meta, sub)
      /\ \A i \in DOMAIN p : p[i].op = "sidecar" => Has(k.meta, p[i].sub)
      /\ \A i \in DOMAIN p : p[i].op = "write" =>
            \A n \in Elements(j.doc.materials[p[i].nr].images) :
               \E m \in 1..i - 1 : p[m].op = "image" /\ p[m].nr = n
  BY DEF Continues
<1> DEFINE L == Len(p)
           todo == j.todo
           new == k.todo
<1>1. /\ L \in Nat /\ Len(todo) \in Nat \ {0}
      /\ DOMAIN p = 1..L /\ DOMAIN todo = 1..Len(todo)
      /\ DOMAIN new = 1..L + Len(todo) - 1
      /\ \A i \in 1..L : new[i] = p[i]
      /\ \A i \in 2..Len(todo) : new[i + L - 1] = todo[i]
      /\ todo[1] = Head(todo)
  BY <1>0, Shifted
<1>2. ASSUME NEW i \in DOMAIN new, i > L
      PROVE  /\ i - L + 1 \in 2..Len(todo) /\ i - L + 1 \in DOMAIN todo
             /\ new[i] = todo[i - L + 1]
  <2>1. i - L + 1 \in 2..Len(todo) /\ (i - L + 1) + L - 1 = i
    BY <1>1, <1>2
  <2> QED BY <1>1, <2>1
<1>3. ASSUME NEW i \in DOMAIN new, new[i].op = "sidecar"
      PROVE  Has(k.meta, new[i].sub)
  <2>1. CASE i <= L
    BY <1>0, <1>1, <1>3, <2>1
  <2>2. CASE i > L
    BY <1>0, <1>2, <1>3, <2>2 DEF Ready
  <2> QED BY <1>1, <2>1, <2>2
<1>4. ASSUME NEW i \in DOMAIN new, new[i].op = "write",
             NEW n \in Elements(j.doc.materials[new[i].nr].images)
      PROVE  \/ n \in DOMAIN k.images
             \/ \E m \in 1..i - 1 : new[m].op = "image" /\ new[m].nr = n
  <2>1. CASE i <= L
    <3>1. i \in DOMAIN p /\ new[i] = p[i]
      BY <1>1, <2>1
    <3>2. p[i].op = "write" /\ n \in Elements(j.doc.materials[p[i].nr].images)
      BY <1>4, <3>1
    <3>3. PICK m \in 1..i - 1 : p[m].op = "image" /\ p[m].nr = n
      BY <1>0, <3>1, <3>2
    <3>4. m \in 1..L
      BY <1>1, <3>1
    <3>5. new[m] = p[m]
      BY <1>1, <3>4
    <3> QED BY <3>3, <3>5
  <2>2. CASE i > L
    <3> DEFINE h == i - L + 1
    <3>1. /\ h \in DOMAIN todo /\ new[i] = todo[h] /\ h \in 2..Len(todo)
          /\ i \in Nat /\ i = h + L - 1
      <4>1. i \in Nat /\ L \in Nat
        BY <1>1
      <4>2. h \in DOMAIN todo /\ new[i] = todo[h] /\ h \in 2..Len(todo)
        BY <1>2, <2>2
      <4>4. i = h + L - 1
        <5> HIDE DEF L, new, todo
        <5> QED BY <4>1 DEF h
      <4> QED BY <4>1, <4>2, <4>4
    <3> HIDE DEF h
    <3>4. todo[h].op = "write" /\ n \in Elements(j.doc.materials[todo[h].nr].images)
      BY <1>4, <3>1
    <3>2. CASE n \in DOMAIN j.images
      BY <1>0, <3>2
    <3>3. CASE n \notin DOMAIN j.images
      <4>1. PICK m \in 1..h - 1 : todo[m].op = "image" /\ todo[m].nr = n
        BY <3>1, <3>3, <3>4 DEF Ready
      <4>2. CASE m = 1
        BY <1>0, <1>1, <4>1, <4>2
      <4>3. CASE m # 1
        <5>1. m \in 2..Len(todo) /\ m + L - 1 \in 1..i - 1
          BY <1>1, <3>1, <4>3
        <5>2. new[m + L - 1] = todo[m]
          BY <1>1, <5>1
        <5> QED BY <4>1, <5>1, <5>2
      <4> QED BY <4>2, <4>3
    <3> QED BY <3>2, <3>3
  <2> QED BY <1>1, <2>1, <2>2
<1>5. \A i \in DOMAIN new : new[i].op = "write" =>
         \A n \in Elements(k.doc.materials[new[i].nr].images) :
            \/ n \in DOMAIN k.images
            \/ \E m \in 1..i - 1 : new[m].op = "image" /\ new[m].nr = n
  <2> HIDE DEF L, todo, new
  <2>1. k.doc = j.doc
    BY <1>0
  <2> QED BY <1>4, <2>1, Zenon
<1> QED BY <1>0, <1>3, <1>5 DEF Ready

\* No image that has been looked up on the way stands for a sub-asset.
NoneFor(j, k, sub) == \A n \in DOMAIN k.images \ DOMAIN j.images : ~Embeds(j.doc, n, sub)

\* What was to come still is, unless it was the task at the head.
LEMMA ComingOn ==
  ASSUME NEW T, NEW j, j.todo \in Seq(T), j.todo # <<>>,
         NEW p \in Seq(T), NEW k, k.todo = p \o Tail(j.todo), k.doc = j.doc,
         NEW files, NEW after, NEW sub, Coming(j, files, sub),
         files[sub] # NoFile => after[sub] # NoFile,
         Writes(j.doc, Head(j.todo), sub) => after[sub] # NoFile,
         NoneFor(j, k, sub)
  PROVE  \/ Coming(k, after, sub)
         \/ Head(j.todo).op = "material" /\ MaterialsOf(j.doc)[Head(j.todo).nr] = sub
         \/ Head(j.todo).op = "image" /\ Embeds(j.doc, Head(j.todo).nr, sub)
            /\ Head(j.todo).nr \notin DOMAIN j.images
         \/ Head(j.todo).op = "sidecar" /\ Head(j.todo).sub = sub /\ files[sub] # NoFile
<1> DEFINE L == Len(p)
           todo == j.todo
           new == k.todo
           Sees(i) ==
              \/ todo[i].op = "material" /\ MaterialsOf(j.doc)[todo[i].nr] = sub
              \/ /\ todo[i].op = "image" /\ todo[i].nr \notin DOMAIN j.images
                 /\ Embeds(j.doc, todo[i].nr, sub)
              \/ /\ todo[i].op = "sidecar" /\ todo[i].sub = sub
                 /\ files[sub] # NoFile \/ \E m \in 1..i - 1 : Writes(j.doc, todo[m], sub)
<1>1. /\ L \in Nat /\ Len(todo) \in Nat \ {0}
      /\ DOMAIN p = 1..L /\ DOMAIN todo = 1..Len(todo)
      /\ DOMAIN new = 1..L + Len(todo) - 1
      /\ \A i \in 1..L : new[i] = p[i]
      /\ \A i \in 2..Len(todo) : new[i + L - 1] = todo[i]
      /\ todo[1] = Head(todo)
  BY Shifted
<1>2. PICK i \in DOMAIN todo : Sees(i)
  BY DEF Coming
<1>3. CASE i = 1
  <2>1. ~\E m \in 1..i - 1 : Writes(j.doc, todo[m], sub)
    BY <1>3
  <2> QED BY <1>1, <1>2, <1>3, <2>1
<1>4. CASE i # 1
  <2> DEFINE h == i + L - 1
  <2>1. i \in 2..Len(todo) /\ h \in DOMAIN new /\ new[h] = todo[i]
    <3>1. i \in 2..Len(todo) /\ L \in Nat /\ Len(todo) \in Nat
      BY <1>1, <1>4
    <3>2. h \in 1..L + Len(todo) - 1
      BY <3>1
    <3> QED BY <1>1, <3>1, <3>2
  <2>4. h = i + L - 1
    OBVIOUS
  <2> HIDE DEF h
  <2>2. CASE \/ new[h].op = "material" /\ MaterialsOf(j.doc)[new[h].nr] = sub
             \/ /\ new[h].op = "image" /\ new[h].nr \notin DOMAIN j.images
                /\ Embeds(j.doc, new[h].nr, sub)
    BY <2>1, <2>2 DEF Coming, NoneFor
  <2>3. CASE /\ new[h].op = "sidecar" /\ new[h].sub = sub
             /\ files[sub] # NoFile \/ \E m \in 1..i - 1 : Writes(j.doc, todo[m], sub)
    <3>1. CASE after[sub] # NoFile
      BY <2>1, <2>3, <3>1 DEF Coming
    <3>2. CASE after[sub] = NoFile
      <4>1. PICK m \in 1..i - 1 : Writes(j.doc, todo[m], sub)
        BY <2>3, <3>2
      <4>2. m # 1
        BY <1>1, <3>2, <4>1
      <4>3. m \in 2..Len(todo) /\ m + L - 1 \in 1..h - 1
        <5>1. m \in Nat \ {0, 1} /\ m <= i - 1 /\ L \in Nat /\ i \in Nat /\ Len(todo) \in Nat
              /\ i <= Len(todo)
          BY <1>1, <2>1, <4>2
        <5> QED BY <2>4, <5>1
      <4>4. new[m + L - 1] = todo[m]
        BY <1>1, <4>3
      <4> QED BY <2>1, <2>3, <4>1, <4>3, <4>4 DEF Coming
    <3> QED BY <3>1, <3>2
  <2> QED BY <1>2, <2>1, <2>2, <2>3
<1> QED BY <1>3, <1>4

-----------------------------------------------------------------------------
(* What a step of a pass leaves agreed, ready and on its way.               *)

LEMMA MetaOutcome ==
  ASSUME Typed, NEW a, NEW m, NEW next, NEW otherwise, JobOK(otherwise),
         WriteMeta(a, m, next, otherwise)
  PROVE  \/ /\ UNCHANGED <<faults, settled>> /\ job' = next
            /\ meta' = [meta EXCEPT ![a] = m]
         \/ /\ faults' = faults + 1 /\ ~settled' /\ job' = Failing(otherwise)
            /\ job'.clean = FALSE
<1>1. Failing(otherwise).clean = FALSE
  BY FailingRest
<1>2. ASSUME NEW r \in Completes(meta, a, m) PROVE r.disk = [meta EXCEPT ![a] = m]
  BY DEF Completes
<1> QED BY Zenon, <1>1, <1>2 DEF WriteMeta

LEMMA BodyOutcome ==
  ASSUME Typed, NEW g, NEW content, NEW next, NEW otherwise, JobOK(otherwise),
         WriteBody(g, content, next, otherwise)
  PROVE  \/ /\ UNCHANGED <<faults, settled>> /\ job' = next
            /\ body' = [body EXCEPT ![g] = content]
         \/ /\ faults' = faults + 1 /\ ~settled' /\ job' = Failing(otherwise)
            /\ job'.clean = FALSE
<1>1. Failing(otherwise).clean = FALSE
  BY FailingRest
<1>2. ASSUME NEW r \in Completes(body, g, content) PROVE r.disk = [body EXCEPT ![g] = content]
  BY DEF Completes
<1> QED BY Zenon, <1>1, <1>2 DEF WriteBody

LEMMA ProducedGenerated ==
  ASSUME NEW x \in Exports, NEW sub \in Produced(x)
  PROVE  sub \in Generated
BY Keys DEF Produced, Elements

Grown == \A g \in Generated : Exists(body, g) => Exists(body', g)

\* What agreed goes on agreeing: files and records stay, and a sidecar is only
\* written from the registry of the import.
LEMMA StaysAgreed ==
  ASSUME IInv, SidecarsAgree, UNCHANGED export, settled' => settled /\ faults' = faults,
         Grown, MetaKept,
         \A sub \in Generated :
            \/ meta'[sub] = meta[sub]
            \/ /\ At("pass") \/ At("extract")
               /\ Readable(meta'[sub])
               /\ meta'[sub].guid = RecordOf(job.meta, sub).guid,
         \A a \in Sources : meta'[a] \in Metas \cup {NoFile, Unreadable}
  PROVE  SidecarsAgree'
<1> SUFFICES ASSUME settled', NEW sub \in Produced(export)
             PROVE  /\ Exists(body', sub)
                    /\ Readable(meta'[sub]) /\ Readable(meta'[Model])
                    /\ Has(meta'[Model], sub)
                    /\ meta'[sub].guid = RecordOf(meta'[Model], sub).guid
  BY DEF SidecarsAgree, Exists
<1>1. Typed /\ export \in Exports /\ Model \in Sources
  BY DEF IInv, Typed, Sources
<1>2. sub \in Generated
  BY <1>1, ProducedGenerated
<1>3. /\ Exists(body, sub)
      /\ Readable(meta[sub]) /\ Readable(meta[Model])
      /\ Has(meta[Model], sub)
      /\ meta[sub].guid = RecordOf(meta[Model], sub).guid
  BY DEF SidecarsAgree
<1>4. Exists(body', sub)
  BY <1>2, <1>3 DEF Grown
<1>5. Readable(meta'[Model]) /\ Extends(meta'[Model], meta[Model])
  BY <1>1, <1>3 DEF MetaKept
<1>6. meta[Model] \in Metas /\ meta'[Model] \in Metas
  BY <1>1, <1>3, <1>5, ReadableMeta DEF Readable
<1>7. Has(meta'[Model], sub) /\ RecordOf(meta'[Model], sub) = RecordOf(meta[Model], sub)
  BY <1>3, <1>5, <1>6, Found
<1>8. CASE meta'[sub] = meta[sub]
  BY <1>3, <1>4, <1>5, <1>7, <1>8
<1>9. CASE /\ At("pass") \/ At("extract")
           /\ Readable(meta'[sub])
           /\ meta'[sub].guid = RecordOf(job.meta, sub).guid
  <2>1. ~Idle
    BY <1>9 DEF At, Idle
  <2>2. job.meta \in Metas /\ Extends(job.meta, meta[Model])
    BY <1>3, <1>9, <2>1, Working DEF IInv, Knows
  <2>3. RecordOf(job.meta, sub) = RecordOf(meta[Model], sub)
    BY <1>3, <1>6, <2>2, Found
  <2> QED BY <1>3, <1>4, <1>5, <1>7, <1>9, <2>3
<1> QED BY <1>2, <1>8, <1>9

LEMMA SameAgreed ==
  ASSUME SidecarsAgree, UNCHANGED <<export, body, meta>>, settled' => settled
  PROVE  SidecarsAgree'
BY DEF SidecarsAgree, Exists, Produced

LEMMA PassOn ==
  ASSUME DInv, UNCHANGED export, NEW k, job' = k, k.at \in {"pass", "extract"},
         Ready(k), Standing(k, meta'),
         k.clean => k.doc = export /\ Delivers(k, body', meta'),
         SidecarsAgree'
  PROVE  DInv'
<1>1. Passing'
  BY DEF Passing, At, Ready, Standing, Delivers, Coming, Made, Writes, Embeds, Produced
<1> QED BY <1>1 DEF DInv, At

LEMMA MadeOn ==
  ASSUME NEW j, NEW k, j.meta \in Metas, k.meta \in Metas, Extends(k.meta, j.meta),
         NEW sub, NEW files, NEW disk, Made(j, files, disk, sub),
         NEW after, after[sub] # NoFile,
         NEW now, Readable(now[sub]),
         now[sub].guid \in {disk[sub].guid, RecordOf(j.meta, sub).guid}
  PROVE  Made(k, after, now, sub)
<1>1. Has(j.meta, sub) /\ disk[sub].guid = RecordOf(j.meta, sub).guid
  BY DEF Made
<1>2. Has(k.meta, sub) /\ RecordOf(k.meta, sub) = RecordOf(j.meta, sub)
  BY <1>1, Found
<1> QED BY <1>1, <1>2 DEF Made

\* Nothing but the tasks, the registry and the cache of the job has changed.
LEMMA SoFar ==
  ASSUME IInv, DInv, At("pass") \/ At("extract")
  PROVE  /\ ~Idle /\ Typed /\ JobOK(job) /\ export \in Exports /\ job.doc \in Exports
         /\ minted \in Nat
         /\ job.meta \in Metas /\ job.todo \in Seq(TasksOf(job.doc))
         /\ Ready(job) /\ Standing(job, meta)
         /\ job.clean => job.doc = export /\ Delivers(job, body, meta)
         /\ SidecarsAgree
         /\ \A a \in Sources : meta[a] \in Metas \cup {NoFile, Unreadable}
         /\ \A sub : Has(job.meta, sub) =>
               RecordOf(job.meta, sub) \in [sub : Generated, guid : Nat]
<1>1. ~Idle
  BY DEF At, Idle
<1> QED BY <1>1, Working, Found DEF DInv, Passing

\* The job's registry, with one more record perhaps.
LEMMA Registering ==
  ASSUME NEW m \in Metas, NEW sub \in Generated, minted \in Nat
  PROVE  LET r == Registered(m, sub, minted + 1)
         IN  /\ r \in Metas /\ Extends(r, m) /\ Has(r, sub)
             /\ RecordOf(r, sub).guid \in Nat
             /\ \A other : Has(m, other) => Has(r, other)
             /\ Has(m, sub) => r = m
<1> DEFINE r == Registered(m, sub, minted + 1)
<1>1. r \in Metas /\ Extends(r, m) /\ Has(r, sub)
  BY Appended, Filed
<1>2. RecordOf(r, sub) \in [sub : Generated, guid : Nat]
  BY <1>1, Found
<1>3. \A other : Has(m, other) => Has(r, other)
  BY <1>1, Found
<1>4. Has(m, sub) => r = m
  BY DEF Registered
<1> QED BY <1>1, <1>2, <1>3, <1>4

LEMMA StandsOn ==
  ASSUME NEW j, Standing(j, meta), NEW k, NEW sub, NEW disk, disk[Model] = meta[Model],
         k.meta = Registered(j.meta, sub, minted + 1),
         k.changed <=> j.changed \/ ~Has(j.meta, sub)
  PROVE  Standing(k, disk)
<1>1. CASE Has(j.meta, sub)
  BY <1>1 DEF Standing, Registered
<1>2. CASE ~Has(j.meta, sub)
  BY <1>2 DEF Standing
<1> QED BY <1>1, <1>2

-----------------------------------------------------------------------------
(* Each step of a pass.                                                     *)

LEMMA MaterialDelivers ==
  ASSUME IInv, DInv, Material, MetaKept
  PROVE  DInv'
<1> DEFINE T == TasksOf(job.doc)
           sub == MaterialsOf(job.doc)[Here.nr]
           slots == LookUps(Here.nr)
           s == [op |-> "sidecar", sub |-> sub]
           w == [op |-> "write", nr |-> Here.nr]
           tasks == IF Kept(sub) THEN <<s>> ELSE slots \o <<w>> \o <<s>>
           k == Register(Then(tasks), sub)
<1>1. /\ At("pass") /\ Here.nr \in DOMAIN job.doc.materials
      /\ job.todo # <<>> /\ Head(job.todo) = Here /\ Here.op = "material"
  BY OnTask DEF Material, Here
<1>2. /\ ~Idle /\ Typed /\ JobOK(job) /\ job.doc \in Exports /\ minted \in Nat
      /\ job.meta \in Metas /\ job.todo \in Seq(T)
      /\ Ready(job) /\ Standing(job, meta)
      /\ job.clean => job.doc = export /\ Delivers(job, body, meta)
      /\ SidecarsAgree
      /\ \A a \in Sources : meta[a] \in Metas \cup {NoFile, Unreadable}
  BY <1>1, SoFar
<1>3. sub \in Generated /\ s \in T /\ w \in T
  BY <1>1, <1>2, Keys DEF TasksOf
<1>4. /\ slots \in Seq(T) /\ Quiet(slots) /\ DOMAIN slots = 1..Len(slots) /\ Len(slots) \in Nat
      /\ \A i \in DOMAIN slots : slots[i].op = "image"
      /\ \A n \in Elements(job.doc.materials[w.nr].images) :
            \E m \in DOMAIN slots : slots[m].op = "image" /\ slots[m].nr = n
  BY <1>1, <1>2, SlotTasks
<1>5. job' = k /\ UNCHANGED <<export, body, meta, faults, settled>>
  BY DEF Material, LookUps
<1>6. s.op = "sidecar" /\ s.sub = sub /\ w.op = "write"
  OBVIOUS
<1> HIDE DEF T, slots, s, w
<1>7. /\ tasks \in Seq(T)
      /\ \A i \in DOMAIN tasks : tasks[i].op = "sidecar" => tasks[i] = s
      /\ \A i \in DOMAIN tasks : tasks[i].op = "write" =>
            \A n \in Elements(job.doc.materials[tasks[i].nr].images) :
               \E m \in 1..i - 1 : tasks[m].op = "image" /\ tasks[m].nr = n
      /\ \E i \in DOMAIN tasks : /\ tasks[i] = s
                                 /\ Kept(sub) \/ \E m \in 1..i - 1 : tasks[m] = w
  <2>1. CASE Kept(sub)
    <3>1. tasks = <<s>>
      BY <2>1
    <3>2. <<s>> \in Seq(T) /\ DOMAIN <<s>> = {1} /\ <<s>>[1] = s
      BY <1>3, One
    <3> QED BY <1>6, <2>1, <3>1, <3>2
  <2>2. CASE ~Kept(sub)
    <3> DEFINE L == Len(slots)
    <3>1. tasks = slots \o <<w>> \o <<s>>
      BY <2>2
    <3>2. /\ tasks \in Seq(T) /\ L \in Nat /\ DOMAIN tasks = 1..L + 2
          /\ \A i \in 1..L : tasks[i] = slots[i]
          /\ tasks[L + 1] = w /\ tasks[L + 2] = s
      <4>1. LET all == slots \o <<w>> \o <<s>>
            IN  /\ all \in Seq(T) /\ L \in Nat /\ DOMAIN all = 1..L + 2
                /\ \A i \in 1..L : all[i] = slots[i]
                /\ all[L + 1] = w /\ all[L + 2] = s
        BY <1>3, <1>4, MaterialTasks
      <4> HIDE DEF tasks
      <4> QED BY <3>1, <4>1
    <3> HIDE DEF tasks
    <3>3. \A i \in DOMAIN tasks : i \in 1..L \/ i = L + 1 \/ i = L + 2
      BY <3>2
    <3>4. \A i \in DOMAIN tasks : tasks[i].op = "sidecar" => tasks[i] = s
      BY <1>4, <1>6, <3>2, <3>3
    <3>5. \A i \in DOMAIN tasks : tasks[i].op = "write" => i = L + 1
      BY <1>4, <1>6, <3>2, <3>3
    <3>6. \A n \in Elements(job.doc.materials[w.nr].images) :
             \E m \in 1..L : tasks[m].op = "image" /\ tasks[m].nr = n
      BY <1>4, <3>2
    <3>7. (L + 1) - 1 = L /\ L + 1 \in 1..(L + 2) - 1 /\ L + 2 \in DOMAIN tasks
      BY <3>2
    <3>8. ASSUME NEW i \in DOMAIN tasks, tasks[i].op = "write",
                 NEW n \in Elements(job.doc.materials[tasks[i].nr].images)
          PROVE  \E m \in 1..i - 1 : tasks[m].op = "image" /\ tasks[m].nr = n
      <4>1. i = L + 1 /\ tasks[i] = w
        BY <3>2, <3>5, <3>8
      <4>2. n \in Elements(job.doc.materials[w.nr].images)
        BY <3>8, <4>1
      <4> QED BY <3>6, <3>7, <4>1, <4>2
    <3> QED BY <3>2, <3>4, <3>7, <3>8
  <2> QED BY <2>1, <2>2
<1> HIDE DEF tasks
<1>8. /\ k.todo = tasks \o Tail(job.todo) /\ k.meta = Registered(job.meta, sub, minted + 1)
      /\ k.images = job.images /\ k.clean = job.clean /\ k.doc = job.doc
      /\ k.changed <=> job.changed \/ ~Has(job.meta, sub)
      /\ k.at = "pass"
  <2>0. tasks \o Tail(job.todo) \in Seq(T)
    BY <1>1, <1>2, <1>7, Rest, Joined
  <2>1. /\ JobOK(Then(tasks)) /\ Then(tasks).at = "pass" /\ Then(tasks).meta = job.meta
    <3> DEFINE todo == tasks \o Tail(job.todo)
    <3> HIDE DEF todo
    <3>1. LET new == [job EXCEPT !.at = "pass", !.todo = todo]
          IN  JobOK(new) /\ new.at = "pass" /\ new.meta = job.meta
      BY <1>2, <2>0, NewTurn DEF T, todo
    <3> QED BY <3>1 DEF Then, todo
  <2> DEFINE j == Then(tasks)
  <2>2. /\ j.todo = tasks \o Tail(job.todo) /\ j.images = job.images
        /\ j.changed = job.changed /\ j.clean = job.clean /\ j.doc = job.doc
    BY <1>2, ThenRest
  <2>3. JobOK(j) /\ j.at = "pass" /\ j.meta = job.meta
    BY <2>1
  <2> HIDE DEF j
  <2> DEFINE r == Register(j, sub)
  <2>4. /\ r.todo = j.todo /\ r.meta = Registered(j.meta, sub, minted + 1)
        /\ r.images = j.images /\ r.clean = j.clean /\ r.doc = j.doc
        /\ r.changed <=> j.changed \/ ~Has(j.meta, sub)
    BY <2>3, RegisterRest
  <2>5. r.at = "pass"
    BY <1>2, <1>3, <2>3, Records
  <2>6. k = r
    BY DEF j
  <2> HIDE DEF k, r
  <2> QED BY <2>2, <2>3, <2>4, <2>5, <2>6
<1> HIDE DEF k
<1>9. /\ k.meta \in Metas /\ Extends(k.meta, job.meta) /\ Has(k.meta, sub)
      /\ \A other : Has(job.meta, other) => Has(k.meta, other)
  BY <1>2, <1>3, <1>8, Registering
<1>10. Ready(k)
  <2>1. \A n \in DOMAIN k.images : k.images[n] \in Nat \cup {NoGuid}
    BY <1>2, <1>8 DEF Ready
  <2>2. \A i \in DOMAIN tasks : tasks[i].op = "sidecar" => Has(k.meta, tasks[i].sub)
    BY <1>6, <1>7, <1>9
  <2>3. Continues(job, tasks, k)
    BY <1>1, <1>7, <1>8, <1>9, <2>1, <2>2 DEF Continues
  <2> QED BY <1>1, <1>2, <1>7, <2>3, ReadyOn DEF T
<1>11. Standing(k, meta')
  BY <1>2, <1>5, <1>8, StandsOn
<1>12. ASSUME k.clean, NEW other \in Produced(k.doc)
       PROVE  Coming(k, body, other) \/ Made(k, body, meta, other)
  <2>1. Coming(job, body, other) \/ Made(job, body, meta, other)
    BY <1>2, <1>8, <1>12 DEF Delivers
  <2>2. CASE Made(job, body, meta, other)
    <3>1. body[other] # NoFile /\ Readable(meta[other])
      BY <2>2 DEF Made
    <3> QED BY <1>2, <1>9, <2>2, <3>1, MadeOn
  <2>3. CASE Coming(job, body, other) /\ other # sub
    <3>1. ~Writes(job.doc, Head(job.todo), other)
      BY <1>1 DEF Writes
    <3>2. NoneFor(job, k, other)
      BY <1>8 DEF NoneFor
    <3>3. \/ Coming(k, body, other)
          \/ Head(job.todo).op = "material" /\ MaterialsOf(job.doc)[Head(job.todo).nr] = other
          \/ Head(job.todo).op = "image" \/ Head(job.todo).op = "sidecar"
      <4>1. job.todo \in Seq(T) /\ tasks \in Seq(T) /\ Coming(job, body, other)
        BY <1>2, <1>7, <2>3
      <4>2. k.todo = tasks \o Tail(job.todo) /\ k.doc = job.doc
        BY <1>8
      <4>3. \/ Coming(k, body, other)
            \/ Head(job.todo).op = "material" /\ MaterialsOf(job.doc)[Head(job.todo).nr] = other
            \/ Head(job.todo).op = "image" /\ Embeds(job.doc, Head(job.todo).nr, other)
               /\ Head(job.todo).nr \notin DOMAIN job.images
            \/ Head(job.todo).op = "sidecar" /\ Head(job.todo).sub = other /\ body[other] # NoFile
        BY <1>1, <3>1, <3>2, <4>1, <4>2, ComingOn
      <4> QED BY <4>3
    <3> QED BY <1>1, <2>3, <3>3
  <2>4. CASE other = sub
    <3>1. PICK i \in DOMAIN tasks : /\ tasks[i] = s
                                    /\ Kept(sub) \/ \E m \in 1..i - 1 : tasks[m] = w
      BY <1>7
    <3>2. /\ DOMAIN tasks = 1..Len(tasks) /\ Len(tasks) \in Nat
          /\ \A n \in DOMAIN tasks : n \in DOMAIN k.todo /\ k.todo[n] = tasks[n]
      <4>1. /\ DOMAIN tasks = 1..Len(tasks) /\ Len(tasks) \in Nat /\ Len(job.todo) \in Nat \ {0}
            /\ DOMAIN k.todo = 1..Len(tasks) + Len(job.todo) - 1
            /\ \A n \in 1..Len(tasks) : k.todo[n] = tasks[n]
        BY <1>1, <1>2, <1>7, <1>8, Shifted
      <4> QED BY <4>1
    <3>3. i \in DOMAIN k.todo /\ k.todo[i] = s
      BY <3>1, <3>2
    <3>4. CASE Kept(sub)
      BY <1>6, <2>4, <3>3, <3>4 DEF Coming, Kept, Exists
    <3>5. CASE \E m \in 1..i - 1 : tasks[m] = w
      <4>1. PICK m \in 1..i - 1 : tasks[m] = w
        BY <3>5
      <4>2. k.todo[m] = w
        BY <3>2, <4>1
      <4>3. Writes(job.doc, w, sub)
        BY <1>6 DEF Writes, w
      <4> QED BY <1>6, <1>8, <2>4, <3>3, <4>2, <4>3 DEF Coming
    <3> QED BY <3>1, <3>4, <3>5
  <2> QED BY <2>1, <2>2, <2>3, <2>4
<1>13. SidecarsAgree'
  BY <1>2, <1>5, StaysAgreed DEF Grown
<1>14. k.clean => k.doc = export /\ Delivers(k, body', meta')
  BY <1>2, <1>5, <1>8, <1>12 DEF Delivers
<1> QED BY <1>5, <1>8, <1>10, <1>11, <1>13, <1>14, PassOn

-----------------------------------------------------------------------------
(* The other steps of a pass.                                               *)

\* The sub-asset the task at the head is there for.
Serves(j, files, sub) ==
    LET t == Head(j.todo)
    IN  \/ t.op = "material" /\ MaterialsOf(j.doc)[t.nr] = sub
        \/ t.op = "image" /\ Embeds(j.doc, t.nr, sub) /\ t.nr \notin DOMAIN j.images
        \/ t.op = "sidecar" /\ t.sub = sub /\ files[sub] # NoFile

\* Files stay and sidecars are only written from the registry; what the task
\* at the head was there for is there or still comes.
Carries(j, k, files, after, disk, now) ==
    /\ \A g \in Generated : files[g] # NoFile => after[g] # NoFile
    /\ \A g \in Generated : Writes(j.doc, Head(j.todo), g) => after[g] # NoFile
    /\ \A g \in Generated :
          \/ now[g] = disk[g]
          \/ Readable(now[g]) /\ now[g].guid = RecordOf(j.meta, g).guid
    /\ \A n \in DOMAIN k.images \ DOMAIN j.images : \A g \in Generated :
          Embeds(j.doc, n, g) => Serves(j, files, g)
    /\ \A g \in Generated : Serves(j, files, g) =>
          Coming(k, after, g) \/ Made(k, after, now, g)

LEMMA DeliversOn ==
  ASSUME NEW T, NEW j, j.doc \in Exports, j.todo \in Seq(T), j.todo # <<>>,
         NEW p \in Seq(T), NEW k, k.todo = p \o Tail(j.todo), k.doc = j.doc,
         j.meta \in Metas, k.meta \in Metas, Extends(k.meta, j.meta),
         NEW files, NEW after, NEW disk, NEW now, Carries(j, k, files, after, disk, now),
         Delivers(j, files, disk)
  PROVE  Delivers(k, after, now)
<1> SUFFICES ASSUME NEW sub \in Produced(j.doc)
             PROVE  Coming(k, after, sub) \/ Made(k, after, now, sub)
  BY DEF Delivers
<1>1. sub \in Generated
  BY ProducedGenerated
<1>2. CASE Serves(j, files, sub)
  BY <1>1, <1>2 DEF Carries
<1>3. CASE Made(j, files, disk, sub)
  <2>1. files[sub] # NoFile /\ Readable(disk[sub])
    BY <1>3 DEF Made
  <2>2. after[sub] # NoFile
    BY <1>1, <2>1 DEF Carries
  <2>3. \/ now[sub] = disk[sub]
        \/ Readable(now[sub]) /\ now[sub].guid = RecordOf(j.meta, sub).guid
    BY <1>1 DEF Carries
  <2>4. Readable(now[sub]) /\ now[sub].guid \in {disk[sub].guid, RecordOf(j.meta, sub).guid}
    BY <2>1, <2>3
  <2> QED BY <1>3, <2>2, <2>4, MadeOn
<1>4. CASE Coming(j, files, sub) /\ ~Serves(j, files, sub)
  <2>1. files[sub] # NoFile => after[sub] # NoFile
    BY <1>1 DEF Carries
  <2>2. Writes(j.doc, Head(j.todo), sub) => after[sub] # NoFile
    BY <1>1 DEF Carries
  <2>3. NoneFor(j, k, sub)
    BY <1>1, <1>4 DEF Carries, NoneFor
  <2>4. Coming(j, files, sub)
    BY <1>4
  <2>5. \/ Coming(k, after, sub)
        \/ Head(j.todo).op = "material" /\ MaterialsOf(j.doc)[Head(j.todo).nr] = sub
        \/ Head(j.todo).op = "image" /\ Embeds(j.doc, Head(j.todo).nr, sub)
           /\ Head(j.todo).nr \notin DOMAIN j.images
        \/ Head(j.todo).op = "sidecar" /\ Head(j.todo).sub = sub /\ files[sub] # NoFile
    BY <2>1, <2>2, <2>3, <2>4, ComingOn
  <2> QED BY <1>4, <2>5 DEF Serves
<1> QED BY <1>2, <1>3, <1>4 DEF Delivers

\* The task at the head is done, in a job k that has p to do in its place.
LEMMA StepDelivers ==
  ASSUME IInv, DInv, At("pass") \/ At("extract"), job.todo # <<>>, UNCHANGED export, MetaKept,
         NEW p \in Seq(TasksOf(job.doc)), NEW k, job' = k, k.at = "pass", k.clean = job.clean,
         Continues(job, p, k), k.meta \in Metas, Extends(k.meta, job.meta),
         Standing(k, meta'), Carries(job, k, body, body', meta, meta'),
         UNCHANGED <<faults, settled>>,
         \A a \in Sources : meta'[a] \in Metas \cup {NoFile, Unreadable}
  PROVE  DInv'
<1>2. /\ job.doc \in Exports /\ job.meta \in Metas /\ job.todo \in Seq(TasksOf(job.doc))
      /\ Ready(job) /\ SidecarsAgree
      /\ job.clean => job.doc = export /\ Delivers(job, body, meta)
  BY SoFar
<1>3. Ready(k)
  BY <1>2, ReadyOn
<1>4. k.todo = p \o Tail(job.todo) /\ k.doc = job.doc
  BY DEF Continues
<1>5. k.clean => k.doc = export /\ Delivers(k, body', meta')
  BY <1>2, <1>4, DeliversOn
<1>6. \A g \in Generated :
         \/ meta'[g] = meta[g]
         \/ Readable(meta'[g]) /\ meta'[g].guid = RecordOf(job.meta, g).guid
  BY DEF Carries
<1>7. Grown
  BY DEF Carries, Grown, Exists
<1>8. SidecarsAgree'
  BY <1>2, <1>6, <1>7, StaysAgreed
<1> QED BY <1>3, <1>5, <1>8, PassOn

LEMMA StepFails ==
  ASSUME DInv, UNCHANGED export, ~settled', NEW k, JobOK(k), job' = Failing(k), k.at = "pass",
         Ready(k), Standing(k, meta')
  PROVE  DInv'
<1> DEFINE f == Failing(k)
<1>1. /\ f.todo = k.todo /\ f.meta = k.meta /\ f.images = k.images
      /\ f.changed = k.changed /\ f.clean = FALSE /\ f.doc = k.doc
  BY FailingRest
<1>2. f.at = "pass"
  BY Failed
<1> HIDE DEF f
<1>3. Ready(f) /\ Standing(f, meta')
  BY <1>1 DEF Ready, Standing
<1>4. SidecarsAgree'
  BY DEF SidecarsAgree
<1>5. job' = f
  BY DEF f
<1> QED BY <1>1, <1>2, <1>3, <1>4, <1>5, PassOn

\* The job with nothing in place of the task at the head.
LEMMA DoneRest ==
  ASSUME IInv, At("pass") \/ At("extract"), job.todo # <<>>
  PROVE  LET k == Then(<<>>)
         IN  /\ JobOK(k) /\ k.at = "pass" /\ k.meta = job.meta /\ k.meta \in Metas
             /\ Extends(k.meta, job.meta)
             /\ k.todo = <<>> \o Tail(job.todo) /\ k.images = job.images
             /\ k.changed = job.changed /\ k.clean = job.clean /\ k.doc = job.doc
             /\ <<>> \in Seq(TasksOf(job.doc))
<1>1. ~Idle
  BY OnTurn
<1>2. JobOK(job)
  BY <1>1, Working
<1> QED BY <1>2, Done, ThenRest, EmptyTodo

\* Nothing in place of the task, and one more image looked up perhaps.
LEMMA ContinuesPlainly ==
  ASSUME NEW j, Ready(j), NEW k, k.todo = <<>> \o Tail(j.todo), k.meta = j.meta, k.doc = j.doc,
         DOMAIN j.images \subseteq DOMAIN k.images,
         \A n \in DOMAIN k.images : k.images[n] \in Nat \cup {NoGuid},
         Head(j.todo).op = "image" => Head(j.todo).nr \in DOMAIN k.images
  PROVE  Continues(j, <<>>, k)
<1>1. DOMAIN <<>> = {}
  OBVIOUS
<1> QED BY <1>1 DEF Continues

LEMMA HeadReady ==
  ASSUME IInv, DInv, NEW op, At("pass"), Here.op = op, job.todo # <<>>
  PROVE  /\ op = "sidecar" => Has(job.meta, Here.sub) 
         /\ op = "write" =>
               \A n \in Elements(job.doc.materials[Here.nr].images) : n \in DOMAIN job.images
<1>2. Ready(job) /\ job.todo \in Seq(TasksOf(job.doc))
  BY SoFar
<1>3. 1 \in DOMAIN job.todo /\ job.todo[1] = Here
  BY <1>2, Rest DEF Here
<1>4. ~\E m \in 1..1 - 1 : TRUE
  OBVIOUS
<1> QED BY <1>2, <1>3, <1>4 DEF Ready

LEMMA WriteSidecarDelivers ==
  ASSUME IInv, DInv, WriteSidecar, MetaKept
  PROVE  DInv'
<1> DEFINE sub == Here.sub
           guid == RecordOf(job.meta, sub).guid
           k == Then(<<>>)
<1>1. /\ At("pass") /\ sub \in Generated /\ Here.op = "sidecar"
      /\ Head(job.todo) = Here /\ job.todo # <<>>
  BY OnTask DEF WriteSidecar, Here
<1>2. /\ JobOK(k) /\ k.at = "pass" /\ k.meta = job.meta /\ k.meta \in Metas
      /\ Extends(k.meta, job.meta)
      /\ k.todo = <<>> \o Tail(job.todo) /\ k.images = job.images
      /\ k.changed = job.changed /\ k.clean = job.clean /\ k.doc = job.doc
      /\ <<>> \in Seq(TasksOf(job.doc))
  BY <1>1, DoneRest
<1>3. /\ Typed /\ Ready(job) /\ Standing(job, meta) /\ ~Idle
      /\ job.todo \in Seq(TasksOf(job.doc)) /\ job.meta \in Metas
  BY <1>1, SoFar
<1>4. Has(job.meta, sub) /\ guid \in Nat
  BY <1>1, HeadReady, SoFar
<1>5. UNCHANGED <<export, body>>
  BY DEF WriteSidecar
<1>6. /\ \/ job' = k /\ UNCHANGED <<meta, faults, settled>> /\ Agrees(sub, guid)
         \/ WriteMeta(sub, Sidecar(guid), k, k)
  BY DEF WriteSidecar
<1> HIDE DEF k, guid
<1>7. /\ \A b \in Assets \ {sub} : meta'[b] = meta[b]
      /\ meta' = [b \in Assets |-> meta'[b]]
      /\ \A b \in Sources : meta'[b] \in Metas \cup {NoFile, Unreadable}
  <2>1. sub \in Assets /\ sub \notin Sources
    BY <1>1, <1>3, Working
  <2>2. CASE UNCHANGED meta
    BY <1>3, <2>2 DEF Typed
  <2>3. CASE WriteMeta(sub, Sidecar(guid), k, k)
    <3> HIDE DEF sub
    <3> QED BY <1>3, <2>1, <2>3, MetaWritten
  <2> QED BY <1>6, <2>2, <2>3
<1>8. meta'[Model] = meta[Model]
  BY <1>1, <1>3, <1>7, Working
<1>9. Standing(k, meta')
  BY <1>2, <1>3, <1>8 DEF Standing
<1>10. Continues(job, <<>>, k)
  <2>1. \A n \in DOMAIN k.images : k.images[n] \in Nat \cup {NoGuid}
    BY <1>2, <1>3 DEF Ready
  <2> QED BY <1>1, <1>2, <1>3, <2>1, ContinuesPlainly
<1>11. CASE /\ UNCHANGED <<faults, settled>> /\ job' = k
            /\ Readable(meta'[sub]) /\ meta'[sub].guid = guid
  <2>1. \A g \in Generated :
           \/ meta'[g] = meta[g]
           \/ Readable(meta'[g]) /\ meta'[g].guid = RecordOf(job.meta, g).guid
    BY <1>7, <1>11 DEF Assets, guid
  <2>2. \A g \in Generated : Serves(job, body, g) => g = sub /\ Made(k, body, meta', g)
    BY <1>1, <1>2, <1>4, <1>11 DEF Serves, Made, guid
  <2>3. Carries(job, k, body, body', meta, meta')
    BY <1>1, <1>2, <1>5, <2>1, <2>2 DEF Carries, Writes
  <2> QED BY <1>1, <1>2, <1>5, <1>7, <1>9, <1>10, <1>11, <2>3, StepDelivers
<1>12. CASE ~settled' /\ job' = Failing(k)
  <2>1. Ready(k)
    BY <1>1, <1>2, <1>3, <1>10, ReadyOn
  <2> QED BY <1>2, <1>5, <1>9, <1>12, <2>1, StepFails
<1>13. CASE WriteMeta(sub, Sidecar(guid), k, k)
  <2>1. \/ /\ UNCHANGED <<faults, settled>> /\ job' = k
           /\ meta' = [meta EXCEPT ![sub] = Sidecar(guid)]
        \/ ~settled' /\ job' = Failing(k)
    BY <1>2, <1>3, <1>13, MetaOutcome
  <2>2. Sidecar(guid) \in Metas /\ Sidecar(guid).guid = guid
    BY <1>4, FreshMeta DEF Sidecar
  <2>3. meta' = [meta EXCEPT ![sub] = Sidecar(guid)] => meta'[sub] = Sidecar(guid)
    BY <1>1, <1>3 DEF Typed, Assets
  <2> QED BY <1>11, <1>12, <2>1, <2>2, <2>3, MetasReadable
<1>14. CASE job' = k /\ UNCHANGED <<meta, faults, settled>> /\ Agrees(sub, guid)
  BY <1>11, <1>14 DEF Agrees
<1> QED BY <1>6, <1>13, <1>14

LEMMA ImageKnownDelivers ==
  ASSUME IInv, DInv, ImageKnown, MetaKept
  PROVE  DInv'
<1> DEFINE j == Then(<<>>)
           c == Caching(j, Here.nr, NoGuid)
<1>1. /\ At("pass") /\ Here.op = "image"
      /\ Head(job.todo) = Here /\ job.todo # <<>>
  BY OnTask DEF ImageKnown, Here
<1>2. /\ JobOK(j) /\ j.at = "pass" /\ j.meta = job.meta /\ j.meta \in Metas
      /\ Extends(j.meta, job.meta)
      /\ j.todo = <<>> \o Tail(job.todo) /\ j.images = job.images
      /\ j.changed = job.changed /\ j.clean = job.clean /\ j.doc = job.doc
      /\ <<>> \in Seq(TasksOf(job.doc))
  BY <1>1, DoneRest
<1>3. Ready(job) /\ Standing(job, meta) /\ job.todo \in Seq(TasksOf(job.doc))
      /\ \A a \in Sources : meta[a] \in Metas \cup {NoFile, Unreadable}
  BY <1>1, SoFar
<1>4. /\ UNCHANGED <<export, body, meta, faults, settled>>
      /\ \/ Here.nr \in DOMAIN job.images /\ job' = j
         \/ /\ Here.nr \notin DOMAIN job.images /\ job' = c
            /\ job.doc.images[Here.nr].holds = Unreadable
  BY DEF ImageKnown
<1> HIDE DEF j
<1>5. /\ JobOK(c) /\ c.at = "pass" /\ c.meta = job.meta
      /\ c.todo = <<>> \o Tail(job.todo)
      /\ c.images = [n \in DOMAIN job.images \cup {Here.nr} |->
                       IF n = Here.nr THEN NoGuid ELSE job.images[n]]
      /\ c.changed = job.changed /\ c.clean = job.clean /\ c.doc = job.doc
  BY <1>2, Cached, CachingRest
<1> HIDE DEF c
<1>6. PICK k : k = job'
  OBVIOUS
<1>7. /\ JobOK(k) /\ k.at = "pass" /\ k.meta = job.meta /\ k.meta \in Metas
      /\ Extends(k.meta, job.meta) /\ k.todo = <<>> \o Tail(job.todo)
      /\ k.changed = job.changed /\ k.clean = job.clean /\ k.doc = job.doc
  BY <1>2, <1>4, <1>5, <1>6
<1>8. /\ DOMAIN job.images \subseteq DOMAIN k.images /\ Here.nr \in DOMAIN k.images
      /\ \A n \in DOMAIN k.images : k.images[n] \in Nat \cup {NoGuid}
      /\ DOMAIN k.images \ DOMAIN job.images \subseteq {Here.nr}
  BY <1>2, <1>3, <1>4, <1>5, <1>6 DEF Ready
<1>9. Continues(job, <<>>, k)
  BY <1>1, <1>3, <1>7, <1>8, ContinuesPlainly
<1>10. Standing(k, meta')
  BY <1>3, <1>4, <1>7 DEF Standing
<1>11. \A g \in Generated : Here.nr \notin DOMAIN job.images => ~Embeds(job.doc, Here.nr, g)
  BY <1>4, AssetImportAssumption DEF Embeds
<1>12. Carries(job, k, body, body', meta, meta')
  BY <1>1, <1>4, <1>8, <1>11 DEF Carries, Serves, Writes
<1> QED BY <1>1, <1>2, <1>3, <1>4, <1>6, <1>7, <1>9, <1>10, <1>12, StepDelivers

\* The metafile of a picture is written, or not.
LEMMA ImageBesideDelivers ==
  ASSUME IInv, DInv, ImageBeside, MetaKept
  PROVE  DInv'
<1> DEFINE j == Then(<<>>)
           p == job.doc.images[Here.nr].holds
           m == Loaded(p)
           k == Caching(j, Here.nr, m.guid)
<1>1. /\ At("pass") /\ Here.op = "image" /\ p \in Pictures
      /\ Head(job.todo) = Here /\ job.todo # <<>>
  BY OnTask DEF ImageBeside, Here
<1>2. /\ JobOK(j) /\ j.at = "pass" /\ j.meta = job.meta /\ j.meta \in Metas
      /\ Extends(j.meta, job.meta)
      /\ j.todo = <<>> \o Tail(job.todo) /\ j.images = job.images
      /\ j.changed = job.changed /\ j.clean = job.clean /\ j.doc = job.doc
      /\ <<>> \in Seq(TasksOf(job.doc))
  BY <1>1, DoneRest
<1>3. /\ Typed /\ ~Idle /\ Ready(job) /\ Standing(job, meta)
      /\ job.todo \in Seq(TasksOf(job.doc))
      /\ \A a \in Sources : meta[a] \in Metas \cup {NoFile, Unreadable}
  BY <1>1, SoFar
<1>4. /\ p \in Sources /\ p \in Assets /\ p # Model /\ p \notin Generated
      /\ Model \in Assets /\ Generated \subseteq Assets
  BY <1>1, <1>3, Working
<1>5. m \in Metas
  BY <1>3, <1>4, LoadedMeta
<1>6. /\ UNCHANGED <<export, body>>
      /\ \/ job' = k /\ UNCHANGED <<meta, faults, settled>>
         \/ WriteMeta(p, m, k, k)
  BY DEF ImageBeside
<1> HIDE DEF j, m
<1>7. /\ JobOK(k) /\ k.at = "pass" /\ k.meta = job.meta /\ k.meta \in Metas
      /\ Extends(k.meta, job.meta) /\ k.todo = <<>> \o Tail(job.todo)
      /\ k.images = [n \in DOMAIN job.images \cup {Here.nr} |->
                       IF n = Here.nr THEN m.guid ELSE job.images[n]]
      /\ k.changed = job.changed /\ k.clean = job.clean /\ k.doc = job.doc
  BY <1>2, Cached, CachingRest
<1> HIDE DEF k
<1>8. /\ DOMAIN job.images \subseteq DOMAIN k.images /\ Here.nr \in DOMAIN k.images
      /\ \A n \in DOMAIN k.images : k.images[n] \in Nat \cup {NoGuid}
      /\ DOMAIN k.images \ DOMAIN job.images \subseteq {Here.nr}
  BY <1>3, <1>5, <1>7 DEF Ready, Metas
<1>9. Continues(job, <<>>, k)
  BY <1>1, <1>3, <1>7, <1>8, ContinuesPlainly
<1>10. /\ meta' = [b \in Assets |-> meta'[b]]
       /\ \A b \in Assets \ {p} : meta'[b] = meta[b]
       /\ \A b \in Sources : meta'[b] \in Metas \cup {NoFile, Unreadable}
  <2>1. CASE UNCHANGED meta
    BY <1>3, <2>1 DEF Typed
  <2>2. CASE WriteMeta(p, m, k, k)
    <3> HIDE DEF p
    <3> QED BY <1>3, <1>4, <1>5, <2>2, MetaWritten
  <2> QED BY <1>6, <2>1, <2>2
<1>11. Standing(k, meta')
  <2>1. meta'[Model] = meta[Model]
    BY <1>4, <1>10
  <2> QED BY <1>3, <1>7, <2>1 DEF Standing
<1>12. \A g \in Generated : meta'[g] = meta[g]
  BY <1>4, <1>10
<1>13. \A g \in Generated : ~Embeds(job.doc, Here.nr, g)
  BY <1>1, AssetImportAssumption DEF Embeds
<1>14. Carries(job, k, body, body', meta, meta')
  BY <1>1, <1>6, <1>8, <1>12, <1>13 DEF Carries, Serves, Writes
<1>15. CASE job' = k /\ UNCHANGED <<faults, settled>>
  BY <1>1, <1>2, <1>6, <1>7, <1>9, <1>10, <1>11, <1>14, <1>15, StepDelivers
<1>16. CASE ~settled' /\ job' = Failing(k)
  <2>1. Ready(k)
    BY <1>1, <1>2, <1>3, <1>9, ReadyOn
  <2> QED BY <1>6, <1>7, <1>11, <1>16, <2>1, StepFails
<1>17. CASE WriteMeta(p, m, k, k)
  <2> HIDE DEF p
  <2>1. Typed /\ JobOK(k)
    BY <1>3, <1>7
  <2> HIDE DEF m
  <2>2. \/ UNCHANGED <<faults, settled>> /\ job' = k
        \/ ~settled' /\ job' = Failing(k)
    BY <1>17, <2>1, MetaOutcome
  <2> QED BY <1>15, <1>16, <2>2
<1> QED BY <1>6, <1>15, <1>17

\* Without its file, a material gets no sidecar.
LEMMA ReadyWithout ==
  ASSUME NEW j, Ready(j), j.todo \in Seq(TasksOf(j.doc)), j.todo # <<>>, Tail(j.todo) # <<>>,
         NoWrite(Tail(j.todo)),
         NEW k, k.todo = Tail(Tail(j.todo)), k.meta = j.meta, k.images = j.images,
         k.doc = j.doc
  PROVE  Ready(k)
<1> DEFINE rest == Tail(j.todo)
           T == TasksOf(j.doc)
<1>1. /\ rest \in Seq(T) /\ Len(rest) = Len(j.todo) - 1
      /\ DOMAIN j.todo = 1..Len(j.todo) /\ Len(j.todo) \in Nat
      /\ \A i \in 1..Len(rest) : rest[i] = j.todo[i + 1]
  BY Rest
<1> HIDE DEF T
<1>2. /\ DOMAIN rest = 1..Len(rest) /\ DOMAIN Tail(rest) = 1..Len(rest) - 1
      /\ \A i \in 1..Len(rest) - 1 : Tail(rest)[i] = rest[i + 1]
  <2> HIDE DEF rest
  <2> QED BY <1>1, Rest DEF rest
<1>3. ASSUME NEW i \in DOMAIN Tail(rest)
      PROVE  /\ Tail(rest)[i].op # "write"
             /\ \E n \in DOMAIN j.todo : Tail(rest)[i] = j.todo[n]
  <2>1. i \in Nat /\ i + 1 \in DOMAIN rest /\ i + 2 \in DOMAIN j.todo /\ (i + 1) + 1 = i + 2
    BY <1>1, <1>2
  <2>2. Tail(rest)[i] = rest[i + 1] /\ rest[i + 1] = j.todo[i + 2]
    BY <1>1, <1>2, <2>1
  <2> QED BY <2>1, <2>2 DEF NoWrite
<1>4. \A n \in DOMAIN k.images : k.images[n] \in Nat \cup {NoGuid}
  BY DEF Ready
<1>5. \A i \in DOMAIN k.todo : k.todo[i].op = "sidecar" => Has(k.meta, k.todo[i].sub)
  BY <1>3 DEF Ready
<1>6. \A i \in DOMAIN k.todo : k.todo[i].op # "write"
  BY <1>3
<1> QED BY <1>4, <1>5, <1>6 DEF Ready

LEMMA WriteMaterialDelivers ==
  ASSUME IInv, DInv, WriteMaterial, MetaKept
  PROVE  DInv'
<1> DEFINE g == MaterialsOf(job.doc)[Here.nr]
           content == Mapped(job.doc.materials[Here.nr])
           other == [job EXCEPT !.todo = Tail(Tail(job.todo))]
           k == Then(<<>>)
<1>1. /\ At("pass") /\ Here.op = "write" /\ Here.nr \in DOMAIN job.doc.materials
      /\ Head(job.todo) = Here /\ job.todo # <<>> /\ Pending(job.todo, Seen)
  BY OnTask DEF WriteMaterial, Here
<1>2. /\ JobOK(k) /\ k.at = "pass" /\ k.meta = job.meta /\ k.meta \in Metas
      /\ Extends(k.meta, job.meta)
      /\ k.todo = <<>> \o Tail(job.todo) /\ k.images = job.images
      /\ k.changed = job.changed /\ k.clean = job.clean /\ k.doc = job.doc
      /\ <<>> \in Seq(TasksOf(job.doc))
  BY <1>1, DoneRest
<1>3. /\ Typed /\ ~Idle /\ JobOK(job) /\ job.doc \in Exports /\ Ready(job) /\ Standing(job, meta)
      /\ job.todo \in Seq(TasksOf(job.doc))
      /\ \A a \in Sources : meta[a] \in Metas \cup {NoFile, Unreadable}
  BY <1>1, SoFar
<1>4. g \in Generated /\ body = [f \in Generated |-> body[f]]
  BY <1>1, <1>3, Keys DEF Typed
<1>5. content # NoFile
  <2>1. \A n \in Elements(job.doc.materials[Here.nr].images) : n \in DOMAIN job.images
    BY <1>1, HeadReady
  <2>2. content \in [textures : SUBSET Nat]
    BY <1>3, <2>1 DEF Ready, Mapped
  <2> QED BY <2>2, AssetImportAssumption
<1>6. /\ UNCHANGED <<export, meta>> /\ WriteBody(g, content, k, other)
  BY DEF WriteMaterial
<1>7. Tail(job.todo) # <<>> /\ NoWrite(Tail(job.todo))
  <2>1. job.todo[1] = Here /\ 1 \in DOMAIN job.todo /\ Len(job.todo) \in Nat
        /\ Len(Tail(job.todo)) = Len(job.todo) - 1
    BY <1>1, <1>3, Rest
  <2>2. 1 < Len(job.todo)
    BY <1>1, <2>1 DEF Pending
  <2>3. Len(Tail(job.todo)) > 0
    BY <2>1, <2>2
  <2>4. Tail(job.todo) # <<>>
    <3> DEFINE rest == Tail(job.todo)
    <3>1. Len(rest) > 0
      BY <2>3
    <3> HIDE DEF rest
    <3>2. rest # <<>>
      BY <3>1
    <3> QED BY <3>2 DEF rest
  <2> QED BY <1>1, <1>3, <2>4, NothingPending
<1>8. Tail(Tail(job.todo)) \in Seq(TasksOf(job.doc))
  <2> DEFINE rest == Tail(job.todo)
  <2>1. rest \in Seq(TasksOf(job.doc)) /\ rest # <<>>
    BY <1>1, <1>3, <1>7, Rest
  <2> HIDE DEF rest
  <2>2. Tail(rest) \in Seq(TasksOf(job.doc))
    BY <2>1, Rest
  <2> QED BY <2>2 DEF rest
<1>9. /\ JobOK(other) /\ other.at = "pass" /\ other.meta = job.meta
      /\ other.todo = Tail(Tail(job.todo)) /\ other.images = job.images
      /\ other.changed = job.changed /\ other.doc = job.doc
  <2>1. JobOK(other) /\ other.at = "pass"
    BY <1>1, <1>3, <1>8, NewTodo DEF At
  <2> QED BY <1>3, <2>1 DEF JobOK, JobOf
<1> HIDE DEF k, other, content
<1>10. \/ /\ UNCHANGED <<faults, settled>> /\ job' = k
          /\ body' = [body EXCEPT ![g] = content]
       \/ ~settled' /\ job' = Failing(other)
  BY <1>3, <1>6, <1>9, BodyOutcome
<1>11. CASE ~settled' /\ job' = Failing(other)
  <2>1. Ready(other) /\ Standing(other, meta')
    BY <1>1, <1>3, <1>6, <1>7, <1>9, ReadyWithout DEF Standing
  <2> QED BY <1>6, <1>9, <1>11, <2>1, StepFails
<1>12. CASE /\ UNCHANGED <<faults, settled>> /\ job' = k
            /\ body' = [body EXCEPT ![g] = content]
  <2>1. \A n \in DOMAIN k.images : k.images[n] \in Nat \cup {NoGuid}
    BY <1>2, <1>3 DEF Ready
  <2>2. Continues(job, <<>>, k)
    BY <1>1, <1>2, <1>3, <2>1, ContinuesPlainly
  <2>3. Standing(k, meta')
    BY <1>2, <1>3, <1>6 DEF Standing
  <2>4. body'[g] = content /\ \A f \in Generated : f # g => body'[f] = body[f]
    BY <1>4, <1>12
  <2>5. Carries(job, k, body, body', meta, meta')
    BY <1>1, <1>2, <1>5, <1>6, <2>4 DEF Carries, Serves, Writes
  <2> QED BY <1>1, <1>2, <1>3, <1>6, <1>12, <2>2, <2>3, <2>5, StepDelivers
<1> QED BY <1>10, <1>11, <1>12


\* The record of an image that is about to be extracted is made first.
LEMMA ExtractAheadDelivers ==
  ASSUME IInv, DInv, ImageEmbedded, ~Kept(ImagesOf(job.doc)[Here.nr])
  PROVE  DInv'
<1> DEFINE sub == ImagesOf(job.doc)[Here.nr]
           g == Goto("extract")
           k == Register(g, sub)
<1>1. At("pass") /\ Here.nr \in DOMAIN job.doc.images
  BY OnTask DEF ImageEmbedded
<1>2. /\ Typed /\ ~Idle /\ JobOK(job) /\ job.doc \in Exports /\ Ready(job) /\ Standing(job, meta)
      /\ job.meta \in Metas /\ minted \in Nat
      /\ job.clean => job.doc = export /\ Delivers(job, body, meta)
      /\ SidecarsAgree
  BY <1>1, SoFar
<1>3. sub \in Generated
  BY <1>1, <1>2, Keys
<1>4. job' = k /\ UNCHANGED <<export, body, meta, faults, settled>>
  BY DEF ImageEmbedded
<1> HIDE DEF sub
<1>5. /\ JobOK(g) /\ g.at = "extract" /\ g.todo = job.todo /\ g.meta = job.meta
      /\ g.images = job.images /\ g.changed = job.changed /\ g.clean = job.clean
      /\ g.doc = job.doc
  <2>1. JobOK(g) /\ g.at = "extract" /\ g.todo = job.todo /\ g.meta = job.meta
        /\ g.doc = job.doc
    BY <1>2, NewStep DEF Goto
  <2>2. g.images = job.images /\ g.changed = job.changed /\ g.clean = job.clean
    BY <1>2 DEF Goto, JobOK, JobOf
  <2> QED BY <2>1, <2>2
<1> HIDE DEF g
<1>6. /\ k.at = "extract" /\ k.todo = job.todo
      /\ k.meta = Registered(job.meta, sub, minted + 1)
      /\ k.images = job.images /\ k.clean = job.clean /\ k.doc = job.doc
      /\ k.changed <=> job.changed \/ ~Has(job.meta, sub)
  BY <1>2, <1>3, <1>5, Records, RegisterRest
<1> HIDE DEF k
<1>7. /\ k.meta \in Metas /\ Extends(k.meta, job.meta)
      /\ \A other : Has(job.meta, other) => Has(k.meta, other)
  BY <1>2, <1>3, <1>6, Registering
<1>8. Ready(k)
  BY <1>2, <1>6, <1>7 DEF Ready
<1>9. Standing(k, meta')
  BY <1>2, <1>4, <1>6, StandsOn
<1>10. ASSUME k.clean, NEW other \in Produced(k.doc)
       PROVE  Coming(k, body, other) \/ Made(k, body, meta, other)
  <2>1. CASE Coming(job, body, other)
    BY <1>6, <2>1 DEF Coming
  <2>2. CASE Made(job, body, meta, other)
    <3>1. body[other] # NoFile /\ Readable(meta[other])
      BY <2>2 DEF Made
    <3> QED BY <1>2, <1>7, <2>2, <3>1, MadeOn
  <2> QED BY <1>2, <1>6, <1>10, <2>1, <2>2 DEF Delivers
<1>11. SidecarsAgree'
  BY <1>2, <1>4, SameAgreed
<1>12. k.clean => k.doc = export /\ Delivers(k, body', meta')
  BY <1>2, <1>4, <1>6, <1>10 DEF Delivers
<1> QED BY <1>4, <1>6, <1>8, <1>9, <1>11, <1>12, PassOn

\* An image of the model's own that is there has its record and its sidecar
\* due; it is in the cache then.
Extracted(sub, s, ident, k) ==
    /\ job.todo # <<>> /\ Here.op = "image" /\ Here.nr \notin DOMAIN job.images
    /\ sub \in Generated /\ sub = ImagesOf(job.doc)[Here.nr]
    /\ job.doc.images[Here.nr].holds = Embedded
    /\ s = [op |-> "sidecar", sub |-> sub] /\ ident \in Nat
    /\ k.meta \in Metas /\ Extends(k.meta, job.meta) /\ Has(k.meta, sub)
    /\ k.at = "pass" /\ k.doc = job.doc /\ k.clean = job.clean
    /\ k.todo = <<s>> \o Tail(job.todo)
    /\ k.images = [n \in DOMAIN job.images \cup {Here.nr} |->
                     IF n = Here.nr THEN ident ELSE job.images[n]]

LEMMA EmbeddedDelivers ==
  ASSUME IInv, DInv, At("pass") \/ At("extract"), MetaKept,
         UNCHANGED <<export, meta, faults, settled>>,
         NEW sub, NEW s, NEW ident, NEW k, Extracted(sub, s, ident, k),
         job' = k, Standing(k, meta'),
         \A g \in Generated : body[g] # NoFile => body'[g] # NoFile,
         body'[sub] # NoFile
  PROVE  DInv'
<1> DEFINE T == TasksOf(job.doc)
           m == k.meta
<1>0. /\ job.todo # <<>> /\ Here.op = "image" /\ Here.nr \notin DOMAIN job.images
      /\ sub \in Generated /\ sub = ImagesOf(job.doc)[Here.nr]
      /\ job.doc.images[Here.nr].holds = Embedded
      /\ s = [op |-> "sidecar", sub |-> sub] /\ ident \in Nat
      /\ k.meta \in Metas /\ Extends(k.meta, job.meta) /\ Has(k.meta, sub)
      /\ k.at = "pass" /\ k.doc = job.doc /\ k.clean = job.clean
      /\ k.todo = <<s>> \o Tail(job.todo)
      /\ k.images = [n \in DOMAIN job.images \cup {Here.nr} |->
                       IF n = Here.nr THEN ident ELSE job.images[n]]
  BY DEF Extracted
<1>1. /\ Typed /\ ~Idle /\ JobOK(job) /\ job.doc \in Exports /\ Ready(job)
      /\ job.todo \in Seq(T) /\ job.meta \in Metas /\ Head(job.todo) = Here
      /\ \A a \in Sources : meta[a] \in Metas \cup {NoFile, Unreadable}
  BY <1>0, SoFar DEF Here
<1>2. \A g : Has(job.meta, g) => Has(m, g)
  BY <1>0, <1>1, Found
<1>3. s \in T /\ s.op = "sidecar" /\ s.sub = sub
  BY <1>0 DEF TasksOf
<1> HIDE DEF T
<1>4. <<s>> \in Seq(T) /\ DOMAIN <<s>> = {1} /\ <<s>>[1] = s
  BY <1>3, One
<1>5. Continues(job, <<s>>, k)
  <2>1. \A n \in DOMAIN k.images : k.images[n] \in Nat \cup {NoGuid}
    BY <1>0, <1>1 DEF Ready
  <2> DEFINE p == <<s>>
  <2>2. \A i \in DOMAIN p : p[i] = s
    BY <1>4
  <2>3. Has(k.meta, s.sub) /\ s.op # "write"
    BY <1>0, <1>3
  <2>4. k.todo = p \o Tail(job.todo)
    BY <1>0
  <2>5. /\ DOMAIN job.images \subseteq DOMAIN k.images /\ Here.nr \in DOMAIN k.images
        /\ \A g : Has(job.meta, g) => Has(k.meta, g)
    BY <1>0, <1>2
  <2> HIDE DEF p
  <2>6. Continues(job, p, k)
    BY <1>0, <1>1, <2>1, <2>2, <2>3, <2>4, <2>5 DEF Continues
  <2> QED BY <2>6 DEF p
<1>6. \A g : Embeds(job.doc, Here.nr, g) => g = sub
  BY <1>0 DEF Embeds
<1>7. Coming(k, body', sub)
  <2>1. 1 \in DOMAIN k.todo /\ k.todo[1] = s
    <3>1. /\ Len(<<s>>) = 1 /\ Len(job.todo) \in Nat \ {0}
          /\ DOMAIN k.todo = 1..Len(<<s>>) + Len(job.todo) - 1
          /\ \A n \in 1..Len(<<s>>) : k.todo[n] = <<s>>[n]
      BY <1>0, <1>1, <1>4, Shifted
    <3> QED BY <1>4, <3>1
  <2> QED BY <1>0, <1>3, <2>1 DEF Coming
<1>8. \A g \in Generated : Serves(job, body, g) => g = sub
  BY <1>0, <1>1, <1>6 DEF Serves
<1>9. \A n \in DOMAIN k.images \ DOMAIN job.images : n = Here.nr
  BY <1>0
<1>10. \A g \in Generated : Embeds(job.doc, Here.nr, g) => Serves(job, body, g)
  BY <1>0, <1>1 DEF Serves
<1>11. Carries(job, k, body, body', meta, meta')
  BY <1>0, <1>1, <1>7, <1>8, <1>9, <1>10 DEF Carries, Writes
<1>12. \A a \in Sources : meta'[a] \in Metas \cup {NoFile, Unreadable}
  BY <1>1
<1> QED BY <1>0, <1>4, <1>5, <1>11, <1>12, StepDelivers DEF T

\* An image whose file is there: its record, and its sidecar next.
LEMMA EmbeddedTask ==
  ASSUME IInv, DInv, ImageEmbedded, Kept(ImagesOf(job.doc)[Here.nr])
  PROVE  LET sub == ImagesOf(job.doc)[Here.nr]
             k == job'
         IN  /\ \E s : Extracted(sub, s, RecordOf(k.meta, sub).guid, k)
             /\ k.meta = Registered(job.meta, sub, minted + 1)
             /\ k.changed <=> job.changed \/ ~Has(job.meta, sub)
             /\ UNCHANGED <<export, body, meta, pool, faults, settled>> /\ body[sub] # NoFile
<1> DEFINE T == TasksOf(job.doc)
           sub == ImagesOf(job.doc)[Here.nr]
           ident == RecordOf(Register(job, sub).meta, sub).guid
           s == [op |-> "sidecar", sub |-> sub]
           j == Then(<<s>>)
           r == Register(j, sub)
           k == Caching(r, Here.nr, ident)
           m == Registered(job.meta, sub, minted + 1)
<1>1. /\ At("pass") /\ Here.op = "image" /\ Here.nr \in DOMAIN job.doc.images
      /\ job.todo # <<>> /\ Tail(job.todo) \in Seq(T) /\ Pending(Tail(job.todo), Seen)
  BY OnTask DEF ImageEmbedded
<1>2. /\ Typed /\ ~Idle /\ JobOK(job) /\ job.doc \in Exports /\ Standing(job, meta)
      /\ job.meta \in Metas /\ minted \in Nat
  BY <1>1, SoFar
<1>3. sub \in Generated /\ s \in T /\ s.op = "sidecar"
  BY <1>1, <1>2, Keys DEF TasksOf
<1>4. /\ UNCHANGED <<export, body, meta, pool, faults, settled>> /\ job' = k
      /\ Here.nr \notin DOMAIN job.images /\ job.doc.images[Here.nr].holds = Embedded
  BY DEF ImageEmbedded
<1>5. body[sub] # NoFile
  BY DEF Kept, Exists
<1>6. m \in Metas /\ Extends(m, job.meta) /\ Has(m, sub) /\ RecordOf(m, sub).guid \in Nat
  BY <1>2, <1>3, Registering
<1>7. ident \in Nat
  <2>1. Register(job, sub).meta = m
    BY <1>2, RegisterRest
  <2> QED BY <1>6, <2>1
<1> HIDE DEF T, ident, m
<1>8. /\ JobOK(j) /\ j.at = "pass" /\ j.meta = job.meta
      /\ j.todo = <<s>> \o Tail(job.todo) /\ j.images = job.images
      /\ j.changed = job.changed /\ j.clean = job.clean /\ j.doc = job.doc
  <2> DEFINE rest == Tail(job.todo)
             one == <<s>>
  <2> HIDE DEF rest, one, s
  <2>1. one \in Seq(T) /\ Quiet(one)
    BY <1>3, One DEF Quiet, one
  <2>2. Pending(one \o rest, Seen)
    BY <1>1, <2>1, PendingLater DEF rest
  <2>3. LET new == Then(one)
        IN  /\ JobOK(new) /\ new.at = "pass" /\ new.meta = job.meta
            /\ new.todo = one \o rest /\ new.images = job.images
            /\ new.changed = job.changed /\ new.clean = job.clean /\ new.doc = job.doc
    BY <1>1, <1>2, <2>1, <2>2, Continued, ThenRest DEF T, rest
  <2> QED BY <2>3 DEF one, rest
<1> HIDE DEF j
<1>9. /\ JobOK(r) /\ r.at = "pass" /\ r.meta = m /\ r.todo = j.todo
      /\ r.images = job.images /\ r.clean = job.clean /\ r.doc = job.doc
      /\ r.changed <=> job.changed \/ ~Has(job.meta, sub)
  BY <1>2, <1>3, <1>8, Records, RegisterRest DEF m
<1> HIDE DEF r
<1>10. /\ k.at = "pass" /\ k.meta = m /\ k.todo = <<s>> \o Tail(job.todo)
       /\ k.images = [n \in DOMAIN job.images \cup {Here.nr} |->
                        IF n = Here.nr THEN ident ELSE job.images[n]]
       /\ k.clean = job.clean /\ k.doc = job.doc
       /\ k.changed = r.changed
  <2> HIDE DEF s, sub
  <2>1. JobOK(r)
    BY <1>9
  <2>2. k.at = r.at /\ k.meta = r.meta /\ k.todo = r.todo
    BY <2>1, Cached
  <2>3. /\ k.clean = r.clean /\ k.doc = r.doc /\ k.changed = r.changed
        /\ k.images = [n \in DOMAIN r.images \cup {Here.nr} |->
                         IF n = Here.nr THEN ident ELSE r.images[n]]
    BY <2>1, CachingRest
  <2> HIDE DEF k
  <2> QED BY <1>8, <1>9, <2>2, <2>3
<1> HIDE DEF k
<1>11. ident = RecordOf(m, sub).guid
  <2>1. Register(job, sub).meta = m
    BY <1>2, RegisterRest DEF m
  <2> QED BY <2>1 DEF ident
<1> HIDE DEF s, sub
<1>12. s = [op |-> "sidecar", sub |-> sub] /\ sub = ImagesOf(job.doc)[Here.nr]
  BY DEF s, sub
<1>13. Extracted(sub, s, ident, k)
  BY <1>1, <1>3, <1>4, <1>6, <1>7, <1>10, <1>12 DEF Extracted
<1>14. k.changed <=> job.changed \/ ~Has(job.meta, sub)
  BY <1>9, <1>10
<1> QED BY <1>4, <1>5, <1>10, <1>11, <1>13, <1>14 DEF sub, m

LEMMA ImageEmbeddedDelivers ==
  ASSUME IInv, DInv, ImageEmbedded, MetaKept
  PROVE  DInv'
<1> DEFINE sub == ImagesOf(job.doc)[Here.nr]
<1>1. At("pass")
  BY OnTask DEF ImageEmbedded
<1>2. CASE ~Kept(sub)
  BY <1>2, ExtractAheadDelivers
<1>3. CASE Kept(sub)
  <2>1. PICK k : k = job'
    OBVIOUS
  <2>2. PICK s : Extracted(sub, s, RecordOf(k.meta, sub).guid, k)
    BY <1>3, <2>1, EmbeddedTask
  <2>3. /\ k.meta = Registered(job.meta, sub, minted + 1)
        /\ k.changed <=> job.changed \/ ~Has(job.meta, sub)
        /\ UNCHANGED <<export, body, meta, pool, faults, settled>> /\ body[sub] # NoFile
    BY <1>3, <2>1, EmbeddedTask
  <2> HIDE DEF sub
  <2>4. Standing(k, meta')
    BY <1>1, <2>3, StandsOn, SoFar
  <2> QED BY <1>1, <2>1, <2>2, <2>3, <2>4, EmbeddedDelivers
<1> QED BY <1>2, <1>3

\* An image is written, its record being there.
LEMMA ExtractTask ==
  ASSUME IInv, DInv, Extract
  PROVE  LET sub == ImagesOf(job.doc)[Here.nr]
         IN  \E s, k, other :
                /\ WriteBody(sub, Pixels, k, other) /\ UNCHANGED <<export, meta, pool>>
                /\ Extracted(sub, s, RecordOf(job.meta, sub).guid, k)
                /\ k.meta = job.meta /\ k.changed = job.changed
                /\ JobOK(other) /\ other.at = "pass" /\ other.meta = job.meta
                /\ other.todo = <<>> \o Tail(job.todo) /\ other.doc = job.doc
                /\ other.images = [n \in DOMAIN job.images \cup {Here.nr} |->
                                     IF n = Here.nr THEN NoGuid ELSE job.images[n]]
                /\ other.changed = job.changed
<1> DEFINE T == TasksOf(job.doc)
           sub == ImagesOf(job.doc)[Here.nr]
           ident == RecordOf(job.meta, sub).guid
           s == [op |-> "sidecar", sub |-> sub]
           j == Then(<<s>>)
           k == Caching(j, Here.nr, ident)
           jn == Then(<<>>)
           other == Caching(jn, Here.nr, NoGuid)
<1>0. At("extract")
  BY DEF Extract
<1>1. /\ Here.op = "image" /\ Here.nr \in DOMAIN job.doc.images
      /\ job.todo # <<>> /\ Tail(job.todo) \in Seq(T) /\ Pending(Tail(job.todo), Seen)
      /\ Head(job.todo) = Here
  BY <1>0, OnExtract DEF Here
<1>2. /\ Typed /\ ~Idle /\ JobOK(job) /\ job.doc \in Exports /\ Ready(job) /\ Standing(job, meta)
      /\ job.todo \in Seq(T) /\ job.meta \in Metas /\ minted \in Nat
  BY <1>0, SoFar
<1>3. sub \in Generated /\ s \in T /\ s.op = "sidecar"
  BY <1>1, <1>2, Keys DEF TasksOf
<1>4. /\ Here.nr \notin DOMAIN job.images /\ job.doc.images[Here.nr].holds = Embedded
      /\ Has(job.meta, sub)
  BY <1>0 DEF IInv, Knows, Waiting, Here
<1>5. ident \in Nat
  BY <1>0, <1>4, SoFar
<1>6. UNCHANGED <<export, meta, pool>> /\ WriteBody(sub, Pixels, k, other)
  BY DEF Extract
<1> HIDE DEF T, ident
<1>7. /\ JobOK(j) /\ j.at = "pass" /\ j.meta = job.meta
      /\ j.todo = <<s>> \o Tail(job.todo) /\ j.images = job.images
      /\ j.changed = job.changed /\ j.clean = job.clean /\ j.doc = job.doc
  <2> DEFINE rest == Tail(job.todo)
             one == <<s>>
  <2> HIDE DEF rest, one, s
  <2>1. one \in Seq(T) /\ Quiet(one)
    BY <1>3, One DEF Quiet, one
  <2>2. Pending(one \o rest, Seen)
    BY <1>1, <2>1, PendingLater DEF rest
  <2>3. LET new == Then(one)
        IN  /\ JobOK(new) /\ new.at = "pass" /\ new.meta = job.meta
            /\ new.todo = one \o rest /\ new.images = job.images
            /\ new.changed = job.changed /\ new.clean = job.clean /\ new.doc = job.doc
    BY <1>0, <1>1, <1>2, <2>1, <2>2, Continued, ThenRest DEF T, rest
  <2> QED BY <2>3 DEF one, rest
<1>8. /\ JobOK(jn) /\ jn.at = "pass" /\ jn.meta = job.meta
      /\ jn.todo = <<>> \o Tail(job.todo) /\ jn.images = job.images
      /\ jn.changed = job.changed /\ jn.clean = job.clean /\ jn.doc = job.doc
      /\ <<>> \in Seq(T)
  BY <1>0, <1>1, DoneRest DEF T
<1> HIDE DEF j, jn
<1>9. /\ k.at = "pass" /\ k.meta = job.meta /\ k.todo = <<s>> \o Tail(job.todo)
      /\ k.images = [n \in DOMAIN job.images \cup {Here.nr} |->
                       IF n = Here.nr THEN ident ELSE job.images[n]]
      /\ k.clean = job.clean /\ k.doc = job.doc
      /\ k.changed = job.changed
  <2> HIDE DEF s, sub
  <2>1. JobOK(j)
    BY <1>7
  <2>2. k.at = j.at /\ k.meta = j.meta /\ k.todo = j.todo
    BY <2>1, Cached
  <2>3. /\ k.clean = j.clean /\ k.doc = j.doc /\ k.changed = j.changed
        /\ k.images = [n \in DOMAIN j.images \cup {Here.nr} |->
                         IF n = Here.nr THEN ident ELSE j.images[n]]
    BY <2>1, CachingRest
  <2> HIDE DEF k
  <2> QED BY <1>7, <2>2, <2>3
<1>10. /\ JobOK(other) /\ other.at = "pass" /\ other.meta = job.meta
       /\ other.todo = <<>> \o Tail(job.todo) /\ other.doc = job.doc
       /\ other.images = [n \in DOMAIN job.images \cup {Here.nr} |->
                            IF n = Here.nr THEN NoGuid ELSE job.images[n]]
       /\ other.changed = job.changed
  BY <1>8, Cached, CachingRest
<1> HIDE DEF k, other, s, sub
<1>11. s = [op |-> "sidecar", sub |-> sub] /\ sub = ImagesOf(job.doc)[Here.nr]
  BY DEF s, sub
<1>12. job.meta \in Metas /\ Extends(job.meta, job.meta)
  BY <1>2, Reflexive
<1>13. Extracted(sub, s, ident, k)
  BY <1>1, <1>3, <1>4, <1>5, <1>9, <1>11, <1>12 DEF Extracted
<1>14. /\ WriteBody(sub, Pixels, k, other) /\ UNCHANGED <<export, meta, pool>>
       /\ Extracted(sub, s, RecordOf(job.meta, sub).guid, k)
       /\ k.meta = job.meta /\ k.changed = job.changed
       /\ JobOK(other) /\ other.at = "pass" /\ other.meta = job.meta
       /\ other.todo = <<>> \o Tail(job.todo) /\ other.doc = job.doc
       /\ other.images = [n \in DOMAIN job.images \cup {Here.nr} |->
                            IF n = Here.nr THEN NoGuid ELSE job.images[n]]
       /\ other.changed = job.changed
  BY <1>6, <1>9, <1>10, <1>13 DEF ident
<1> HIDE DEF sub
<1> QED BY <1>11, <1>14, Zenon

LEMMA ExtractDelivers ==
  ASSUME IInv, DInv, Extract, MetaKept
  PROVE  DInv'
<1> DEFINE T == TasksOf(job.doc)
           sub == ImagesOf(job.doc)[Here.nr]
<1>1. PICK s, k, other :
         /\ WriteBody(sub, Pixels, k, other) /\ UNCHANGED <<export, meta, pool>>
         /\ Extracted(sub, s, RecordOf(job.meta, sub).guid, k)
         /\ k.meta = job.meta /\ k.changed = job.changed
         /\ JobOK(other) /\ other.at = "pass" /\ other.meta = job.meta
         /\ other.todo = <<>> \o Tail(job.todo) /\ other.doc = job.doc
         /\ other.images = [n \in DOMAIN job.images \cup {Here.nr} |->
                              IF n = Here.nr THEN NoGuid ELSE job.images[n]]
         /\ other.changed = job.changed
  BY ExtractTask
<1>2. At("extract")
  BY DEF Extract
<1>3. /\ Head(job.todo) = Here /\ job.todo # <<>> /\ sub \in Generated
  <2>1. Head(job.todo) = Here
    BY DEF Here
  <2> QED BY <1>1, <2>1 DEF Extracted
<1>4. /\ Typed /\ ~Idle /\ JobOK(job) /\ Ready(job) /\ Standing(job, meta)
      /\ job.todo \in Seq(T)
  BY <1>2, SoFar
<1> HIDE DEF T, sub
<1>5. Standing(k, meta') /\ Standing(other, meta')
  BY <1>1, <1>4 DEF Standing
<1>6. CASE ~settled' /\ job' = Failing(other)
  <2>1. \A n \in DOMAIN other.images : other.images[n] \in Nat \cup {NoGuid}
    BY <1>1, <1>4 DEF Ready
  <2>2. Continues(job, <<>>, other)
    BY <1>1, <1>3, <1>4, <2>1, ContinuesPlainly
  <2>3. <<>> \in Seq(T)
    BY EmptyTodo DEF T
  <2>4. Ready(other)
    BY <1>1, <1>3, <1>4, <2>2, <2>3, ReadyOn DEF T
  <2> QED BY <1>1, <1>5, <1>6, <2>4, StepFails
<1>7. CASE /\ UNCHANGED <<faults, settled>> /\ job' = k
           /\ body' = [body EXCEPT ![sub] = Pixels]
  <2>1. body'[sub] = Pixels /\ \A g \in Generated : g # sub => body'[g] = body[g]
    BY <1>3, <1>4, <1>7 DEF Typed
  <2>2. \A g \in Generated : body[g] # NoFile => body'[g] # NoFile
    BY <2>1, AssetImportAssumption
  <2>3. body'[sub] # NoFile
    BY <2>1, AssetImportAssumption
  <2> QED BY <1>1, <1>2, <1>5, <1>7, <2>2, <2>3, EmbeddedDelivers
<1>8. \/ /\ UNCHANGED <<faults, settled>> /\ job' = k
         /\ body' = [body EXCEPT ![sub] = Pixels]
      \/ ~settled' /\ job' = Failing(other)
  BY <1>1, <1>4, BodyOutcome
<1> QED BY <1>6, <1>7, <1>8

-----------------------------------------------------------------------------
(* The steps before and after a pass.                                       *)

LEMMA OffPass ==
  ASSUME NEW k, job' = k, k.at \in {"idle", "persist", "load", "produce"},
         k.at # "idle" => k.images = <<>> /\ ~k.changed,
         SidecarsAgree'
  PROVE  DInv'
BY DEF DInv, Passing, At

LEMMA BeforePassDelivers ==
  ASSUME IInv, DInv, MetaKept,
         \/ \E a \in Sources : Import(a)
         \/ Persist \/ LoadPicture \/ LoadModel \/ GiveUp
  PROVE  DInv'
<1>1. SidecarsAgree
  BY DEF DInv
<1>2. CASE \E a \in Sources : Import(a)
  <2>1. PICK a \in Sources : Import(a)
    BY <1>2
  <2>2. UNCHANGED <<export, body, meta, settled>>
    BY <2>1 DEF Import
  <2>3. /\ job'.at \in {"persist", "load"}
        /\ job'.images = <<>> /\ ~job'.changed
    BY <2>1 DEF Import
  <2>4. SidecarsAgree'
    BY <1>1, <2>2, SameAgreed
  <2> QED BY <2>3, <2>4, OffPass
<1>3. CASE Persist
  <2>1. ~Idle /\ At("persist")
    BY <1>3 DEF Persist, At, Idle
  <2>2. /\ JobOK(job) /\ Typed /\ job.asset \in Sources /\ job.asset \notin Generated
        /\ job.asset \in Assets /\ Generated \subseteq Assets /\ job.meta \in Metas
    BY <2>1, Working
  <2>3. job.images = <<>> /\ ~job.changed
    BY <2>1 DEF DInv, At
  <2> DEFINE k == Goto("load")
  <2>4. JobOK(k) /\ k.at = "load" /\ k.images = <<>> /\ ~k.changed
    BY <2>2, <2>3, NewStep DEF Goto, JobOK, JobOf
  <2>5. WriteMeta(job.asset, job.meta, k, k) /\ UNCHANGED <<export, body>>
    BY <1>3 DEF Persist
  <2> HIDE DEF k
  <2>6. /\ \A b \in Assets \ {job.asset} : meta'[b] = meta[b]
        /\ \A b \in Sources : meta'[b] \in Metas \cup {NoFile, Unreadable}
    BY <2>2, <2>5, MetaWritten
  <2>7. \/ UNCHANGED <<faults, settled>> /\ job' = k
        \/ ~settled' /\ job' = Failing(k)
    BY <2>2, <2>4, <2>5, MetaOutcome
  <2>8. \A g \in Generated : meta'[g] = meta[g]
    BY <2>2, <2>6
  <2>9. CASE UNCHANGED <<faults, settled>> /\ job' = k
    <3>1. SidecarsAgree'
      BY <1>1, <2>5, <2>6, <2>8, <2>9, StaysAgreed DEF Grown
    <3> QED BY <2>4, <2>9, <3>1, OffPass
  <2>10. CASE ~settled' /\ job' = Failing(k)
    <3>1. SidecarsAgree'
      BY <2>10 DEF SidecarsAgree
    <3>2. Failing(k).at = "load" /\ Failing(k).images = <<>> /\ ~Failing(k).changed
      BY <2>4, Failed, FailingRest
    <3> QED BY <2>10, <3>1, <3>2, OffPass
  <2> QED BY <2>7, <2>9, <2>10
<1>4. CASE LoadPicture \/ LoadModel \/ GiveUp
  <2>1. /\ ~Idle
        /\ At("load") \/ At("produce")
        /\ UNCHANGED <<export, body, meta, settled>>
    BY <1>4 DEF LoadPicture, LoadModel, GiveUp, At, Idle
  <2>2. job.images = <<>> /\ ~job.changed /\ JobOK(job)
    BY <2>1, Working DEF DInv, At
  <2>3. SidecarsAgree'
    BY <1>1, <2>1, SameAgreed
  <2>4. CASE job' = NoJob
    <3>1. job'.at = "idle"
      BY <2>4 DEF NoJob
    <3> QED BY <2>3, <3>1, OffPass
  <2>5. CASE job' = Goto("produce")
    <3>1. job'.at = "produce" /\ job'.images = <<>> /\ ~job'.changed
      BY <2>2, <2>5 DEF Goto, JobOK, JobOf
    <3> QED BY <2>3, <3>1, OffPass
  <2> QED BY <1>4, <2>4, <2>5 DEF LoadPicture, LoadModel, GiveUp, Finish
<1> QED BY <1>2, <1>3, <1>4

LEMMA AllComing ==
  ASSUME NEW m \in Nat, NEW n \in Nat
  PROVE  LET todo == Tasks("material", m) \o Tasks("image", n)
         IN  /\ \A i \in DOMAIN todo : todo[i].op \in {"material", "image"}
             /\ \A i \in 1..m : i \in DOMAIN todo /\ todo[i] = [op |-> "material", nr |-> i]
             /\ \A i \in 1..n : /\ m + i \in DOMAIN todo
                                /\ todo[m + i] = [op |-> "image", nr |-> i]
<1> DEFINE T == [op : {"material", "image"}, nr : Nat]
           s == Tasks("material", m)
           t == Tasks("image", n)
<1>1. ASSUME NEW S, NEW k \in Nat, NEW f \in [1..k -> S] PROVE f \in Seq(S) /\ Len(f) = k
  OBVIOUS
<1>2. s \in [1..m -> T] /\ t \in [1..n -> T]
  BY DEF Tasks
<1>3. /\ \A i \in 1..m : s[i] = [op |-> "material", nr |-> i]
      /\ \A i \in 1..n : t[i] = [op |-> "image", nr |-> i]
  BY DEF Tasks
<1>4. \A r \in T : r.op \in {"material", "image"}
  OBVIOUS
<1> HIDE DEF s, t, T
<1>5. s \in Seq(T) /\ t \in Seq(T) /\ Len(s) = m /\ Len(t) = n
  BY <1>1, <1>2
<1>6. /\ s \o t \in Seq(T) /\ DOMAIN (s \o t) = 1..m + n
      /\ \A i \in 1..m : (s \o t)[i] = s[i]
      /\ \A i \in m + 1..m + n : (s \o t)[i] = t[i - m]
  <2>1. /\ s \o t \in Seq(T)
        /\ Len(s) \in Nat /\ Len(t) \in Nat /\ DOMAIN s = 1..Len(s) /\ DOMAIN t = 1..Len(t)
        /\ DOMAIN (s \o t) = 1..Len(s) + Len(t)
        /\ \A i \in 1..Len(s) : (s \o t)[i] = s[i]
        /\ \A i \in Len(s) + 1..Len(s) + Len(t) : (s \o t)[i] = t[i - Len(s)]
    <3>1. s \in Seq(T) /\ t \in Seq(T)
      BY <1>5
    <3> QED BY <3>1
  <2> QED BY <1>5, <2>1
<1>8. ASSUME NEW i \in 1..n
      PROVE  (s \o t)[m + i] = t[i] /\ m + i \in DOMAIN (s \o t)
  <2>1. PICK h \in Nat : h = m + i
    OBVIOUS
  <2>2. h \in m + 1..m + n /\ h - m = i /\ h \in 1..m + n
    BY <2>1
  <2>3. (s \o t)[h] = t[h - m] /\ h \in DOMAIN (s \o t)
    BY <1>6, <2>2
  <2> QED BY <2>1, <2>2, <2>3
<1>9. \A i \in DOMAIN (s \o t) : (s \o t)[i].op \in {"material", "image"}
  BY <1>4, <1>6, Element
<1>10. \A i \in 1..m : i \in DOMAIN (s \o t)
  BY <1>6
<1> QED BY <1>3, <1>6, <1>8, <1>9, <1>10 DEF s, t

LEMMA ProduceDelivers ==
  ASSUME IInv, DInv, Produce
  PROVE  DInv'
<1> DEFINE todo == Tasks("material", Len(export.materials))
                   \o Tasks("image", Len(export.images))
           m == Loaded(Model)
<1>1. ~Idle /\ At("produce")
  BY DEF Produce, At, Idle
<1>2. JobOK(job) /\ export \in Exports
  BY <1>1, Working
<1>3. job.images = <<>> /\ ~job.changed /\ SidecarsAgree
  BY <1>1 DEF DInv, At
<1>4. /\ DOMAIN export.materials = 1..Len(export.materials) /\ Len(export.materials) \in Nat
      /\ DOMAIN export.images = 1..Len(export.images) /\ Len(export.images) \in Nat
      /\ DOMAIN MaterialsOf(export) = DOMAIN export.materials
  BY <1>2, Keys
<1>5. /\ \A i \in DOMAIN todo : todo[i].op \in {"material", "image"}
      /\ \A i \in DOMAIN export.materials :
            \E n \in DOMAIN todo : todo[n].op = "material" /\ todo[n].nr = i
      /\ \A i \in DOMAIN export.images :
            \E n \in DOMAIN todo : todo[n].op = "image" /\ todo[n].nr = i
  <2> DEFINE M == Len(export.materials)
             N == Len(export.images)
  <2>1. /\ \A i \in DOMAIN todo : todo[i].op \in {"material", "image"}
        /\ \A i \in 1..M : i \in DOMAIN todo /\ todo[i] = [op |-> "material", nr |-> i]
        /\ \A i \in 1..N : M + i \in DOMAIN todo /\ todo[M + i] = [op |-> "image", nr |-> i]
    BY <1>4, AllComing
  <2> HIDE DEF todo, M, N
  <2>2. ASSUME NEW i \in 1..M
        PROVE  \E n \in DOMAIN todo : todo[n].op = "material" /\ todo[n].nr = i
    <3>1. i \in DOMAIN todo /\ todo[i] = [op |-> "material", nr |-> i]
      BY <2>1
    <3>2. todo[i].op = "material" /\ todo[i].nr = i
      BY <3>1
    <3> QED BY <3>1, <3>2
  <2>3. ASSUME NEW i \in 1..N
        PROVE  \E n \in DOMAIN todo : todo[n].op = "image" /\ todo[n].nr = i
    <3>1. M + i \in DOMAIN todo /\ todo[M + i] = [op |-> "image", nr |-> i]
      BY <2>1
    <3>2. todo[M + i].op = "image" /\ todo[M + i].nr = i
      BY <3>1
    <3> QED BY <3>1, <3>2
  <2> QED BY <1>4, <2>1, <2>2, <2>3 DEF M, N
<1>6. m.records = <<>> \/ m = meta[Model]
  BY DEF Loaded, Sidecar
<1>7. /\ job' = [job EXCEPT !.at = "pass", !.meta = m, !.doc = export, !.todo = todo]
      /\ UNCHANGED <<export, body, meta, faults, settled>>
  BY DEF Produce
<1> HIDE DEF todo, m
<1>8. PICK k : k = job'
  OBVIOUS
<1>9. /\ k.at = "pass" /\ k.meta = m /\ k.todo = todo /\ k.images = <<>>
      /\ k.doc = export
  BY <1>2, <1>3, <1>7, <1>8 DEF JobOK, JobOf
<1>10. Ready(k)
  BY <1>5, <1>9 DEF Ready
<1>11. Standing(k, meta')
  BY <1>6, <1>7, <1>9 DEF Standing
<1>12. ASSUME NEW sub \in Produced(export)
       PROVE  Coming(k, body', sub)
  <2>1. CASE sub \in Elements(MaterialsOf(export))
    <3>1. PICK i \in DOMAIN export.materials : MaterialsOf(export)[i] = sub
      BY <1>4, <2>1 DEF Elements
    <3>2. PICK n \in DOMAIN todo : todo[n].op = "material" /\ todo[n].nr = i
      BY <1>5
    <3> QED BY <1>9, <3>1, <3>2 DEF Coming
  <2>2. CASE sub \notin Elements(MaterialsOf(export))
    <3>1. PICK i \in DOMAIN export.images : Embeds(export, i, sub)
      BY <2>2 DEF Produced, Embeds
    <3>2. PICK n \in DOMAIN todo : todo[n].op = "image" /\ todo[n].nr = i
      BY <1>5
    <3>3. i \notin DOMAIN k.images
      BY <1>9
    <3> QED BY <1>9, <3>1, <3>2, <3>3 DEF Coming
  <2> QED BY <2>1, <2>2
<1>13. SidecarsAgree'
  BY <1>3, <1>7, SameAgreed
<1> QED BY <1>7, <1>8, <1>9, <1>10, <1>11, <1>12, <1>13, PassOn DEF Delivers

\* At the end of the pass nothing is to come: everything is made, and the
\* registry it was made from is written now or was already there.
LEMMA WriteRegistryDelivers ==
  ASSUME IInv, DInv, WriteRegistry, MetaKept
  PROVE  DInv'
<1>1. At("pass") /\ job.todo = <<>> /\ UNCHANGED <<export, body>>
  BY DEF WriteRegistry
<1>2. /\ Typed /\ ~Idle /\ JobOK(job) /\ export \in Exports /\ job.meta \in Metas
      /\ Standing(job, meta) /\ SidecarsAgree
      /\ job.clean => job.doc = export /\ Delivers(job, body, meta)
      /\ \A a \in Sources : meta[a] \in Metas \cup {NoFile, Unreadable}
  BY <1>1, SoFar
<1>3. /\ Model \in Sources /\ Model \in Assets /\ Model \notin Generated
      /\ Generated \subseteq Assets
  BY <1>2, Working
<1> DEFINE k == Goto("end")
<1>4. JobOK(k) /\ k.at = "end"
  BY <1>2, NewStep DEF Goto
<1>5. k.clean = job.clean
  BY <1>2 DEF Goto, JobOK, JobOf
<1>6. \/ ~job.changed /\ job' = k /\ UNCHANGED <<meta, faults, settled>>
      \/ WriteMeta(Model, job.meta, k, k)
  BY DEF WriteRegistry
<1> HIDE DEF k
<1>7. job.clean => \A sub \in Produced(export) : Made(job, body, meta, sub)
  BY <1>1, <1>2 DEF Delivers, Coming
<1>8. /\ \A g \in Generated : meta'[g] = meta[g]
      /\ \A a \in Sources : meta'[a] \in Metas \cup {NoFile, Unreadable}
  <2>1. CASE UNCHANGED meta
    BY <1>2, <2>1
  <2>2. CASE WriteMeta(Model, job.meta, k, k)
    <3>1. /\ \A b \in Assets \ {Model} : meta'[b] = meta[b]
          /\ \A b \in Sources : meta'[b] \in Metas \cup {NoFile, Unreadable}
      BY <1>2, <1>3, <2>2, MetaWritten
    <3> QED BY <1>3, <3>1
  <2> QED BY <1>6, <2>1, <2>2
<1>9. ASSUME UNCHANGED <<faults, settled>>, job' = k, job.clean =>
                \A sub \in Produced(export) : Has(job.meta, sub) => meta'[Model] = job.meta
      PROVE  DInv'
  <2>1. SidecarsAgree'
    BY <1>1, <1>2, <1>8, <1>9, StaysAgreed DEF Grown
  <2>2. ASSUME job.clean, NEW sub \in Produced(export)
        PROVE  /\ Exists(body, sub)
               /\ Readable(meta'[sub]) /\ Readable(meta'[Model])
               /\ Has(meta'[Model], sub)
               /\ meta'[sub].guid = RecordOf(meta'[Model], sub).guid
    <3>1. Made(job, body, meta, sub) /\ sub \in Generated
      BY <1>2, <1>7, <2>2, ProducedGenerated
    <3>2. meta'[Model] = job.meta
      BY <1>9, <2>2, <3>1 DEF Made
    <3> QED BY <1>2, <1>8, <3>1, <3>2, MetasReadable DEF Made, Exists
  <2>3. job.clean => Agreed'
    BY <1>1, <2>2 DEF Agreed, Exists
  <2> QED BY <1>4, <1>5, <1>9, <2>1, <2>3 DEF DInv, Passing, At
<1>10. CASE ~job.changed /\ job' = k /\ UNCHANGED <<meta, faults, settled>>
  <2>1. ASSUME NEW sub, Has(job.meta, sub) PROVE meta'[Model] = job.meta
    <3>1. job.meta.records # <<>>
      BY <2>1 DEF Has
    <3> QED BY <1>2, <1>10, <3>1 DEF Standing
  <2> QED BY <1>9, <1>10, <2>1
<1>11. CASE WriteMeta(Model, job.meta, k, k)
  <2>1. \/ /\ UNCHANGED <<faults, settled>> /\ job' = k
           /\ meta' = [meta EXCEPT ![Model] = job.meta]
        \/ ~settled' /\ job' = Failing(k)
    BY <1>2, <1>4, <1>11, MetaOutcome
  <2>2. CASE ~settled' /\ job' = Failing(k)
    <3>1. Failing(k).at = "end" /\ Failing(k).clean = FALSE
      BY <1>4, Failed, FailingRest
    <3> QED BY <2>2, <3>1 DEF DInv, Passing, At, SidecarsAgree
  <2>3. CASE /\ UNCHANGED <<faults, settled>> /\ job' = k
             /\ meta' = [meta EXCEPT ![Model] = job.meta]
    <3>1. meta'[Model] = job.meta
      BY <1>2, <1>3, <2>3 DEF Typed
    <3> QED BY <1>9, <2>3, <3>1
  <2> QED BY <2>1, <2>2, <2>3
<1> QED BY <1>6, <1>10, <1>11

LEMMA ReturnDelivers ==
  ASSUME IInv, DInv, Return
  PROVE  DInv'
<1>1. /\ At("end") /\ job' = NoJob /\ settled' = job.clean
      /\ UNCHANGED <<export, body, meta>>
  BY DEF Return, Finish
<1>2. job.clean => Agreed
  BY <1>1 DEF DInv
<1>3. SidecarsAgree'
  BY <1>1, <1>2 DEF SidecarsAgree, Agreed, Exists, Produced
<1>4. job'.at = "idle"
  BY <1>1 DEF NoJob
<1> QED BY <1>3, <1>4, OffPass

LEMMA InitDelivers == Init => DInv
BY DEF Init, DInv, Passing, At, NoJob, SidecarsAgree

LEMMA OutsideDelivers ==
  ASSUME IInv, DInv, \/ Reexport
                     \/ \E g \in Generated : EditFile(g) \/ DeleteFile(g)
                     \/ Restart
  PROVE  DInv'
<1>1. CASE Restart
  <2>1. job' = NoJob /\ UNCHANGED <<export, body, meta>> /\ settled' => settled
    BY <1>1 DEF Restart
  <2>2. SidecarsAgree'
    BY <1>1, SameAgreed DEF DInv, Restart
  <2>3. job'.at = "idle"
    BY <1>1 DEF Restart, NoJob
  <2> QED BY <2>2, <2>3, OffPass
<1>2. CASE Reexport \/ \E g \in Generated : EditFile(g) \/ DeleteFile(g)
  <2>1. ~settled' /\ UNCHANGED meta
    BY <1>2 DEF Reexport, EditFile, DeleteFile, Edits
  <2>2. SidecarsAgree'
    BY <2>1 DEF SidecarsAgree
  <2>3. CASE Idle
    <3>1. job'.at = "idle"
      BY <1>2, <2>3 DEF Reexport, EditFile, DeleteFile, Idle, Failing, Awaited
    <3> QED BY <2>2, <3>1, OffPass
  <2>4. CASE ~Idle
    <3>1. /\ JobOK(job') /\ job'.at = job.at
          /\ job'.meta = job.meta /\ job'.doc = job.doc /\ job'.todo = job.todo
          /\ job'.changed = job.changed /\ job'.images = job.images /\ job'.clean = FALSE
      BY <1>2, <2>4, Disturbed
    <3>2. CASE At("pass") \/ At("extract")
      <4>1. Ready(job) /\ Standing(job, meta)
        BY <3>2, SoFar
      <4>2. Ready(job)' /\ Standing(job, meta)'
        BY <2>1, <3>1, <4>1 DEF Ready, Standing
      <4> QED BY <2>2, <3>1, <3>2, <4>2 DEF DInv, Passing, At
    <3>3. CASE ~(At("pass") \/ At("extract"))
      BY <2>2, <3>1, <3>3 DEF DInv, Passing, At
    <3> QED BY <3>2, <3>3
  <2> QED BY <2>3, <2>4
<1> QED BY <1>1, <1>2

LEMMA NextDelivers == IInv /\ DInv /\ [Next]_vars => DInv'
<1> SUFFICES ASSUME IInv, DInv, [Next]_vars PROVE DInv'
  OBVIOUS
<1>1. MetaKept
  BY NextInv
<1>2. CASE \E a \in {Model} \cup Pictures : Import(a)
  BY <1>1, <1>2, BeforePassDelivers DEF Sources
<1>3. CASE ImportStep
  BY <1>1, <1>3, BeforePassDelivers, ProduceDelivers, MaterialDelivers,
     WriteMaterialDelivers, WriteSidecarDelivers, ImageKnownDelivers,
     ImageBesideDelivers, ImageEmbeddedDelivers, ExtractDelivers, WriteRegistryDelivers,
     ReturnDelivers DEF ImportStep
<1>4. CASE \/ Reexport
           \/ \E g \in Generated : EditFile(g) \/ DeleteFile(g)
           \/ Restart
  BY <1>4, OutsideDelivers
<1>5. CASE UNCHANGED vars
  <2>1. UNCHANGED <<export, body, meta, job, settled>>
    BY <1>5 DEF vars
  <2> QED BY <2>1 DEF DInv, Passing, At, Ready, Standing, Delivers, Coming, Made, Writes,
                      Embeds, Produced, Agreed, SidecarsAgree, Exists
<1> QED BY <1>2, <1>3, <1>4, <1>5 DEF Next

-----------------------------------------------------------------------------
(* What holds as long as nothing has gone wrong.                            *)

\* The registry that counts: the one in hand, or the one on disk.
Registry == IF At("pass") \/ At("extract") THEN job.meta ELSE meta[Model]

Untorn == \A a \in Assets : meta[a] # Unreadable
LoadHolds == At("load") => Readable(meta[job.asset]) /\ meta[job.asset].guid = job.meta.guid
PoolHolds == \A p \in pool : /\ p[1] \in Sources
                             /\ Readable(meta[p[1]]) /\ meta[p[1]].guid = p[2]
SidecarsFiled ==
    \A sub \in Generated : Readable(meta[sub]) =>
        /\ Readable(Registry) /\ Has(Registry, sub)
        /\ meta[sub].guid = RecordOf(Registry, sub).guid
FilesHold == \A g \in Generated : References(body[g]) \subseteq Identities

\* The images of a pass have the identities of metafiles, but for the one
\* whose sidecar is the next thing to be written.
CacheHolds(j, ids) ==
    \A n \in DOMAIN j.images :
        \/ j.images[n] \in ids \cup {NoGuid}
        \/ /\ j.todo # <<>> /\ Head(j.todo).op = "sidecar"
           /\ RecordOf(j.meta, Head(j.todo).sub).guid = j.images[n]

HInv ==
    faults = 0 =>
        /\ Untorn /\ LoadHolds /\ PoolHolds /\ SidecarsFiled /\ FilesHold
        /\ At("pass") \/ At("extract") => CacheHolds(job, Identities)

\* A step in which nothing goes wrong, of a system where nothing has.
Unharmed == IInv /\ DInv /\ HInv /\ IInv' /\ MetaKept /\ faults = 0 /\ faults' = 0

\* It writes whole metafiles, and a sidecar only where there is none.
Advances ==
    /\ \A g \in Generated : Readable(meta[g]) => meta'[g] = meta[g]
    /\ \A a \in Assets : meta'[a] = meta[a] \/ Readable(meta'[a])

LEMMA Growing ==
  ASSUME Unharmed, Advances
  PROVE  /\ Identities \subseteq Identities'
         /\ \A a \in Assets : Readable(meta[a]) =>
               Readable(meta'[a]) /\ meta'[a].guid = meta[a].guid
<1>1. ASSUME NEW a \in Assets, Readable(meta[a])
      PROVE  Readable(meta'[a]) /\ meta'[a].guid = meta[a].guid
  <2>1. CASE a \in Sources
    <3>1. MetaKept /\ faults' = faults
      BY DEF Unharmed
    <3> QED BY <1>1, <2>1, <3>1 DEF MetaKept, Extends
  <2>2. CASE a \in Generated
    BY <1>1, <2>2 DEF Advances
  <2> QED BY <2>1, <2>2 DEF Assets, Sources
<1>2. Identities \subseteq Identities'
  BY <1>1 DEF Identities
<1> QED BY <1>1, <1>2

\* What a step adds has to hold; the rest still does.
LEMMA HoldsOn ==
  ASSUME Unharmed, Advances,
         \A p \in pool' : \/ p \in pool
                          \/ /\ p[1] \in Sources
                             /\ Readable(meta'[p[1]]) /\ meta'[p[1]].guid = p[2],
         \A g \in Generated : \/ body'[g] = body[g]
                              \/ References(body'[g]) \subseteq Identities',
         LoadHolds', SidecarsFiled',
         job'.at \in {"pass", "extract"} => CacheHolds(job', Identities')
  PROVE  HInv'
<1>1. /\ Identities \subseteq Identities'
      /\ \A a \in Assets : Readable(meta[a]) =>
            Readable(meta'[a]) /\ meta'[a].guid = meta[a].guid
  BY Growing
<1>2. Untorn /\ PoolHolds /\ FilesHold
  BY DEF Unharmed, HInv
<1>3. Untorn'
  BY <1>2 DEF Untorn, Advances, Readable
<1>4. PoolHolds'
  <2>1. Sources \subseteq Assets
    BY DEF Sources, Assets
  <2> QED BY <1>1, <1>2, <2>1 DEF PoolHolds
<1>5. FilesHold'
  <2>1. \A b : References(b)' = References(b)
    BY DEF References
  <2> QED BY <1>1, <1>2, <2>1 DEF FilesHold, References
<1> QED BY <1>3, <1>4, <1>5 DEF HInv, At

LEMMA UnharmedPass ==
  ASSUME Unharmed, At("pass") \/ At("extract")
  PROVE  /\ ~Idle /\ Typed /\ JobOK(job) /\ job.doc \in Exports /\ minted \in Nat
         /\ job.meta \in Metas /\ job.todo \in Seq(TasksOf(job.doc))
         /\ Ready(job) /\ Standing(job, meta) /\ Readable(job.meta)
         /\ Untorn /\ PoolHolds /\ FilesHold /\ CacheHolds(job, Identities)
         /\ \A g \in Generated : Readable(meta[g]) =>
               Has(job.meta, g) /\ meta[g].guid = RecordOf(job.meta, g).guid
<1>1. IInv /\ DInv /\ HInv /\ faults = 0
  BY DEF Unharmed
<1>2. SidecarsFiled /\ Untorn /\ PoolHolds /\ FilesHold /\ CacheHolds(job, Identities)
  BY <1>1 DEF HInv
<1>3. \A g \in Generated : Readable(meta[g]) =>
         Has(job.meta, g) /\ meta[g].guid = RecordOf(job.meta, g).guid
  BY <1>2 DEF SidecarsFiled, Registry
<1> QED BY <1>1, <1>2, <1>3, SoFar, MetasReadable

LEMMA PassHolds ==
  ASSUME Unharmed, At("pass") \/ At("extract"),
         NEW k, job' = k, k.at \in {"pass", "extract"}, k.meta \in Metas,
         Extends(k.meta, job.meta), pool' = pool, Advances,
         \A g \in Generated :
            \/ meta'[g] = meta[g]
            \/ /\ Has(job.meta, g) /\ Readable(meta'[g])
               /\ meta'[g].guid = RecordOf(job.meta, g).guid,
         \A g \in Generated : \/ body'[g] = body[g]
                              \/ References(body'[g]) \subseteq Identities',
         CacheHolds(k, Identities')
  PROVE  HInv'
<1>1. /\ job.meta \in Metas
      /\ \A g \in Generated : Readable(meta[g]) =>
            Has(job.meta, g) /\ meta[g].guid = RecordOf(job.meta, g).guid
  BY UnharmedPass
<1>2. ASSUME NEW g \in Generated, Readable(meta'[g])
      PROVE  Has(k.meta, g) /\ meta'[g].guid = RecordOf(k.meta, g).guid
  <2>1. Has(job.meta, g) /\ meta'[g].guid = RecordOf(job.meta, g).guid
    BY <1>1, <1>2
  <2>2. Has(k.meta, g) /\ RecordOf(k.meta, g) = RecordOf(job.meta, g)
    BY <1>1, <2>1, Found
  <2> QED BY <2>1, <2>2
<1>3. Readable(k.meta)
  BY MetasReadable
<1>4. Registry' = k.meta
  BY DEF Registry, At
<1>5. SidecarsFiled'
  BY <1>2, <1>3, <1>4 DEF SidecarsFiled
<1>6. LoadHolds'
  BY DEF LoadHolds, At
<1> QED BY <1>5, <1>6, HoldsOn

\* Where no metafile is written.
LEMMA SameMetas ==
  ASSUME UNCHANGED meta
  PROVE  Advances /\ Identities' = Identities
BY DEF Advances, Identities

LEMMA MetaSucceeds ==
  ASSUME Typed, faults' = faults, NEW a \in Assets, NEW m, NEW next, NEW otherwise,
         WriteMeta(a, m, next, otherwise)
  PROVE  /\ job' = next /\ meta'[a] = m
         /\ \A b \in Assets \ {a} : meta'[b] = meta[b]
<1>1. faults' # faults + 1 /\ meta = [b \in Assets |-> meta[b]]
  BY DEF Typed
<1>2. \E r \in Completes(meta, a, m) : meta' = r.disk /\ job' = next
  BY <1>1 DEF WriteMeta
<1>3. meta' = [meta EXCEPT ![a] = m] /\ job' = next
  BY <1>2 DEF Completes
<1> QED BY <1>1, <1>3

LEMMA BodySucceeds ==
  ASSUME Typed, faults' = faults, NEW g \in Generated, NEW content, NEW next, NEW otherwise,
         WriteBody(g, content, next, otherwise)
  PROVE  /\ job' = next /\ body'[g] = content
         /\ \A f \in Generated \ {g} : body'[f] = body[f]
<1>1. faults' # faults + 1 /\ body = [f \in Generated |-> body[f]]
  BY DEF Typed
<1>2. \E r \in Completes(body, g, content) : body' = r.disk /\ job' = next
  BY <1>1 DEF WriteBody
<1>3. body' = [body EXCEPT ![g] = content] /\ job' = next
  BY <1>2 DEF Completes
<1> QED BY <1>1, <1>3


\* The cache after a task that is not a sidecar's, with one more image
\* perhaps.
LEMMA CacheOn ==
  ASSUME CacheHolds(job, Identities), job.todo # <<>>, Head(job.todo).op # "sidecar",
         NEW ids, Identities \subseteq ids, NEW k,
         \A n \in DOMAIN k.images :
            \/ n \in DOMAIN job.images /\ k.images[n] = job.images[n]
            \/ k.images[n] \in ids \cup {NoGuid}
            \/ /\ k.todo # <<>> /\ Head(k.todo).op = "sidecar"
               /\ RecordOf(k.meta, Head(k.todo).sub).guid = k.images[n]
  PROVE  CacheHolds(k, ids)
BY DEF CacheHolds

LEMMA MaterialHolds ==
  ASSUME Unharmed, Material
  PROVE  HInv'
<1> DEFINE sub == MaterialsOf(job.doc)[Here.nr]
<1>1. /\ At("pass") /\ job.todo # <<>> /\ Head(job.todo).op = "material"
      /\ Here.nr \in DOMAIN job.doc.materials
  BY OnTask DEF Material, Here, Unharmed
<1>2. /\ JobOK(job) /\ job.doc \in Exports /\ minted \in Nat /\ job.meta \in Metas
      /\ CacheHolds(job, Identities)
  BY <1>1, UnharmedPass
<1>3. sub \in Generated
  BY <1>1, <1>2, Keys
<1>4. PICK tasks : job' = Register(Then(tasks), sub)
  BY DEF Material
<1> DEFINE j == Then(tasks)
<1>5. j = JobOf(j) /\ j.at = "pass" /\ j.meta = job.meta /\ j.images = job.images
  <2>1. PICK todo : j = [job EXCEPT !.at = "pass", !.todo = todo]
    BY DEF Then
  <2> HIDE DEF j
  <2> QED BY <1>1, <1>2, <2>1 DEF JobOK, JobOf, At
<1> HIDE DEF j
<1> DEFINE m == Registered(j.meta, sub, minted + 1)
           changed == j.changed \/ ~Has(j.meta, sub)
<1>6. m \in Metas /\ Extends(m, job.meta)
  BY <1>2, <1>3, <1>5, Appended
<1>7. job' = [j EXCEPT !.meta = m, !.changed = changed]
  BY <1>4 DEF Register, j
<1> HIDE DEF m, changed, sub
<1>8. job'.at = "pass" /\ job'.meta = m /\ job'.images = job.images
  BY <1>5, <1>7 DEF JobOf
<1>9. UNCHANGED <<body, meta, pool>>
  BY DEF Material
<1>10. Advances /\ Identities' = Identities
  BY <1>9, SameMetas
<1>11. CacheHolds(job', Identities')
  BY <1>1, <1>2, <1>8, <1>10, CacheOn
<1> QED BY <1>1, <1>6, <1>8, <1>9, <1>10, <1>11, PassHolds

\* A written material names images of the cache, and the cache names
\* metafiles.
LEMMA WriteMaterialHolds ==
  ASSUME Unharmed, WriteMaterial
  PROVE  HInv'
<1> DEFINE g == MaterialsOf(job.doc)[Here.nr]
           content == Mapped(job.doc.materials[Here.nr])
           k == Then(<<>>)
<1>1. /\ At("pass") /\ job.todo # <<>> /\ Head(job.todo).op = "write" /\ Here.op = "write"
      /\ Here.nr \in DOMAIN job.doc.materials
  BY OnTask DEF WriteMaterial, Here, Unharmed
<1>2. /\ Typed /\ JobOK(job) /\ job.doc \in Exports /\ job.meta \in Metas
      /\ CacheHolds(job, Identities)
  BY <1>1, UnharmedPass
<1>3. g \in Generated
  BY <1>1, <1>2, Keys
<1>4. /\ k.at = "pass" /\ k.meta \in Metas /\ Extends(k.meta, job.meta)
      /\ k.images = job.images
  BY <1>1, DoneRest DEF Unharmed
<1>5. \A n \in Elements(job.doc.materials[Here.nr].images) : n \in DOMAIN job.images
  BY <1>1, HeadReady DEF Unharmed
<1>6. content.textures \subseteq Identities
  BY <1>1, <1>2, <1>5 DEF CacheHolds, Mapped
<1>7. /\ UNCHANGED <<meta, pool>>
      /\ WriteBody(g, content, k, [job EXCEPT !.todo = Tail(Tail(@))])
  BY DEF WriteMaterial
<1>8. Advances /\ Identities' = Identities
  BY <1>7, SameMetas
<1> HIDE DEF g, content, k
<1>9. /\ job' = k /\ body'[g] = content
      /\ \A f \in Generated \ {g} : body'[f] = body[f]
  BY <1>2, <1>3, <1>7, BodySucceeds DEF Unharmed
<1>10. References(body'[g]) \subseteq Identities'
  BY <1>6, <1>8, <1>9 DEF References
<1>11. CacheHolds(k, Identities')
  BY <1>1, <1>2, <1>4, <1>8, CacheOn
<1> QED BY <1>1, <1>4, <1>7, <1>8, <1>9, <1>10, <1>11, PassHolds

\* A sidecar takes the identity of its record: the image that had none is
\* now one of the metafiles.
LEMMA WriteSidecarHolds ==
  ASSUME Unharmed, WriteSidecar
  PROVE  HInv'
<1> DEFINE sub == Here.sub
           guid == RecordOf(job.meta, sub).guid
           k == Then(<<>>)
<1>1. /\ At("pass") /\ job.todo # <<>> /\ Head(job.todo) = Here /\ Here.op = "sidecar"
      /\ sub \in Generated /\ sub \in Assets
  BY OnTask DEF WriteSidecar, Here, Unharmed, Assets
<1>2. /\ Typed /\ JobOK(job) /\ job.meta \in Metas /\ CacheHolds(job, Identities)
      /\ \A g \in Generated : Readable(meta[g]) =>
            Has(job.meta, g) /\ meta[g].guid = RecordOf(job.meta, g).guid
  BY <1>1, UnharmedPass
<1>3. /\ k.at = "pass" /\ k.meta \in Metas /\ Extends(k.meta, job.meta)
      /\ k.images = job.images
  BY <1>1, DoneRest DEF Unharmed
<1>4. Has(job.meta, sub) /\ guid \in Nat
  BY <1>1, <1>2, HeadReady, Found DEF Unharmed
<1>5. /\ UNCHANGED <<body, pool>>
      /\ \/ job' = k /\ UNCHANGED meta /\ Agrees(sub, guid)
         \/ ~Agrees(sub, guid) /\ WriteMeta(sub, Sidecar(guid), k, k)
  BY DEF WriteSidecar
<1> HIDE DEF k, guid
<1>6. Readable(Sidecar(guid)) /\ Sidecar(guid).guid = guid
  BY <1>4, FreshMeta, MetasReadable DEF Sidecar
<1>7. /\ job' = k /\ Readable(meta'[sub]) /\ meta'[sub].guid = guid
      /\ \A a \in Assets \ {sub} : meta'[a] = meta[a]
      /\ Readable(meta[sub]) => meta'[sub] = meta[sub]
  <2>1. CASE job' = k /\ UNCHANGED meta /\ Agrees(sub, guid)
    BY <2>1 DEF Agrees
  <2>2. CASE ~Agrees(sub, guid) /\ WriteMeta(sub, Sidecar(guid), k, k)
    <3>1. job' = k /\ meta'[sub] = Sidecar(guid) /\ \A a \in Assets \ {sub} : meta'[a] = meta[a]
      <4> HIDE DEF sub
      <4> QED BY <1>1, <1>2, <2>2, MetaSucceeds DEF Unharmed
    <3>2. ~Readable(meta[sub])
      BY <1>1, <1>2, <2>2 DEF Agrees, guid
    <3> QED BY <1>6, <3>1, <3>2
  <2> QED BY <1>5, <2>1, <2>2
<1>8. Advances
  BY <1>7 DEF Advances, Assets
<1>9. Identities \subseteq Identities' /\ guid \in Identities'
  BY <1>1, <1>7, <1>8, Growing DEF Identities
<1>10. CacheHolds(k, Identities')
  BY <1>1, <1>2, <1>3, <1>9 DEF CacheHolds, guid
<1>11. \A g \in Generated :
          \/ meta'[g] = meta[g]
          \/ /\ Has(job.meta, g) /\ Readable(meta'[g])
             /\ meta'[g].guid = RecordOf(job.meta, g).guid
  BY <1>4, <1>7 DEF Assets, guid
<1> QED BY <1>1, <1>3, <1>5, <1>7, <1>8, <1>10, <1>11, PassHolds

LEMMA ImageKnownHolds ==
  ASSUME Unharmed, ImageKnown
  PROVE  HInv'
<1> DEFINE j == Then(<<>>)
           c == Caching(j, Here.nr, NoGuid)
<1>1. /\ At("pass") /\ job.todo # <<>> /\ Head(job.todo).op = "image"
  BY OnTask DEF ImageKnown, Here, Unharmed
<1>2. CacheHolds(job, Identities)
  BY <1>1, UnharmedPass
<1>3. /\ JobOK(j) /\ j.at = "pass" /\ j.meta \in Metas /\ Extends(j.meta, job.meta)
      /\ j.images = job.images
  BY <1>1, DoneRest DEF Unharmed
<1>4. /\ UNCHANGED <<body, meta, pool>>
      /\ job' = j \/ job' = c
  BY DEF ImageKnown
<1>5. Advances /\ Identities' = Identities
  BY <1>4, SameMetas
<1> HIDE DEF j
<1>6. /\ c.at = "pass" /\ c.meta = j.meta
      /\ c.images = [n \in DOMAIN j.images \cup {Here.nr} |->
                       IF n = Here.nr THEN NoGuid ELSE j.images[n]]
  BY <1>3, Cached, CachingRest
<1> HIDE DEF c
<1>7. PICK k : k = job'
  OBVIOUS
<1>8. k.at = "pass" /\ k.meta \in Metas /\ Extends(k.meta, job.meta)
  BY <1>3, <1>4, <1>6, <1>7
<1>9. \A n \in DOMAIN k.images :
         \/ n \in DOMAIN job.images /\ k.images[n] = job.images[n]
         \/ k.images[n] \in Identities' \cup {NoGuid}
  BY <1>3, <1>4, <1>6, <1>7
<1>10. CacheHolds(k, Identities')
  BY <1>1, <1>2, <1>5, <1>9, CacheOn
<1> QED BY <1>1, <1>4, <1>5, <1>7, <1>8, <1>10, PassHolds

LEMMA ImageBesideHolds ==
  ASSUME Unharmed, ImageBeside
  PROVE  HInv'
<1> DEFINE j == Then(<<>>)
           p == job.doc.images[Here.nr].holds
           m == Loaded(p)
           k == Caching(j, Here.nr, m.guid)
<1>1. /\ At("pass") /\ job.todo # <<>> /\ Head(job.todo).op = "image"
      /\ p \in Pictures
  BY OnTask DEF ImageBeside, Here, Unharmed
<1>2. Typed /\ ~Idle /\ Untorn /\ CacheHolds(job, Identities)
  BY <1>1, UnharmedPass
<1>3. p \in Sources /\ p \in Assets /\ p \notin Generated
  BY <1>1, <1>2, Working DEF Unharmed
<1>4. /\ JobOK(j) /\ j.at = "pass" /\ j.meta \in Metas /\ Extends(j.meta, job.meta)
      /\ j.images = job.images
  BY <1>1, DoneRest DEF Unharmed
<1>5. m \in Metas /\ (Exists(meta, p) => m = meta[p])
  BY <1>2, <1>3, LoadedMeta DEF Loaded, Minting, Exists, Untorn, Readable
<1>6. /\ UNCHANGED <<body, pool>>
      /\ \/ job' = k /\ UNCHANGED meta /\ Exists(meta, p)
         \/ WriteMeta(p, m, k, k) /\ ~Exists(meta, p)
  BY DEF ImageBeside
<1> HIDE DEF j, m
<1>7. /\ k.at = "pass" /\ k.meta \in Metas /\ Extends(k.meta, job.meta)
      /\ k.images = [n \in DOMAIN job.images \cup {Here.nr} |->
                       IF n = Here.nr THEN m.guid ELSE job.images[n]]
  BY <1>4, Cached, CachingRest
<1> HIDE DEF k
<1>8. /\ job' = k /\ meta'[p] = m
      /\ \A a \in Assets \ {p} : meta'[a] = meta[a]
  <2>1. CASE job' = k /\ UNCHANGED meta /\ Exists(meta, p)
    BY <1>5, <2>1
  <2>2. CASE WriteMeta(p, m, k, k)
    <3> HIDE DEF p
    <3> QED BY <1>2, <1>3, <2>2, MetaSucceeds DEF Unharmed
  <2> QED BY <1>6, <2>1, <2>2
<1>9. Readable(meta'[p])
  BY <1>5, <1>8, MetasReadable
<1>10. Advances /\ \A g \in Generated : meta'[g] = meta[g]
  BY <1>3, <1>8, <1>9 DEF Advances, Assets
<1>11. Identities \subseteq Identities' /\ m.guid \in Identities'
  BY <1>3, <1>8, <1>9, <1>10, Growing DEF Identities
<1>12. \A n \in DOMAIN k.images :
          \/ n \in DOMAIN job.images /\ k.images[n] = job.images[n]
          \/ k.images[n] \in Identities' \cup {NoGuid}
  BY <1>7, <1>11
<1>13. CacheHolds(k, Identities')
  BY <1>1, <1>2, <1>11, <1>12, CacheOn
<1> QED BY <1>1, <1>6, <1>7, <1>8, <1>10, <1>13, PassHolds


\* The one image whose identity is not a metafile's is followed by its
\* sidecar.
LEMMA EmbeddedHolds ==
  ASSUME Unharmed, At("pass") \/ At("extract"), UNCHANGED <<meta, pool>>,
         NEW sub, NEW s, NEW ident, NEW k, Extracted(sub, s, ident, k),
         ident = RecordOf(k.meta, sub).guid, job' = k,
         \A g \in Generated : body'[g] = body[g] \/ References(body'[g]) = {}
  PROVE  HInv'
<1>1. /\ job.todo # <<>> /\ Head(job.todo).op = "image" /\ s.op = "sidecar" /\ s.sub = sub
      /\ k.meta \in Metas /\ Extends(k.meta, job.meta) /\ k.at = "pass"
      /\ k.todo = <<s>> \o Tail(job.todo)
      /\ k.images = [n \in DOMAIN job.images \cup {Here.nr} |->
                      IF n = Here.nr THEN ident ELSE job.images[n]]
  BY DEF Extracted, Here
<1>2. CacheHolds(job, Identities) /\ job.todo \in Seq(TasksOf(job.doc))
  BY UnharmedPass
<1>3. k.todo # <<>> /\ Head(k.todo) = s
  <2>1. Tail(job.todo) \in Seq(TasksOf(job.doc))
    BY <1>1, <1>2, Rest
  <2> DEFINE rest == Tail(job.todo)
  <2> HIDE DEF rest
  <2>2. Head(<<s>> \o rest) = s /\ <<s>> \o rest # <<>>
    BY <2>1 DEF rest
  <2> QED BY <1>1, <2>2 DEF rest
<1>4. Advances /\ Identities' = Identities
  BY SameMetas
<1>5. \A n \in DOMAIN k.images :
         \/ n \in DOMAIN job.images /\ k.images[n] = job.images[n]
         \/ k.images[n] = ident
  BY <1>1
<1>6. CacheHolds(k, Identities')
  BY <1>1, <1>2, <1>3, <1>4, <1>5, CacheOn
<1> QED BY <1>1, <1>4, <1>6, PassHolds

\* The record of an image is made before its file.
LEMMA ImageEmbeddedHolds ==
  ASSUME Unharmed, ImageEmbedded
  PROVE  HInv'
<1> DEFINE sub == ImagesOf(job.doc)[Here.nr]
<1>1. /\ At("pass") /\ job.todo # <<>> /\ Head(job.todo).op = "image"
      /\ Here.nr \in DOMAIN job.doc.images
  BY OnTask DEF ImageEmbedded, Here, Unharmed
<1>2. /\ Typed /\ ~Idle /\ JobOK(job) /\ job.doc \in Exports /\ minted \in Nat
      /\ job.meta \in Metas /\ CacheHolds(job, Identities)
  BY <1>1, UnharmedPass
<1>3. CASE Kept(sub)
  <2>1. PICK k : k = job'
    OBVIOUS
  <2>2. PICK s : Extracted(sub, s, RecordOf(k.meta, sub).guid, k)
    BY <1>3, <2>1, EmbeddedTask DEF Unharmed
  <2>3. UNCHANGED <<body, meta, pool>>
    BY DEF ImageEmbedded, Kept
  <2> HIDE DEF sub
  <2> QED BY <1>1, <2>1, <2>2, <2>3, EmbeddedHolds
<1>4. CASE ~Kept(sub)
  <2> DEFINE g == Goto("extract")
             k == Register(g, sub)
  <2>1. job' = k /\ UNCHANGED <<body, meta, pool>>
    BY <1>4 DEF ImageEmbedded
  <2>2. sub \in Generated
    BY <1>1, <1>2, Keys
  <2> HIDE DEF sub
  <2>3. JobOK(g) /\ g.at = "extract" /\ g.meta = job.meta /\ g.images = job.images
    <3>1. JobOK(g) /\ g.at = "extract" /\ g.meta = job.meta
      BY <1>2, NewStep DEF Goto
    <3>2. g.images = job.images
      BY <1>2 DEF Goto, JobOK, JobOf
    <3> QED BY <3>1, <3>2
  <2> HIDE DEF g
  <2>4. /\ JobOK(k) /\ k.at = "extract" /\ Extends(k.meta, job.meta)
        /\ k.images = job.images
    BY <1>2, <2>2, <2>3, Records, RegisterRest
  <2>5. k.meta \in Metas
    BY <2>4 DEF JobOK
  <2> HIDE DEF k
  <2>6. Advances /\ Identities' = Identities
    BY <2>1, SameMetas
  <2>7. CacheHolds(k, Identities')
    BY <1>1, <1>2, <2>4, <2>6, CacheOn
  <2> QED BY <1>1, <2>1, <2>4, <2>5, <2>6, <2>7, PassHolds
<1> QED BY <1>3, <1>4

LEMMA ExtractHolds ==
  ASSUME Unharmed, Extract
  PROVE  HInv'
<1> DEFINE sub == ImagesOf(job.doc)[Here.nr]
<1>1. PICK s, k, other :
         /\ WriteBody(sub, Pixels, k, other) /\ UNCHANGED <<export, meta, pool>>
         /\ Extracted(sub, s, RecordOf(job.meta, sub).guid, k)
         /\ k.meta = job.meta
  BY ExtractTask DEF Unharmed
<1>2. At("extract") /\ Typed /\ sub \in Generated
  BY <1>1 DEF Extract, Extracted, Unharmed, IInv
<1> HIDE DEF sub
<1>3. /\ job' = k /\ body'[sub] = Pixels
      /\ \A f \in Generated \ {sub} : body'[f] = body[f]
  BY <1>1, <1>2, BodySucceeds DEF Unharmed
<1>4. \A g \in Generated : body'[g] = body[g] \/ References(body'[g]) = {}
  BY <1>3 DEF References
<1> QED BY <1>1, <1>2, <1>3, <1>4, EmbeddedHolds

-----------------------------------------------------------------------------
(* Outside a pass.                                                          *)

\* Registry is the one on disk before and after.
LEMMA FiledOffPass ==
  ASSUME SidecarsFiled, ~(At("pass") \/ At("extract")), job'.at \notin {"pass", "extract"},
         \A g \in Generated : meta'[g] = meta[g],
         Readable(meta[Model]) => meta'[Model] = meta[Model]
  PROVE  SidecarsFiled'
<1>1. Registry = meta[Model] /\ Registry' = meta'[Model]
  BY DEF Registry, At
<1> QED BY <1>1 DEF SidecarsFiled

LEMMA BeforePassHolds ==
  ASSUME Unharmed, \/ \E a \in Sources : Import(a)
                   \/ Persist \/ LoadPicture \/ LoadModel \/ GiveUp
  PROVE  HInv'
<1>1. /\ IInv /\ HInv /\ Typed /\ faults = 0 /\ faults' = 0
      /\ Untorn /\ LoadHolds /\ SidecarsFiled
  BY DEF Unharmed, HInv, IInv
<1>2. CASE \E a \in Sources : Import(a)
  <2>1. PICK a \in Sources : Import(a)
    BY <1>2
  <2>2. /\ Idle /\ UNCHANGED <<body, meta, pool>>
        /\ job'.at = (IF Exists(meta, a) THEN "load" ELSE "persist")
        /\ job'.asset = a /\ job'.meta = Loaded(a)
    BY <2>1 DEF Import
  <2>3. Advances /\ Identities' = Identities
    BY <2>2, SameMetas
  <2>4. LoadHolds'
    <3>1. Exists(meta, a) => Readable(meta[a])
      BY <1>1 DEF Exists, Untorn, Readable, Sources, Assets
    <3> QED BY <2>2, <3>1 DEF LoadHolds, At, Loaded, Minting
  <2>5. SidecarsFiled'
    BY <1>1, <2>2, FiledOffPass DEF Idle, At
  <2> QED BY <2>2, <2>3, <2>4, <2>5, HoldsOn
<1>3. CASE Persist
  <2>1. ~Idle /\ At("persist")
    BY <1>3 DEF Persist, At, Idle
  <2> DEFINE a == job.asset
             k == Goto("load")
  <2>2. /\ JobOK(job) /\ a \in Sources /\ a \in Assets /\ a \notin Generated
        /\ job.meta \in Metas /\ ~Exists(meta, a)
    BY <1>1, <2>1, Working DEF IInv, Knows
  <2>3. k.at = "load" /\ k.asset = a /\ k.meta = job.meta
    BY <2>2, NewStep DEF Goto
  <2>4. WriteMeta(a, job.meta, k, k) /\ UNCHANGED <<body, pool>>
    BY <1>3 DEF Persist
  <2> HIDE DEF k, a
  <2>5. job' = k /\ meta'[a] = job.meta /\ \A b \in Assets \ {a} : meta'[b] = meta[b]
    BY <1>1, <2>2, <2>4, MetaSucceeds
  <2>6. Readable(meta'[a])
    BY <2>2, <2>5, MetasReadable
  <2>7. Advances /\ \A g \in Generated : meta'[g] = meta[g]
    BY <2>2, <2>5, <2>6 DEF Advances, Assets
  <2>8. LoadHolds'
    BY <2>3, <2>5, <2>6 DEF LoadHolds
  <2>9. SidecarsFiled'
    <3>1. Readable(meta[Model]) => meta'[Model] = meta[Model]
      BY <2>2, <2>5 DEF Exists, Readable, Assets
    <3>2. ~(At("pass") \/ At("extract")) /\ job'.at \notin {"pass", "extract"}
      BY <2>1, <2>3, <2>5 DEF At
    <3> QED BY <1>1, <2>7, <3>1, <3>2, FiledOffPass
  <2>10. job'.at \notin {"pass", "extract"}
    BY <2>3, <2>5
  <2> QED BY <2>4, <2>7, <2>8, <2>9, <2>10, HoldsOn
<1>4. CASE LoadPicture \/ LoadModel
  <2>1. /\ ~Idle /\ At("load") /\ UNCHANGED <<body, meta>>
        /\ pool' \subseteq pool \cup {<<job.asset, job.meta.guid>>}
        /\ job' = NoJob \/ job' = Goto("produce")
    BY <1>4 DEF LoadPicture, LoadModel, At, Idle, Finish
  <2>2. JobOK(job) /\ job.asset \in Sources
    BY <1>1, <2>1, Working
  <2>3. job'.at \in {"idle", "produce"}
    BY <2>1, <2>2 DEF NoJob, Goto, JobOK, JobOf
  <2>4. Advances /\ Identities' = Identities
    BY <2>1, SameMetas
  <2>5. LoadHolds'
    BY <2>3 DEF LoadHolds, At
  <2>6. SidecarsFiled'
    BY <1>1, <2>1, <2>3, FiledOffPass DEF At
  <2>7. Readable(meta'[job.asset]) /\ meta'[job.asset].guid = job.meta.guid
    BY <1>1, <2>1 DEF LoadHolds
  <2>8. ASSUME NEW p \in pool', p \notin pool
        PROVE  p[1] \in Sources /\ Readable(meta'[p[1]]) /\ meta'[p[1]].guid = p[2]
    <3>1. p = <<job.asset, job.meta.guid>>
      BY <2>1, <2>8
    <3> QED BY <2>2, <2>7, <3>1
  <2> QED BY <2>1, <2>3, <2>4, <2>5, <2>6, <2>8, HoldsOn
<1>5. CASE GiveUp
  <2>1. /\ ~Idle /\ At("produce") /\ UNCHANGED <<body, meta, pool>> /\ job'.at = "idle"
    BY <1>5 DEF GiveUp, At, Idle, Finish, NoJob
  <2>2. Advances /\ LoadHolds'
    BY <2>1, SameMetas DEF LoadHolds, At
  <2>3. SidecarsFiled'
    BY <1>1, <2>1, FiledOffPass DEF At
  <2> QED BY <2>1, <2>2, <2>3, HoldsOn
<1> QED BY <1>2, <1>3, <1>4, <1>5

\* The registry is taken in hand as it is on disk.
LEMMA ProduceHolds ==
  ASSUME Unharmed, Produce
  PROVE  HInv'
<1>1. ~Idle /\ At("produce") /\ UNCHANGED <<body, meta, pool>>
  BY DEF Produce, At, Idle
<1>2. /\ JobOK(job) /\ Typed /\ Model \in Sources /\ SidecarsFiled
      /\ job.images = <<>>
  BY <1>1, Working DEF Unharmed, HInv, DInv, At
<1> DEFINE m == Loaded(Model)
           todo == Tasks("material", Len(export.materials))
                   \o Tasks("image", Len(export.images))
<1>3. job' = [job EXCEPT !.at = "pass", !.meta = m, !.doc = export, !.todo = todo]
  BY DEF Produce
<1>4. m \in Metas /\ (Readable(meta[Model]) => m = meta[Model])
  BY <1>2, LoadedMeta DEF Loaded, Minting
<1> HIDE DEF m, todo
<1>5. job'.at = "pass" /\ job'.meta = m /\ job'.images = <<>>
  BY <1>2, <1>3 DEF JobOK, JobOf
<1>6. Registry = meta[Model] /\ Registry' = m
  BY <1>1, <1>5 DEF Registry, At
<1>7. Readable(m)
  BY <1>4, MetasReadable
<1>8. SidecarsFiled'
  BY <1>1, <1>2, <1>4, <1>6, <1>7 DEF SidecarsFiled
<1>9. LoadHolds'
  BY <1>5 DEF LoadHolds, At
<1>10. CacheHolds(job', Identities')
  BY <1>5 DEF CacheHolds
<1>11. Advances
  BY <1>1, SameMetas
<1> QED BY <1>1, <1>8, <1>9, <1>10, <1>11, HoldsOn

\* It is written back, unless it is what is there or has nothing in it.
LEMMA WriteRegistryHolds ==
  ASSUME Unharmed, WriteRegistry
  PROVE  HInv'
<1>1. At("pass") /\ UNCHANGED <<body, pool>>
  BY DEF WriteRegistry
<1>2. /\ ~Idle /\ Typed /\ JobOK(job) /\ job.meta \in Metas /\ Standing(job, meta)
      /\ \A g \in Generated : Readable(meta[g]) =>
            Has(job.meta, g) /\ meta[g].guid = RecordOf(job.meta, g).guid
  BY <1>1, UnharmedPass
<1>3. Model \in Assets /\ Model \notin Generated
  BY <1>2, Working DEF Unharmed
<1> DEFINE k == Goto("end")
<1>4. k.at = "end"
  BY <1>2, NewStep DEF Goto
<1>5. \/ ~job.changed /\ job' = k /\ UNCHANGED meta
      \/ WriteMeta(Model, job.meta, k, k)
  BY DEF WriteRegistry
<1> HIDE DEF k
<1>6. Readable(job.meta)
  BY <1>2, MetasReadable
<1>7. /\ job' = k /\ \A a \in Assets \ {Model} : meta'[a] = meta[a]
      /\ meta'[Model] = job.meta \/ (meta'[Model] = meta[Model] /\ job.meta.records = <<>>)
  <2>1. CASE ~job.changed /\ job' = k /\ UNCHANGED meta
    BY <1>2, <2>1 DEF Standing
  <2>2. CASE WriteMeta(Model, job.meta, k, k)
    BY <1>2, <1>3, <2>2, MetaSucceeds DEF Unharmed
  <2> QED BY <1>5, <2>1, <2>2
<1>8. Advances /\ \A g \in Generated : meta'[g] = meta[g]
  BY <1>3, <1>6, <1>7 DEF Advances, Assets
<1>9. Registry' = meta'[Model]
  BY <1>4, <1>7 DEF Registry, At
<1>10. \A g : job.meta.records = <<>> => ~Has(job.meta, g)
  BY DEF Has
<1>11. SidecarsFiled'
  BY <1>2, <1>6, <1>7, <1>8, <1>9, <1>10 DEF SidecarsFiled
<1>12. LoadHolds'
  BY <1>4, <1>7 DEF LoadHolds, At
<1> QED BY <1>1, <1>4, <1>7, <1>8, <1>11, <1>12, HoldsOn

\* Nothing of it depends on the export, and what the author writes names no
\* textures.
LEMMA OutsideHolds ==
  ASSUME Unharmed, \/ Return \/ Reexport
                   \/ \E g \in Generated : EditFile(g) \/ DeleteFile(g)
                   \/ Restart
  PROVE  HInv'
<1>1. IInv /\ HInv /\ Typed /\ LoadHolds /\ SidecarsFiled /\ faults = 0
  BY DEF Unharmed, HInv, IInv
<1>2. /\ UNCHANGED meta /\ pool' \subseteq pool
      /\ \A g \in Generated : body'[g] = body[g] \/ References(body'[g]) = {}
  <2>1. CASE Return \/ Restart \/ Reexport
    BY <2>1 DEF Return, Restart, Reexport
  <2>2. ASSUME NEW g \in Generated, EditFile(g) \/ DeleteFile(g)
        PROVE  /\ UNCHANGED <<meta, pool>>
               /\ \A f \in Generated : body'[f] = body[f] \/ References(body'[f]) = {}
    <3>1. body' = [body EXCEPT ![g] = Authored] \/ body' = [body EXCEPT ![g] = NoFile]
      BY <2>2 DEF EditFile, DeleteFile, Removed
    <3>2. \A f \in Generated : body'[f] = body[f] \/ body'[f] \in {Authored, NoFile}
      BY <1>1, <3>1 DEF Typed
    <3> QED BY <2>2, <3>2 DEF EditFile, DeleteFile, References
  <2> QED BY <2>1, <2>2
<1>3. Advances /\ Identities' = Identities
  BY <1>2, SameMetas
<1>4. CASE job'.at = "idle" /\ ~(At("pass") \/ At("extract"))
  <2>1. SidecarsFiled'
    BY <1>1, <1>2, <1>4, FiledOffPass
  <2>2. LoadHolds'
    BY <1>4 DEF LoadHolds, At
  <2> QED BY <1>2, <1>3, <1>4, <2>1, <2>2, HoldsOn
<1>5. CASE /\ job'.at = job.at /\ job'.asset = job.asset /\ job'.meta = job.meta
           /\ job'.todo = job.todo /\ job'.images = job.images
  <2>1. SidecarsFiled'
    BY <1>1, <1>2, <1>5 DEF SidecarsFiled, Registry, At
  <2>2. LoadHolds'
    BY <1>1, <1>2, <1>5 DEF LoadHolds, At
  <2>3. At("pass") \/ At("extract") => CacheHolds(job', Identities')
    BY <1>1, <1>3, <1>5 DEF HInv, CacheHolds
  <2> QED BY <1>2, <1>3, <1>5, <2>1, <2>2, <2>3, HoldsOn DEF At
<1>6. CASE Return
  BY <1>4, <1>6 DEF Return, Finish, NoJob, At
<1>7. CASE Restart
  BY <1>4, <1>7 DEF Restart, NoJob, At, Idle, Unharmed
<1>8. CASE Reexport \/ \E g \in Generated : EditFile(g) \/ DeleteFile(g)
  <2>1. CASE Idle
    <3>1. job'.at = "idle" /\ ~(At("pass") \/ At("extract"))
      BY <1>8, <2>1 DEF Reexport, EditFile, DeleteFile, Idle, Failing, Awaited, At
    <3> QED BY <1>4, <3>1
  <2>2. CASE ~Idle
    BY <1>1, <1>5, <1>8, <2>2, Disturbed
  <2> QED BY <2>1, <2>2
<1> QED BY <1>6, <1>7, <1>8

\* A fault is not forgotten.
LEMMA FaultsStay ==
  ASSUME Typed, [Next]_vars, faults' = 0
  PROVE  faults = 0
<1>1. faults \in Nat /\ faults + 1 # 0
  BY DEF Typed
<1> QED BY <1>1 DEF Next, vars, ImportStep, Import, Persist, LoadPicture, LoadModel, Produce,
      GiveUp, Material, WriteMaterial, WriteSidecar, ImageKnown, ImageBeside, ImageEmbedded,
      Extract, WriteRegistry, Return, Reexport, EditFile, DeleteFile, Restart, WriteMeta, WriteBody

LEMMA InitHolds == Init => HInv
<1> SUFFICES ASSUME Init PROVE HInv
  OBVIOUS
<1>1. /\ \A a \in Assets : meta[a] = NoFile
      /\ \A g \in Generated : body[g] = NoFile /\ g \in Assets
      /\ pool = {} /\ job.at = "idle"
  BY DEF Init, NoJob, Assets
<1>2. Untorn /\ LoadHolds /\ PoolHolds /\ SidecarsFiled /\ FilesHold
  <2>1. NoFile # Unreadable
    BY AssetImportAssumption
  <2> QED BY <1>1, <2>1 DEF Untorn, LoadHolds, At, PoolHolds, SidecarsFiled, Readable,
                            FilesHold, References
<1> QED BY <1>1, <1>2 DEF HInv, At

LEMMA NextHolds == IInv /\ DInv /\ HInv /\ [Next]_vars => HInv'
<1> SUFFICES ASSUME IInv, DInv, HInv, [Next]_vars, faults' = 0 PROVE HInv'
  BY DEF HInv
<1>1. Unharmed
  <2>1. IInv' /\ MetaKept
    BY NextInv
  <2>2. faults = 0
    BY FaultsStay DEF IInv
  <2> QED BY <2>1, <2>2 DEF Unharmed
<1>2. CASE \E a \in {Model} \cup Pictures : Import(a)
  BY <1>1, <1>2, BeforePassHolds DEF Sources
<1>3. CASE ImportStep
  BY <1>1, <1>3, BeforePassHolds, ProduceHolds, MaterialHolds, WriteMaterialHolds,
     WriteSidecarHolds, ImageKnownHolds, ImageBesideHolds, ImageEmbeddedHolds,
     ExtractHolds, WriteRegistryHolds, OutsideHolds DEF ImportStep
<1>4. CASE \/ Reexport
           \/ \E g \in Generated : EditFile(g) \/ DeleteFile(g)
           \/ Restart
  BY <1>1, <1>4, OutsideHolds
<1>5. CASE UNCHANGED vars
  <2>1. UNCHANGED <<body, meta, pool, job, faults>>
    BY <1>5 DEF vars
  <2> QED BY <2>1 DEF HInv, Untorn, LoadHolds, PoolHolds, SidecarsFiled, FilesHold,
                      CacheHolds, Registry, Identities, References, At
<1> QED BY <1>2, <1>3, <1>4, <1>5 DEF Next


-----------------------------------------------------------------------------
(* The theorems.                                                            *)

\* The author's actions are counted.
Counted == edits \in Nat

LEMMA EditsCounted ==
  /\ Init => Counted
  /\ Counted /\ [Next]_vars => Counted'
<1>1. Init => Counted
  BY DEF Init, Counted
<1>2. Counted /\ [Next]_vars => Counted'
  BY DEF Counted, Next, vars, ImportStep, Import, Persist, LoadPicture, LoadModel, Produce, GiveUp,
     Material, WriteMaterial, WriteSidecar, ImageKnown, ImageBeside, ImageEmbedded, Extract,
     WriteRegistry, Return, Reexport, EditFile, DeleteFile, Edits, Restart
<1> QED BY <1>1, <1>2

\* Through every interleaving of imports with failed writes, crashes, new
\* exports and the author's edits, those between any two steps of an import
\* included, an import leaves alone every generated file that is there, but
\* for one the author put there after the import had found it missing and
\* before it wrote it (writeMaterialAssets and extractImage look before they
\* write).
THEOREM NothingWrittenOver == Spec => ExtractOnce
<1> DEFINE Respects == edits' = edits =>
             \A g \in Generated \ Overtaken : Exists(body, g) => body'[g] = body[g]
<1>1. IInv /\ Counted /\ [Next]_vars => Respects
  BY NextInv DEF BodyKept, Counted
<1>2. IInv /\ Counted /\ [Next]_vars => [Respects]_vars
  BY <1>1
<1>3. IInv /\ [Next]_vars => IInv'
  BY NextInv
<1>4. Init => Counted
  BY EditsCounted
<1>5. Counted /\ [Next]_vars => Counted'
  BY EditsCounted
<1> QED BY <1>2, <1>3, <1>4, <1>5, InitInv, PTL DEF Spec, ExtractOnce

\* What goes on from a registry has it as its first part.
LEMMA FirstPart ==
  ASSUME NEW m \in Metas, NEW l \in Metas, Extends(m, l)
  PROVE  /\ m.guid = l.guid
         /\ \E n \in 0..Len(m.records) : l.records = SubSeq(m.records, 1, n)
<1> DEFINE R == [sub : Generated, guid : Nat]
           s == m.records
           t == l.records
<1>1. s \in Seq(R) /\ t \in Seq(R)
  BY DEF Metas
<1> HIDE DEF R
<1>2. Len(t) \in 0..Len(s) /\ \A i \in 1..Len(t) : s[i] = t[i]
  BY <1>1 DEF Extends
<1> HIDE DEF s, t
<1>3. t = SubSeq(s, 1, Len(t))
  <2>1. /\ SubSeq(s, 1, Len(t)) \in Seq(R) /\ Len(SubSeq(s, 1, Len(t))) = Len(t)
        /\ \A i \in 1..Len(t) : SubSeq(s, 1, Len(t))[i] = s[i]
    BY <1>1, <1>2
  <2> QED BY <1>1, <1>2, <2>1
<1>4. \E n \in 0..Len(s) : t = SubSeq(s, 1, n)
  BY <1>2, <1>3
<1> QED BY <1>4 DEF Extends, s, t

\* Unless a write of a metafile fails, the identity of the model and of a
\* picture, and every record of a sub-asset, stay on disk as they were first
\* written: the registry only grows, whatever the model is exported as
\* (registryGuid, writeAssetMeta).
THEOREM IdentitiesStay == Spec => RegistryPermanent
<1> DEFINE Stays == faults' = faults =>
             \A a \in {Model} \cup Pictures : Readable(meta[a]) =>
                /\ Readable(meta'[a])
                /\ meta'[a].guid = meta[a].guid
                /\ \E n \in 0..Len(meta'[a].records) :
                      meta[a].records = SubSeq(meta'[a].records, 1, n)
<1>1. IInv /\ [Next]_vars => Stays
  <2> SUFFICES ASSUME IInv, [Next]_vars, faults' = faults,
                      NEW a \in Sources, Readable(meta[a])
               PROVE  /\ Readable(meta'[a])
                      /\ meta'[a].guid = meta[a].guid
                      /\ \E n \in 0..Len(meta'[a].records) :
                            meta[a].records = SubSeq(meta'[a].records, 1, n)
    BY DEF Sources
  <2>1. IInv' /\ Readable(meta'[a]) /\ Extends(meta'[a], meta[a])
    BY NextInv DEF MetaKept
  <2>2. meta[a] \in Metas
    BY ReadableMeta DEF IInv
  <2>3. meta'[a] \in Metas
    BY <2>1 DEF IInv, Typed, Readable
  <2> QED BY <2>1, <2>2, <2>3, FirstPart
<1>2. IInv /\ [Next]_vars => [Stays]_vars
  BY <1>1
<1> QED BY <1>2, InitInv, NextInv, PTL DEF Spec, RegistryPermanent

\* After an import whose writes all went through, whatever the project was
\* like before it, every file of the model is there with a sidecar that names
\* the identity the registry on disk has for it (produceEngineAssets;
\* registryGuid, writeSubAssetMeta).
THEOREM SidecarsAlwaysAgree == Spec => []SidecarsAgree
<1>1. DInv => SidecarsAgree
  BY DEF DInv
<1> QED BY <1>1, InitInv, InitDelivers, NextInv, NextDelivers, PTL DEF Spec

\* As long as no write has failed and no import was cut short, and through
\* every re-export, edit and deletion, a generated material names textures by
\* identities of metafiles and the pool holds assets by theirs (imageGuid,
\* registryGuid, AssetPool::store).
THEOREM IdentitiesAlwaysHold == Spec => []IdentitiesHold
<1>1. HInv => IdentitiesHold
  BY DEF HInv, IdentitiesHold, FilesHold, PoolHolds
<1> QED BY <1>1, InitInv, InitDelivers, InitHolds, NextInv, NextDelivers, NextHolds,
           PTL DEF Spec
=============================================================================
