-------------------------------- MODULE Log --------------------------------
(***************************************************************************)
(* The log (engine/src/Log.cpp), called by any thread: categories by name, *)
(* sinks by address, each under a lock of its own, and the built-in sinks  *)
(* under a third.                                                          *)
(*                                                                         *)
(* What is done under the categories' lock is one step: nothing else is    *)
(* called there.  The sinks' lock is held while foreign code runs, so it   *)
(* is kept as the two gates of the library's shared_mutex: a writer claims *)
(* it, which keeps new readers out, and enters once the last reader left.  *)
(* A sink does not log and does not add or remove sinks.                   *)
(***************************************************************************)
EXTENDS Naturals, FiniteSets, Sequences

CONSTANTS
    Threads,
    Names,          \* the categories the program declares
    Unknown,        \* the name of a category that is not there
    Levels,         \* of records and of categories
    Info,           \* the level a category starts with
    Panels,         \* sinks that belong to a client
    Console,        \* the built-in sink for the console
    Files,          \* those for files, one for each that is made (a bound on them)
    Nobody,
    MaxCalls        \* bound: calls made

ASSUME LogAssumption ==
    /\ Levels \subseteq Nat /\ Info \in Levels
    /\ MaxCalls \in Nat
    /\ Nobody \notin Threads \union Panels \union {Console} \union Files /\ Unknown \notin Names
    /\ Panels \intersect ({Console} \union Files) = {}

VARIABLES
    categories,     \* by id: [name, level]; only ever appended to
    handles,        \* the categories constructed: [name, id]
    sinks,          \* in the order they were added
    builtins,       \* those that are the engine's own
    panel,          \* what the client did with each: "out", "in", "gone"
    claimed,        \* who has claimed the sinks' lock for writing, or Nobody
    building,       \* who is in the built-in sinks' lock, or Nobody
    call,           \* the call each thread is in
    calls           \* how many there were

registry == <<categories, handles>>
outlets == <<sinks, builtins, panel, claimed, building>>
vars == <<registry, outlets, call, calls>>

Sinks == Panels \union {Console} \union Files

Elements(s) == {s[i] : i \in DOMAIN s}
Ids(name) == {id \in DOMAIN categories : categories[id].name = name}

NoCall == [op |-> "none"]
In(t, op, at) == call[t].op = op /\ call[t].at = at
Goto(t, at) == call' = [call EXCEPT ![t].at = at]
Return(t) == call' = [call EXCEPT ![t] = NoCall]

Begin(t, c) ==
    /\ call[t] = NoCall /\ calls < MaxCalls
    /\ call' = [call EXCEPT ![t] = c]
    /\ calls' = calls + 1

-----------------------------------------------------------------------------
(* Categories.                                                              *)

DeclareCategory(t, name) ==
    /\ Begin(t, [op |-> "category", at |-> "scan", name |-> name])
    /\ UNCHANGED <<registry, outlets>>

\* logCategoryAt names a category and constructs it anew, whether or not it
\* was there.
CategoryAt(t, id) ==
    /\ Begin(t, [op |-> "category", at |-> "scan",
                 name |-> IF id \in DOMAIN categories THEN categories[id].name ELSE Unknown])
    /\ UNCHANGED <<registry, outlets>>

Known(t) == Ids(call[t].name) # {}
Handle(t) == [name |-> call[t].name,
              id |-> CHOOSE id \in Ids(call[t].name) :
                         \A other \in Ids(call[t].name) : id <= other]

\* The first look, under the shared lock.
Scan(t) ==
    /\ In(t, "category", "scan")
    /\ IF Known(t) THEN handles' = handles \union {Handle(t)} /\ Return(t)
       ELSE Goto(t, "insert") /\ UNCHANGED handles
    /\ UNCHANGED <<categories, outlets, calls>>

\* Mutant: what was found missing is added, without a second look.
Insert_Unchecked(t) ==
    /\ In(t, "category", "insert")
    /\ categories' = Append(categories, [name |-> call[t].name, level |-> Info])
    /\ handles' = handles \union {[name |-> call[t].name, id |-> Len(categories) + 1]}
    /\ Return(t)
    /\ UNCHANGED <<outlets, calls>>

\* The second, under the exclusive lock: another thread may have been here.
Insert(t) ==
    /\ In(t, "category", "insert")
    /\ IF Known(t) THEN handles' = handles \union {Handle(t)} /\ UNCHANGED categories
       ELSE /\ categories' = Append(categories, [name |-> call[t].name, level |-> Info])
            /\ handles' = handles \union {[name |-> call[t].name, id |-> Len(categories) + 1]}
    /\ Return(t)
    /\ UNCHANGED <<outlets, calls>>

SetLevel(t, handle, level) ==
    /\ call[t] = NoCall /\ calls < MaxCalls /\ calls' = calls + 1
    /\ categories' = [categories EXCEPT ![handle.id].level = level]
    /\ UNCHANGED <<handles, outlets, call>>

SetGlobalLevel(t, level) ==
    /\ call[t] = NoCall /\ calls < MaxCalls /\ calls' = calls + 1
    /\ categories' = [id \in DOMAIN categories |-> [categories[id] EXCEPT !.level = level]]
    /\ UNCHANGED <<handles, outlets, call>>

-----------------------------------------------------------------------------
(* The sinks' lock.                                                         *)

\* Who is in it to read.
Readers == {t \in Threads : call[t].op \in {"log", "flush"} /\ call[t].at = "walk"}

MayRead == claimed = Nobody

Claim(t) ==
    /\ claimed = Nobody
    /\ claimed' = t
    /\ UNCHANGED <<sinks, builtins, panel, building>>

\* Mutant: a writer does not wait for those who read.
MayWrite_AtOnce(t) == claimed = t
MayWrite(t) == claimed = t /\ Readers = {}

-----------------------------------------------------------------------------
(* Records.                                                                 *)

\* The macro looks at the level first; then the record is given the name.
Log(t, handle, level) ==
    /\ Begin(t, [op |-> "log", at |-> "filter", handle |-> handle, level |-> level,
                 name |-> Unknown, next |-> 1, inside |-> Nobody, got |-> [s \in Sinks |-> 0], owed |-> {}])
    /\ UNCHANGED <<registry, outlets>>

Filter(t) ==
    /\ In(t, "log", "filter")
    /\ IF call[t].level >= categories[call[t].handle.id].level THEN Goto(t, "name") ELSE Return(t)
    /\ UNCHANGED <<registry, outlets, calls>>

\* From here on the sinks that are registered are owed the record, unless
\* they are removed before it gets to them.
Name(t) ==
    /\ In(t, "log", "name")
    /\ call' = [call EXCEPT ![t].at = "lock", ![t].owed = Elements(sinks),
                            ![t].name = categories[call[t].handle.id].name]
    /\ UNCHANGED <<registry, outlets, calls>>

Flush(t) ==
    /\ Begin(t, [op |-> "flush", at |-> "lock", next |-> 1, inside |-> Nobody])
    /\ UNCHANGED <<registry, outlets>>

Lock(t) ==
    /\ call[t].op \in {"log", "flush"} /\ call[t].at = "lock"
    /\ MayRead
    /\ Goto(t, "walk")
    /\ UNCHANGED <<registry, outlets, calls>>

\* Every sink in turn ...
Enter(t) ==
    /\ t \in Readers /\ call[t].inside = Nobody /\ call[t].next \in DOMAIN sinks
    /\ call' = [call EXCEPT ![t].inside = sinks[call[t].next], ![t].next = @ + 1]
    /\ UNCHANGED <<registry, outlets, calls>>

\* ... is written to or flushed ...
Left(c) ==
    LET left == [c EXCEPT !.inside = Nobody]
    IN  IF c.op = "log" THEN [left EXCEPT !.got[c.inside] = @ + 1] ELSE left

Leave(t) ==
    /\ t \in Readers /\ call[t].inside # Nobody
    /\ call' = [call EXCEPT ![t] = Left(@)]
    /\ UNCHANGED <<registry, outlets, calls>>

\* ... and the lock is left after the last.
Unlock(t) ==
    /\ t \in Readers /\ call[t].inside = Nobody /\ call[t].next \notin DOMAIN sinks
    /\ Return(t)
    /\ UNCHANGED <<registry, outlets, calls>>

-----------------------------------------------------------------------------
(* Sinks that belong to a client: it adds them and removes them, and does   *)
(* not destroy them before a removal has returned.                          *)

Untouched(s) == \A t \in Threads : call[t].op \in {"add", "remove"} => call[t].sink # s

AddSink(t, s) ==
    /\ panel[s] # "gone" /\ Untouched(s)
    /\ Begin(t, [op |-> "add", at |-> "claim", sink |-> s])
    /\ panel' = [panel EXCEPT ![s] = "in"]
    /\ UNCHANGED <<registry, sinks, builtins, claimed, building>>

RemoveSink(t, s) ==
    /\ panel[s] # "gone" /\ Untouched(s)
    /\ Begin(t, [op |-> "remove", at |-> "claim", sink |-> s])
    /\ UNCHANGED <<registry, outlets>>

ClaimToEdit(t) ==
    /\ call[t].op \in {"add", "remove"} /\ call[t].at = "claim"
    /\ Claim(t)
    /\ Goto(t, "edit")
    /\ UNCHANGED <<registry, calls>>

\* Mutant: a sink that is there is added again.
With_Again(s) == Append(sinks, s)
With(s) == IF s \in Elements(sinks) THEN sinks ELSE Append(sinks, s)

\* A sink is there at most once, because With looks.
Place(s) == CHOOSE i \in DOMAIN sinks : sinks[i] = s
Without(s) ==
    IF s \notin Elements(sinks) THEN sinks
    ELSE [i \in 1..Len(sinks) - 1 |-> sinks[IF i < Place(s) THEN i ELSE i + 1]]

Add(t) ==
    /\ In(t, "add", "edit") /\ MayWrite(t)
    /\ sinks' = With(call[t].sink)
    /\ claimed' = Nobody
    /\ Return(t)
    /\ UNCHANGED <<registry, builtins, panel, building, calls>>

\* What is removed is owed nothing by the records that have not got to it.
Remove(t) ==
    /\ In(t, "remove", "edit") /\ MayWrite(t)
    /\ sinks' = Without(call[t].sink)
    /\ claimed' = Nobody
    /\ panel' = [panel EXCEPT ![call[t].sink] = "out"]
    /\ call' = [u \in Threads |->
                   IF u = t THEN NoCall
                   ELSE IF call[u].op # "log" THEN call[u]
                   ELSE [call[u] EXCEPT !.owed = @ \ {call[t].sink}]]
    /\ UNCHANGED <<registry, builtins, building, calls>>

Destroy(s) ==
    /\ panel[s] = "out" /\ Untouched(s)
    /\ panel' = [panel EXCEPT ![s] = "gone"]
    /\ UNCHANGED <<registry, sinks, builtins, claimed, building, call, calls>>

-----------------------------------------------------------------------------
(* Sinks of the engine's own. The console is added once; a file whenever    *)
(* one is asked for and can be opened, though it be open already.           *)

AddConsole(t) ==
    /\ Begin(t, [op |-> "console", at |-> "build", sink |-> Console])
    /\ UNCHANGED <<registry, outlets>>

Fresh(s) == s \notin Elements(builtins) /\ \A t \in Threads : call[t].op = "file" => call[t].sink # s

AddFile(t, s) ==
    /\ Fresh(s)
    /\ Begin(t, [op |-> "file", at |-> "build", sink |-> s])
    /\ UNCHANGED <<registry, outlets>>

\* The file is opened before the lock is taken.
CannotOpen(t) ==
    /\ In(t, "file", "build")
    /\ Return(t)
    /\ UNCHANGED <<registry, outlets, calls>>

\* Only for the console does it look whether there is one.
Build(t) ==
    /\ call[t].op \in {"console", "file"} /\ call[t].at = "build"
    /\ building = Nobody
    /\ IF call[t].op = "console" /\ Console \in Elements(builtins)
       THEN Return(t) /\ UNCHANGED building
       ELSE building' = t /\ Goto(t, "claim")
    /\ UNCHANGED <<registry, sinks, builtins, panel, claimed, calls>>

\* logAddSink, with the other lock held.
ClaimToBuild(t) ==
    /\ call[t].op \in {"console", "file"} /\ call[t].at = "claim"
    /\ Claim(t)
    /\ Goto(t, "edit")
    /\ UNCHANGED <<registry, calls>>

\* Mutant: the lock of the built-in sinks is not given back.
Keep_Locked(t) ==
    /\ call[t].op \in {"console", "file"} /\ call[t].at = "edit" /\ MayWrite(t)
    /\ sinks' = With(call[t].sink) /\ builtins' = Append(builtins, call[t].sink)
    /\ claimed' = Nobody
    /\ Return(t)
    /\ UNCHANGED <<registry, panel, building, calls>>

Keep(t) ==
    /\ call[t].op \in {"console", "file"} /\ call[t].at = "edit" /\ MayWrite(t)
    /\ sinks' = With(call[t].sink) /\ builtins' = Append(builtins, call[t].sink)
    /\ claimed' = Nobody /\ building' = Nobody
    /\ Return(t)
    /\ UNCHANGED <<registry, panel, calls>>

-----------------------------------------------------------------------------

Init ==
    /\ categories = <<>> /\ handles = {}
    /\ sinks = <<>> /\ builtins = <<>>
    /\ panel = [p \in Panels |-> "out"]
    /\ claimed = Nobody /\ building = Nobody
    /\ call = [t \in Threads |-> NoCall] /\ calls = 0

Start(t) ==
    \/ \E name \in Names : DeclareCategory(t, name)
    \/ \E id \in 1..Len(categories) + 1 : CategoryAt(t, id)
    \/ \E handle \in handles, level \in Levels : SetLevel(t, handle, level) \/ Log(t, handle, level)
    \/ \E level \in Levels : SetGlobalLevel(t, level)
    \/ \E s \in Panels : AddSink(t, s) \/ RemoveSink(t, s)
    \/ AddConsole(t) \/ \E s \in Files : AddFile(t, s)
    \/ Flush(t)

Step(t) ==
    \/ Scan(t) \/ Insert(t)
    \/ Filter(t) \/ Name(t) \/ Lock(t) \/ Enter(t) \/ Leave(t) \/ Unlock(t)
    \/ ClaimToEdit(t) \/ Add(t) \/ Remove(t)
    \/ CannotOpen(t) \/ Build(t) \/ ClaimToBuild(t) \/ Keep(t)

\* All calls have returned and no more are made.
Rest == calls = MaxCalls /\ (\A t \in Threads : call[t] = NoCall) /\ UNCHANGED vars

Next == (\E t \in Threads : Start(t) \/ Step(t)) \/ (\E s \in Panels : Destroy(s)) \/ Rest

Spec == Init /\ [][Next]_vars

\* A thread that is in a call goes on when it can.
FairSpec == Spec /\ \A t \in Threads : WF_vars(Step(t))

-----------------------------------------------------------------------------
(* Correctness.                                                             *)

\* One channel per name, whoever declares it first and however many do so at
\* once: a handle is an id that stays that of its name.
OneChannelPerName ==
    /\ \A i, j \in DOMAIN categories : categories[i].name = categories[j].name => i = j
    /\ \A h \in handles : h.id \in DOMAIN categories /\ categories[h.id].name = h.name

\* No thread is in a sink that is destroyed: a removal does not return
\* while a record is being written to what it removes.
CalledSinksLive ==
    \A t \in Readers, s \in Panels : call[t].inside = s => panel[s] # "gone"

\* A record that passed the filter is given to every sink that was there
\* from then on, once, under the name of its category.
DeliveredOnce ==
    [][\A t \in Threads :
          (call[t].op = "log" /\ call[t].at = "walk" /\ call'[t] = NoCall) =>
              /\ \A s \in Sinks : call[t].got[s] <= 1
              /\ \A s \in call[t].owed : call[t].got[s] = 1
              /\ call[t].name = call[t].handle.name]_vars

\* Every call returns: the three locks are always taken in one order, and a
\* writer that has claimed its lock is let in.
CallsReturn == \A t \in Threads : call[t] # NoCall ~> call[t] = NoCall
=============================================================================
