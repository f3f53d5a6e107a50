---------------------------- MODULE Log_proofs ----------------------------
(***************************************************************************)
(* That there is one channel for a name, that no thread is in a sink that  *)
(* is destroyed, and that a record is delivered once, for any number of    *)
(* threads, names and sinks.                                               *)
(*                                                                         *)
(* The three follow from what is true of each call by itself: how far its  *)
(* walk has got in the sinks, which do not change while anyone walks.      *)
(***************************************************************************)
EXTENDS Log, TLAPS

AllNames == Names \union {Unknown}
Handles == [name : AllNames, id : Nat]

CategoryCalls == [op : {"category"}, at : {"scan", "insert"}, name : AllNames]
LogCalls ==
    [op : {"log"}, at : {"filter", "name", "lock", "walk"}, handle : Handles, level : Levels,
     name : AllNames, next : Nat \ {0}, inside : Sinks \union {Nobody},
     got : [Sinks -> Nat], owed : SUBSET Sinks]
FlushCalls ==
    [op : {"flush"}, at : {"lock", "walk"}, next : Nat \ {0}, inside : Sinks \union {Nobody}]
EditCalls == [op : {"add", "remove"}, at : {"claim", "edit"}, sink : Panels]
BuiltinCalls ==
    [op : {"console", "file"}, at : {"build", "claim", "edit"}, sink : {Console} \union Files]
Calls == {NoCall} \union CategoryCalls \union LogCalls \union FlushCalls
                  \union EditCalls \union BuiltinCalls

TypeOK ==
    /\ categories \in Seq([name : AllNames, level : Levels])
    /\ handles \subseteq Handles
    /\ sinks \in Seq(Sinks)
    /\ panel \in [Panels -> {"out", "in", "gone"}]
    /\ call \in [Threads -> Calls]

-----------------------------------------------------------------------------
(* The inductive invariant.                                                 *)

NoSinkTwice == \A i, j \in DOMAIN sinks : sinks[i] = sinks[j] => i = j

\* A client's sink that is registered is one it has added, and no two calls
\* are about one sink.
ClientsKeepTheirWord ==
    /\ \A i \in DOMAIN sinks : sinks[i] \in Panels => panel[sinks[i]] = "in"
    /\ \A t \in Threads : call[t].op = "add" => panel[call[t].sink] = "in"
    /\ \A t, u \in Threads :
          (/\ call[t].op \in {"add", "remove"} /\ call[u].op \in {"add", "remove"}
           /\ call[t].sink = call[u].sink) => t = u

\* Where a call is among the sinks: before the first until it has the lock,
\* then just after the one it is in.
Placed(c) ==
    c.op \in {"log", "flush"} =>
        /\ c.at # "walk" => c.next = 1 /\ c.inside = Nobody
        /\ c.next \in 1..Len(sinks) + 1
        /\ c.inside # Nobody => c.next > 1 /\ c.inside = sinks[c.next - 1]

\* A record has been given to those sinks it has left, once.
Counted(c) ==
    c.op = "log" =>
        \A s \in Sinks :
            c.got[s] = IF s # c.inside /\ \E i \in 1..c.next - 1 : sinks[i] = s THEN 1 ELSE 0

\* It has the name of its category, and is owed to sinks that are there.
Named(c) ==
    c.op = "log" =>
        /\ c.handle \in handles
        /\ c.at \in {"lock", "walk"} =>
              c.name = c.handle.name /\ \A s \in c.owed : \E i \in DOMAIN sinks : sinks[i] = s

CallsOK == \A t \in Threads : Placed(call[t]) /\ Counted(call[t]) /\ Named(call[t])

IInv == TypeOK /\ OneChannelPerName /\ NoSinkTwice /\ ClientsKeepTheirWord /\ CallsOK

-----------------------------------------------------------------------------
(* What a call is tells which record it is.                                 *)

LEMMA CallKinds ==
  ASSUME NEW c \in Calls
  PROVE  /\ c.op = "category" => c \in CategoryCalls
         /\ c.op = "log" => c \in LogCalls
         /\ c.op = "flush" => c \in FlushCalls
         /\ c.op \in {"add", "remove"} => c \in EditCalls
         /\ c.op \in {"console", "file"} => c \in BuiltinCalls
BY DEF Calls, CategoryCalls, LogCalls, FlushCalls, EditCalls, BuiltinCalls, NoCall

LEMMA CallType == IInv => \A t \in Threads : call[t] \in Calls
BY DEF IInv, TypeOK

LEMMA InitInv == Init => IInv
<1> SUFFICES ASSUME Init PROVE IInv
  OBVIOUS
<1>1. TypeOK
  BY DEF Init, TypeOK, Calls
<1>2. OneChannelPerName /\ NoSinkTwice
  BY DEF Init, OneChannelPerName, NoSinkTwice
<1>3. ClientsKeepTheirWord /\ CallsOK
  BY DEF Init, ClientsKeepTheirWord, CallsOK, Placed, Counted, Named, NoCall
<1> QED BY <1>1, <1>2, <1>3 DEF IInv

-----------------------------------------------------------------------------
(* Frames.                                                                  *)

\* One thread goes on in its call, or enters or leaves one, and the sinks are
\* as they were.
LEMMA OneCall ==
  ASSUME IInv, NEW t \in Threads, NEW c \in Calls,
         call' = [call EXCEPT ![t] = c],
         UNCHANGED <<sinks, panel>>, handles \subseteq handles',
         Placed(c), Counted(c), Named(c),
         c.op \in {"add", "remove"} => call[t].op = c.op /\ call[t].sink = c.sink
  PROVE  /\ call' \in [Threads -> Calls]
         /\ NoSinkTwice' /\ ClientsKeepTheirWord' /\ CallsOK'
<1>1. call \in [Threads -> Calls]
  BY DEF IInv, TypeOK
<1>2. call' \in [Threads -> Calls] /\ call'[t] = c /\ \A u \in Threads \ {t} : call'[u] = call[u]
  BY <1>1
<1>3. NoSinkTwice'
  BY DEF IInv, NoSinkTwice
<1>4. ClientsKeepTheirWord'
  <2>1. \A u \in Threads : call'[u].op \in {"add", "remove"} =>
            call[u].op = call'[u].op /\ call[u].sink = call'[u].sink
    BY <1>2
  <2> QED BY <2>1 DEF IInv, ClientsKeepTheirWord
<1>5. CallsOK'
  <2> SUFFICES ASSUME NEW u \in Threads
               PROVE  Placed(call[u])' /\ Counted(call[u])' /\ Named(call[u])'
    BY DEF CallsOK
  <2>1. CASE u = t
    BY <1>2, <2>1 DEF Placed, Counted, Named
  <2>2. CASE u # t
    <3>1. Placed(call[u]) /\ Counted(call[u]) /\ Named(call[u])
      BY DEF IInv, CallsOK
    <3> QED BY <1>2, <2>2, <3>1 DEF Placed, Counted, Named
  <2> QED BY <2>1, <2>2
<1> QED BY <1>2, <1>3, <1>4, <1>5

\* Of a call that is in none of the sinks nothing is asked.
LEMMA Elsewhere ==
  ASSUME NEW c, c.op \notin {"log", "flush"}
  PROVE  Placed(c) /\ Counted(c) /\ Named(c)
BY DEF Placed, Counted, Named

LEMMA SameRegistry ==
  ASSUME IInv, UNCHANGED registry
  PROVE  /\ categories' \in Seq([name : AllNames, level : Levels])
         /\ handles' \subseteq Handles /\ handles \subseteq handles'
         /\ OneChannelPerName'
BY DEF IInv, TypeOK, registry, OneChannelPerName

LEMMA SameSinks ==
  ASSUME IInv, UNCHANGED <<sinks, panel>>
  PROVE  sinks' \in Seq(Sinks) /\ panel' \in [Panels -> {"out", "in", "gone"}]
BY DEF IInv, TypeOK

-----------------------------------------------------------------------------
(* Categories.                                                              *)

LEMMA DeclareInv ==
  ASSUME IInv, NEW t \in Threads, NEW name \in AllNames,
         Begin(t, [op |-> "category", at |-> "scan", name |-> name]),
         UNCHANGED <<registry, outlets>>
  PROVE  IInv'
<1> DEFINE c == [op |-> "category", at |-> "scan", name |-> name]
<1>1. c \in Calls /\ c.op = "category"
  BY DEF Calls, CategoryCalls
<1>2. call' = [call EXCEPT ![t] = c] /\ UNCHANGED <<sinks, panel>>
  BY DEF Begin, outlets
<1> HIDE DEF c
<1> QED BY <1>1, <1>2, OneCall, Elsewhere, SameRegistry, SameSinks DEF IInv, TypeOK

LEMMA HandleSound ==
  ASSUME IInv, NEW t \in Threads, call[t] \in CategoryCalls, Known(t)
  PROVE  /\ Handle(t) \in Handles /\ Handle(t).name = call[t].name
         /\ Handle(t).id \in DOMAIN categories
         /\ categories[Handle(t).id].name = call[t].name
<1> DEFINE P(id) == \A other \in Ids(call[t].name) : id <= other
<1>1. PICK i \in DOMAIN categories : i \in Ids(call[t].name)
  BY DEF Known, Ids
<1>2. DOMAIN categories \subseteq Nat
  BY DEF IInv, TypeOK
<1>3. \A other \in Ids(call[t].name) : other = i
  BY <1>1 DEF Ids, IInv, OneChannelPerName
<1>4. \E id \in Ids(call[t].name) : P(id)
  BY <1>1, <1>2, <1>3
<1>5. (CHOOSE id \in Ids(call[t].name) : P(id)) \in Ids(call[t].name)
  BY <1>4
<1>6. Handle(t) = [name |-> call[t].name, id |-> CHOOSE id \in Ids(call[t].name) : P(id)]
  BY DEF Handle
<1> HIDE DEF P
<1>7. Handle(t).name = call[t].name /\ Handle(t).id \in Ids(call[t].name)
  BY <1>5, <1>6
<1>8. Handle(t) \in Handles
  BY <1>2, <1>5, <1>6 DEF Handles, Ids, CategoryCalls
<1> QED BY <1>7, <1>8 DEF Ids

\* A handle of a category that is there is one more.
LEMMA OneMore ==
  ASSUME IInv, UNCHANGED categories, NEW h \in Handles,
         h.id \in DOMAIN categories, categories[h.id].name = h.name,
         handles' = handles \union {h}
  PROVE  /\ categories' \in Seq([name : AllNames, level : Levels])
         /\ handles' \subseteq Handles /\ handles \subseteq handles'
         /\ OneChannelPerName'
BY DEF IInv, TypeOK, OneChannelPerName

LEMMA Returned ==
  ASSUME IInv, NEW t \in Threads, Return(t), UNCHANGED <<sinks, panel>>,
         handles \subseteq handles'
  PROVE  /\ call' \in [Threads -> Calls]
         /\ NoSinkTwice' /\ ClientsKeepTheirWord' /\ CallsOK'
<1>1. NoCall \in Calls /\ NoCall.op = "none"
  BY DEF Calls, NoCall
<1>2. Placed(NoCall) /\ Counted(NoCall) /\ Named(NoCall)
  BY <1>1, Elsewhere
<1> QED BY <1>1, <1>2, OneCall DEF Return

LEMMA ScanInv ==
  ASSUME IInv, NEW t \in Threads, Scan(t)
  PROVE  IInv'
<1>1. call[t] \in CategoryCalls /\ UNCHANGED <<sinks, panel, categories>>
  BY CallKinds, CallType DEF Scan, In, outlets
<1>2. CASE Known(t)
  <2>1. handles' = handles \union {Handle(t)} /\ Return(t)
    BY <1>2 DEF Scan
  <2>2. /\ Handle(t) \in Handles /\ Handle(t).id \in DOMAIN categories
        /\ categories[Handle(t).id].name = Handle(t).name
    BY <1>1, <1>2, HandleSound
  <2>3. /\ categories' \in Seq([name : AllNames, level : Levels])
        /\ handles' \subseteq Handles /\ handles \subseteq handles'
        /\ OneChannelPerName'
    BY <1>1, <2>1, <2>2, OneMore
  <2> QED BY <1>1, <2>1, <2>3, Returned, SameSinks DEF IInv, TypeOK
<1>3. CASE ~Known(t)
  <2> DEFINE c == [call[t] EXCEPT !.at = "insert"]
  <2>1. UNCHANGED registry /\ call' = [call EXCEPT ![t] = c]
    BY <1>1, <1>3 DEF Scan, Goto, registry
  <2>2. c \in Calls /\ c.op = "category"
    BY <1>1 DEF Calls, CategoryCalls
  <2> HIDE DEF c
  <2> QED BY <1>1, <2>1, <2>2, OneCall, Elsewhere, SameRegistry, SameSinks DEF IInv, TypeOK
<1> QED BY <1>2, <1>3

LEMMA InsertInv ==
  ASSUME IInv, NEW t \in Threads, Insert(t)
  PROVE  IInv'
<1>1. call[t] \in CategoryCalls /\ UNCHANGED <<sinks, panel>> /\ Return(t)
  BY CallKinds, CallType DEF Insert, In, outlets
<1>2. CASE Known(t)
  <2>1. handles' = handles \union {Handle(t)} /\ UNCHANGED categories
    BY <1>2 DEF Insert
  <2>2. /\ Handle(t) \in Handles /\ Handle(t).id \in DOMAIN categories
        /\ categories[Handle(t).id].name = Handle(t).name
    BY <1>1, <1>2, HandleSound
  <2>3. /\ categories' \in Seq([name : AllNames, level : Levels])
        /\ handles' \subseteq Handles /\ handles \subseteq handles'
        /\ OneChannelPerName'
    BY <2>1, <2>2, OneMore
  <2> QED BY <1>1, <2>3, Returned, SameSinks DEF IInv, TypeOK
<1>3. CASE ~Known(t)
  <2> DEFINE new == [name |-> call[t].name, level |-> Info]
             h == [name |-> call[t].name, id |-> Len(categories) + 1]
  <2>1. categories' = Append(categories, new) /\ handles' = handles \union {h}
    BY <1>3 DEF Insert
  <2>2. /\ categories \in Seq([name : AllNames, level : Levels])
        /\ new \in [name : AllNames, level : Levels] /\ new.name = call[t].name
        /\ h \in Handles /\ h.name = call[t].name /\ h.id = Len(categories) + 1
    BY <1>1, LogAssumption DEF IInv, TypeOK, CategoryCalls, Handles
  <2> HIDE DEF new, h
  <2>3. /\ categories' \in Seq([name : AllNames, level : Levels])
        /\ DOMAIN categories = 1..Len(categories)
        /\ DOMAIN categories' = 1..Len(categories) + 1
        /\ \A i \in DOMAIN categories : categories'[i] = categories[i]
        /\ categories'[Len(categories) + 1] = new
    BY <2>1, <2>2
  <2>4. \A i \in DOMAIN categories : categories[i].name # call[t].name
    BY <1>3 DEF Known, Ids
  <2>5. \A i \in DOMAIN categories' :
            \/ i \in DOMAIN categories /\ categories'[i] = categories[i]
            \/ i = Len(categories) + 1 /\ categories'[i] = new
    BY <2>2, <2>3
  <2>6. OneChannelPerName'
    <3>1. \A i, j \in DOMAIN categories' :
              categories'[i].name = categories'[j].name => i = j
      BY <2>2, <2>4, <2>5 DEF IInv, OneChannelPerName
    <3>2. \A g \in handles' : g.id \in DOMAIN categories' /\ categories'[g.id].name = g.name
      <4>1. \A g \in handles : g.id \in DOMAIN categories /\ categories[g.id].name = g.name
        BY DEF IInv, OneChannelPerName
      <4>2. h.id \in DOMAIN categories' /\ categories'[h.id].name = h.name
        BY <2>2, <2>3
      <4>3. \A g \in handles : g.id \in DOMAIN categories' /\ categories'[g.id].name = g.name
        BY <2>2, <2>3, <4>1
      <4> QED BY <2>1, <4>2, <4>3
    <3> QED BY <3>1, <3>2 DEF OneChannelPerName
  <2>7. handles' \subseteq Handles /\ handles \subseteq handles'
    BY <2>1, <2>2 DEF IInv, TypeOK
  <2> QED BY <1>1, <2>3, <2>6, <2>7, Returned, SameSinks DEF IInv, TypeOK
<1> QED BY <1>2, <1>3

\* A level is set: the names stay.
LEMMA LevelsInv ==
  ASSUME IInv, UNCHANGED <<handles, sinks, panel, call>>,
         categories' \in Seq([name : AllNames, level : Levels]),
         DOMAIN categories' = DOMAIN categories,
         \A i \in DOMAIN categories : categories'[i].name = categories[i].name
  PROVE  IInv'
<1>1. TypeOK' /\ OneChannelPerName' /\ NoSinkTwice' /\ ClientsKeepTheirWord'
  BY DEF IInv, TypeOK, OneChannelPerName, NoSinkTwice, ClientsKeepTheirWord
<1>2. CallsOK'
  <2> SUFFICES ASSUME NEW u \in Threads
               PROVE  Placed(call[u])' /\ Counted(call[u])' /\ Named(call[u])'
    BY DEF CallsOK
  <2>1. Placed(call[u]) /\ Counted(call[u]) /\ Named(call[u])
    BY DEF IInv, CallsOK
  <2> QED BY <2>1 DEF Placed, Counted, Named
<1> QED BY <1>1, <1>2 DEF IInv

LEMMA SeqMember ==
  ASSUME NEW T, NEW seq \in Seq(T), NEW i \in DOMAIN seq
  PROVE  seq[i] \in T
OBVIOUS

LEMMA Levelled ==
  ASSUME NEW r \in [name : AllNames, level : Levels], NEW level \in Levels
  PROVE  /\ [r EXCEPT !.level = level] \in [name : AllNames, level : Levels]
         /\ [r EXCEPT !.level = level].name = r.name
OBVIOUS

LEMMA SetLevelInv ==
  ASSUME IInv, NEW t \in Threads, NEW h \in handles, NEW level \in Levels, SetLevel(t, h, level)
  PROVE  IInv'
<1>1. /\ categories' = [categories EXCEPT ![h.id].level = level]
      /\ UNCHANGED <<handles, sinks, panel, call>>
  BY DEF SetLevel, outlets
<1>2. h.id \in DOMAIN categories /\ categories \in Seq([name : AllNames, level : Levels])
  BY DEF IInv, TypeOK, OneChannelPerName
<1>3. /\ [categories[h.id] EXCEPT !.level = level] \in [name : AllNames, level : Levels]
      /\ [categories[h.id] EXCEPT !.level = level].name = categories[h.id].name
  <2>1. categories[h.id] \in [name : AllNames, level : Levels]
    BY <1>2, SeqMember
  <2> QED BY <2>1, Levelled
<1>4. categories' \in Seq([name : AllNames, level : Levels])
  BY <1>1, <1>2, <1>3
<1>5. DOMAIN categories' = DOMAIN categories
  BY <1>1
<1>6. \A i \in DOMAIN categories : categories'[i].name = categories[i].name
  BY <1>1, <1>2, <1>3
<1> QED BY <1>1, <1>4, <1>5, <1>6, LevelsInv

LEMMA SetGlobalLevelInv ==
  ASSUME IInv, NEW t \in Threads, NEW level \in Levels, SetGlobalLevel(t, level)
  PROVE  IInv'
<1> DEFINE R == [name : AllNames, level : Levels]
<1>1. /\ categories' = [i \in DOMAIN categories |-> [categories[i] EXCEPT !.level = level]]
      /\ UNCHANGED <<handles, sinks, panel, call>>
  BY DEF SetGlobalLevel, outlets
<1>2. categories \in Seq(R) /\ DOMAIN categories = 1..Len(categories) /\ Len(categories) \in Nat
  BY DEF IInv, TypeOK
<1>3. \A i \in DOMAIN categories : categories[i] \in R
  BY <1>2, SeqMember
<1>4. categories' \in [1..Len(categories) -> R]
  <2>1. \A i \in DOMAIN categories : [categories[i] EXCEPT !.level = level] \in R
    BY <1>3, Levelled
  <2> HIDE DEF R
  <2> QED BY <1>1, <1>2, <2>1
<1>5. ASSUME NEW T, NEW n \in Nat, NEW f \in [1..n -> T] PROVE f \in Seq(T)
  OBVIOUS
<1>6. categories' \in Seq(R) /\ DOMAIN categories' = DOMAIN categories
  BY <1>1, <1>2, <1>4, <1>5
<1>7. \A i \in DOMAIN categories : categories'[i].name = categories[i].name
  BY <1>1, <1>3
<1> QED BY <1>1, <1>6, <1>7, LevelsInv

-----------------------------------------------------------------------------
(* Records.                                                                 *)

\* One thread goes on, the categories and the sinks are as they were.
LEMMA GoesOn ==
  ASSUME IInv, NEW t \in Threads, NEW c \in Calls,
         call' = [call EXCEPT ![t] = c],
         UNCHANGED <<registry, sinks, panel>>,
         Placed(c), Counted(c), Named(c),
         c.op \in {"add", "remove"} => call[t].op = c.op /\ call[t].sink = c.sink
  PROVE  IInv'
BY OneCall, SameRegistry, SameSinks DEF IInv, TypeOK

LEMMA LogInv ==
  ASSUME IInv, NEW t \in Threads, NEW h \in handles, NEW level \in Levels, Log(t, h, level)
  PROVE  IInv'
<1> DEFINE c == [op |-> "log", at |-> "filter", handle |-> h, level |-> level,
                 name |-> Unknown, next |-> 1, inside |-> Nobody,
                 got |-> [s \in Sinks |-> 0], owed |-> {}]
<1>1. call' = [call EXCEPT ![t] = c] /\ UNCHANGED <<registry, sinks, panel>>
  BY DEF Log, Begin, outlets
<1>2. c \in LogCalls
  BY DEF LogCalls, IInv, TypeOK, AllNames
<1>3. Placed(c) /\ Counted(c) /\ Named(c)
  <2>1. sinks \in Seq(Sinks)
    BY DEF IInv, TypeOK
  <2>2. Placed(c)
    BY <2>1 DEF Placed
  <2>3. Counted(c)
    BY DEF Counted
  <2>4. Named(c)
    BY DEF Named
  <2> QED BY <2>2, <2>3, <2>4
<1>4. c \in Calls /\ c.op = "log"
  BY <1>2 DEF Calls
<1> HIDE DEF c
<1> QED BY <1>1, <1>3, <1>4, GoesOn

LEMMA FilterInv ==
  ASSUME IInv, NEW t \in Threads, Filter(t)
  PROVE  IInv'
<1>1. call[t] \in LogCalls /\ call[t].at = "filter" /\ UNCHANGED <<registry, sinks, panel>>
  BY CallKinds, CallType DEF Filter, In, outlets
<1>2. CASE Return(t)
  BY <1>1, <1>2, Returned, SameRegistry, SameSinks DEF IInv, TypeOK
<1>3. CASE Goto(t, "name")
  <2> DEFINE c == [call[t] EXCEPT !.at = "name"]
  <2>1. call' = [call EXCEPT ![t] = c]
    BY <1>3 DEF Goto
  <2>2. PICK r \in LogCalls : r = call[t]
    BY <1>1
  <2>3. /\ c \in LogCalls /\ c.op = "log" /\ c.at = "name" /\ c.handle = call[t].handle
        /\ c.next = call[t].next /\ c.inside = call[t].inside /\ c.got = call[t].got
    BY <2>2 DEF LogCalls
  <2>4. Placed(call[t]) /\ Counted(call[t]) /\ Named(call[t]) /\ call[t].op = "log"
    BY <1>1 DEF IInv, CallsOK, LogCalls
  <2> HIDE DEF c
  <2>5. Placed(c) /\ Counted(c) /\ Named(c)
    BY <1>1, <2>3, <2>4 DEF Placed, Counted, Named
  <2>6. c \in Calls
    BY <2>3 DEF Calls
  <2> QED BY <1>1, <2>1, <2>3, <2>5, <2>6, GoesOn
<1> QED BY <1>2, <1>3 DEF Filter

LEMMA NameInv ==
  ASSUME IInv, NEW t \in Threads, Name(t)
  PROVE  IInv'
<1>1. call[t] \in LogCalls /\ call[t].at = "name" /\ UNCHANGED <<registry, sinks, panel>>
  BY CallKinds, CallType DEF Name, In, outlets
<1> DEFINE owed == Elements(sinks)
           name == categories[call[t].handle.id].name
           c == [call[t] EXCEPT !.at = "lock", !.owed = owed, !.name = name]
<1>2. call' = [call EXCEPT ![t] = c]
  BY DEF Name
<1>3. Placed(call[t]) /\ Counted(call[t]) /\ Named(call[t]) /\ call[t].op = "log"
  BY <1>1 DEF IInv, CallsOK, LogCalls
<1>4. name = call[t].handle.name /\ call[t].handle \in handles
  BY <1>3 DEF Named, IInv, OneChannelPerName
<1>5. name \in AllNames
  BY <1>4 DEF IInv, TypeOK, Handles
<1>6. owed \in SUBSET Sinks /\ \A s \in owed : \E i \in DOMAIN sinks : sinks[i] = s
  BY DEF IInv, TypeOK, Elements
<1> HIDE DEF owed, name
<1>7. PICK r \in LogCalls : r = call[t]
  BY <1>1
<1>8. /\ c \in LogCalls /\ c.op = "log" /\ c.at = "lock" /\ c.handle = call[t].handle
      /\ c.next = call[t].next /\ c.inside = call[t].inside /\ c.got = call[t].got
      /\ c.owed = owed /\ c.name = name
  BY <1>5, <1>6, <1>7 DEF LogCalls
<1> HIDE DEF c
<1>9. Placed(c) /\ Counted(c) /\ Named(c)
  BY <1>1, <1>3, <1>4, <1>6, <1>8 DEF Placed, Counted, Named
<1>10. c \in Calls
  BY <1>8 DEF Calls
<1> QED BY <1>1, <1>2, <1>8, <1>9, <1>10, GoesOn

LEMMA FlushInv ==
  ASSUME IInv, NEW t \in Threads, Flush(t)
  PROVE  IInv'
<1> DEFINE c == [op |-> "flush", at |-> "lock", next |-> 1, inside |-> Nobody]
<1>1. call' = [call EXCEPT ![t] = c] /\ UNCHANGED <<registry, sinks, panel>>
  BY DEF Flush, Begin, outlets
<1>2. c \in FlushCalls
  BY DEF FlushCalls
<1>3. sinks \in Seq(Sinks)
  BY DEF IInv, TypeOK
<1>4. Placed(c) /\ Counted(c) /\ Named(c)
  BY <1>3 DEF Placed, Counted, Named
<1>5. c \in Calls /\ c.op = "flush"
  BY <1>2 DEF Calls
<1> HIDE DEF c
<1> QED BY <1>1, <1>4, <1>5, GoesOn

\* A walker is in a call of the two kinds that walk.
LEMMA WalkerKinds ==
  ASSUME IInv, NEW t \in Threads, call[t].op \in {"log", "flush"}
  PROVE  /\ call[t] \in LogCalls \union FlushCalls
         /\ Placed(call[t]) /\ Counted(call[t]) /\ Named(call[t])
BY CallKinds, CallType DEF IInv, CallsOK

LEMMA LockInv ==
  ASSUME IInv, NEW t \in Threads, Lock(t)
  PROVE  IInv'
<1> DEFINE c == [call[t] EXCEPT !.at = "walk"]
<1>1. /\ call' = [call EXCEPT ![t] = c] /\ UNCHANGED <<registry, sinks, panel>>
      /\ call[t].op \in {"log", "flush"} /\ call[t].at = "lock"
  BY DEF Lock, Goto, outlets
<1>2. PICK r \in LogCalls \union FlushCalls : r = call[t]
  BY <1>1, WalkerKinds
<1>3. /\ c \in LogCalls \union FlushCalls /\ c.op = call[t].op /\ c.at = "walk"
      /\ c.next = call[t].next /\ c.inside = call[t].inside
      /\ c.op = "log" => /\ c.handle = call[t].handle /\ c.got = call[t].got
                         /\ c.owed = call[t].owed /\ c.name = call[t].name
  BY <1>2 DEF LogCalls, FlushCalls
<1>4. Placed(call[t]) /\ Counted(call[t]) /\ Named(call[t])
  BY <1>1, WalkerKinds
<1> HIDE DEF c
<1>5. Placed(c) /\ Counted(c) /\ Named(c)
  BY <1>1, <1>3, <1>4 DEF Placed, Counted, Named
<1>6. c \in Calls
  BY <1>3 DEF Calls
<1> QED BY <1>1, <1>3, <1>5, <1>6, GoesOn

LEMMA EnterInv ==
  ASSUME IInv, NEW t \in Threads, Enter(t)
  PROVE  IInv'
<1> DEFINE s == sinks[call[t].next]
           c == [call[t] EXCEPT !.inside = s, !.next = @ + 1]
<1>1. /\ call' = [call EXCEPT ![t] = c] /\ UNCHANGED <<registry, sinks, panel>>
      /\ call[t].op \in {"log", "flush"} /\ call[t].at = "walk"
      /\ call[t].inside = Nobody /\ call[t].next \in DOMAIN sinks
  BY DEF Enter, Readers, outlets
<1>2. sinks \in Seq(Sinks) /\ s \in Sinks
  BY <1>1 DEF IInv, TypeOK
<1>3. PICK r \in LogCalls \union FlushCalls : r = call[t]
  BY <1>1, WalkerKinds
<1> HIDE DEF s
<1>4. /\ c \in LogCalls \union FlushCalls /\ c.op = call[t].op /\ c.at = "walk"
      /\ c.next = call[t].next + 1 /\ c.inside = s /\ call[t].next \in Nat \ {0}
      /\ c.op = "log" => /\ c.handle = call[t].handle /\ c.got = call[t].got
                         /\ c.owed = call[t].owed /\ c.name = call[t].name
  <2> DEFINE n == r.next + 1
  <2>1. c = [r EXCEPT !.inside = s, !.next = n]
    BY <1>3
  <2>2. r.next \in Nat \ {0} /\ n \in Nat \ {0}
    BY <1>3 DEF LogCalls, FlushCalls
  <2> HIDE DEF n
  <2>3. CASE r \in LogCalls
    BY <1>1, <1>2, <1>3, <2>1, <2>2, <2>3 DEF LogCalls, n
  <2>4. CASE r \in FlushCalls
    BY <1>1, <1>2, <1>3, <2>1, <2>2, <2>4 DEF FlushCalls, n
  <2> QED BY <1>3, <2>3, <2>4
<1>5. Placed(call[t]) /\ Counted(call[t]) /\ Named(call[t])
  BY <1>1, WalkerKinds
<1> HIDE DEF c
<1>6. Placed(c)
  BY <1>1, <1>2, <1>4 DEF Placed, s
<1>7. Counted(c)
  <2> SUFFICES ASSUME c.op = "log", NEW x \in Sinks
               PROVE  c.got[x] = IF x # c.inside /\ \E i \in 1..c.next - 1 : sinks[i] = x
                                 THEN 1 ELSE 0
    BY DEF Counted
  <2>1. call[t].got[x] = IF x # Nobody /\ \E i \in 1..call[t].next - 1 : sinks[i] = x
                         THEN 1 ELSE 0
    BY <1>1, <1>4, <1>5 DEF Counted
  <2>2. x # Nobody
    BY LogAssumption DEF Sinks
  <2>3. 1..c.next - 1 = (1..call[t].next - 1) \union {call[t].next}
    BY <1>4
  <2>4. \A i \in 1..call[t].next - 1 : sinks[i] # s
    BY <1>1, <1>2, <1>4 DEF IInv, NoSinkTwice, s
  <2> QED BY <1>4, <2>1, <2>2, <2>3, <2>4 DEF s
<1>8. Named(c)
  BY <1>1, <1>4, <1>5 DEF Named
<1>9. c \in Calls
  BY <1>4 DEF Calls
<1> QED BY <1>1, <1>4, <1>6, <1>7, <1>8, <1>9, GoesOn

LEMMA LeaveInv ==
  ASSUME IInv, NEW t \in Threads, Leave(t)
  PROVE  IInv'
<1> DEFINE c == Left(call[t])
           s == call[t].inside
<1>1. /\ call' = [call EXCEPT ![t] = c] /\ UNCHANGED <<registry, sinks, panel>>
      /\ call[t].op \in {"log", "flush"} /\ call[t].at = "walk" /\ s # Nobody
  BY DEF Leave, Readers, outlets
<1>2. PICK r \in LogCalls \union FlushCalls : r = call[t]
  BY <1>1, WalkerKinds
<1>3. Placed(call[t]) /\ Counted(call[t]) /\ Named(call[t])
  BY <1>1, WalkerKinds
<1>4. s \in Sinks
  BY <1>1, <1>2 DEF LogCalls, FlushCalls
<1>5. CASE call[t].op = "flush"
  <2>1. c = [r EXCEPT !.inside = Nobody] /\ r \in FlushCalls
    BY <1>2, <1>5 DEF Left, LogCalls
  <2>2. c \in FlushCalls /\ c.op = "flush" /\ c.at = "walk" /\ c.next = r.next /\ c.inside = Nobody
    BY <1>1, <1>2, <2>1 DEF FlushCalls
  <2> HIDE DEF c
  <2>3. Placed(c) /\ Counted(c) /\ Named(c)
    BY <1>1, <1>2, <1>3, <2>2 DEF Placed, Counted, Named
  <2>4. c \in Calls
    BY <2>2 DEF Calls
  <2> QED BY <1>1, <2>2, <2>3, <2>4, GoesOn
<1>6. CASE call[t].op = "log"
  <2>1. r \in LogCalls /\ c = [[r EXCEPT !.inside = Nobody] EXCEPT !.got[r.inside] = @ + 1]
    BY <1>2, <1>6 DEF Left, FlushCalls
  <2>2. PICK q \in LogCalls : q = [r EXCEPT !.inside = Nobody]
    BY <2>1 DEF LogCalls
  <2>3. /\ q.op = "log" /\ q.at = "walk" /\ q.handle = r.handle /\ q.next = r.next
        /\ q.inside = Nobody /\ q.owed = r.owed /\ q.name = r.name /\ q.got = r.got
        /\ q.level = r.level
    BY <1>1, <1>2, <2>1, <2>2 DEF LogCalls
  <2> DEFINE got == [q.got EXCEPT ![s] = @ + 1]
  <2>4. got \in [Sinks -> Nat]
    BY <1>4, <2>2 DEF LogCalls
  <2>5. c = [q EXCEPT !.got = got]
    BY <1>2, <2>1, <2>2
  <2>6. \A x \in Sinks : got[x] = IF x = s THEN r.got[x] + 1 ELSE r.got[x]
    BY <1>4, <2>2, <2>3 DEF LogCalls
  <2> HIDE DEF got
  <2>7. /\ c \in LogCalls /\ c.op = "log" /\ c.at = "walk" /\ c.handle = r.handle
        /\ c.next = r.next /\ c.inside = Nobody /\ c.owed = r.owed /\ c.name = r.name
        /\ c.got = got
    BY <2>2, <2>3, <2>4, <2>5 DEF LogCalls
  <2> HIDE DEF c
  <2>8. Placed(c)
    BY <1>1, <1>2, <1>3, <2>7 DEF Placed
  <2>9. Counted(c)
    <3> SUFFICES ASSUME NEW x \in Sinks
                 PROVE  c.got[x] = IF x # c.inside /\ \E i \in 1..c.next - 1 : sinks[i] = x
                                   THEN 1 ELSE 0
      BY DEF Counted
    <3>1. r.got[x] = IF x # s /\ \E i \in 1..r.next - 1 : sinks[i] = x THEN 1 ELSE 0
      BY <1>2, <1>3, <1>6 DEF Counted
    <3>2. x # Nobody
      BY LogAssumption DEF Sinks
    <3>3. r.next - 1 \in 1..r.next - 1 /\ sinks[r.next - 1] = s
      BY <1>1, <1>2, <1>3, <2>1 DEF Placed, LogCalls
    <3> QED BY <2>6, <2>7, <3>1, <3>2, <3>3
  <2>10. Named(c)
    BY <1>1, <1>2, <1>3, <1>6, <2>7 DEF Named
  <2>11. c \in Calls
    BY <2>7 DEF Calls
  <2> QED BY <1>1, <2>7, <2>8, <2>9, <2>10, <2>11, GoesOn
<1> QED BY <1>1, <1>5, <1>6

LEMMA UnlockInv ==
  ASSUME IInv, NEW t \in Threads, Unlock(t)
  PROVE  IInv'
<1>1. Return(t) /\ UNCHANGED <<registry, sinks, panel>>
  BY DEF Unlock, outlets
<1> QED BY <1>1, Returned, SameRegistry, SameSinks DEF IInv, TypeOK

-----------------------------------------------------------------------------
(* Clients and the sinks' lock.                                             *)

\* A client begins to add or to remove a sink no other call is about.
LEMMA EditBegins ==
  ASSUME IInv, NEW t \in Threads, NEW p \in Panels, NEW op \in {"add", "remove"},
         panel[p] # "gone", Untouched(p),
         Begin(t, [op |-> op, at |-> "claim", sink |-> p]),
         UNCHANGED <<registry, sinks>>,
         panel' = IF op = "add" THEN [panel EXCEPT ![p] = "in"] ELSE panel
  PROVE  IInv'
<1> DEFINE c == [op |-> op, at |-> "claim", sink |-> p]
<1>1. c \in Calls /\ c.op = op /\ c.sink = p /\ c.op \notin {"log", "flush"}
  BY DEF Calls, EditCalls
<1>2. call \in [Threads -> Calls] /\ call' = [call EXCEPT ![t] = c]
  BY DEF IInv, TypeOK, Begin
<1> HIDE DEF c
<1>3. call' \in [Threads -> Calls] /\ call'[t] = c /\ \A u \in Threads \ {t} : call'[u] = call[u]
  BY <1>1, <1>2
<1>4. panel \in [Panels -> {"out", "in", "gone"}] /\ panel' \in [Panels -> {"out", "in", "gone"}]
  BY DEF IInv, TypeOK
<1>5. TypeOK' /\ OneChannelPerName' /\ NoSinkTwice'
  BY <1>3, <1>4, SameRegistry DEF IInv, TypeOK, NoSinkTwice
<1>6. ClientsKeepTheirWord'
  <2>1. \A q \in Panels : panel[q] = "in" => panel'[q] = "in"
    BY <1>4
  <2>2. \A i \in DOMAIN sinks : sinks[i] \in Panels => panel'[sinks[i]] = "in"
    BY <2>1 DEF IInv, ClientsKeepTheirWord
  <2>3. ASSUME NEW u \in Threads, call'[u].op = "add" PROVE panel'[call'[u].sink] = "in"
    <3>1. CASE u = t
      BY <1>1, <1>3, <1>4, <2>3, <3>1
    <3>2. CASE u # t
      <4>1. call[u] \in EditCalls
        BY <1>3, <2>3, <3>2, CallKinds, CallType
      <4>2. call[u].sink \in Panels /\ panel[call[u].sink] = "in"
        BY <1>3, <2>3, <3>2, <4>1 DEF IInv, ClientsKeepTheirWord, EditCalls
      <4> QED BY <1>3, <2>1, <3>2, <4>2
    <3> QED BY <3>1, <3>2
  <2>4. \A u, w \in Threads :
            (/\ call'[u].op \in {"add", "remove"} /\ call'[w].op \in {"add", "remove"}
             /\ call'[u].sink = call'[w].sink) => u = w
    BY <1>1, <1>3 DEF Untouched, IInv, ClientsKeepTheirWord
  <2> QED BY <2>2, <2>3, <2>4 DEF ClientsKeepTheirWord
<1>7. CallsOK'
  <2> SUFFICES ASSUME NEW u \in Threads
               PROVE  Placed(call[u])' /\ Counted(call[u])' /\ Named(call[u])'
    BY DEF CallsOK
  <2>1. CASE u = t
    BY <1>1, <1>3, <2>1 DEF Placed, Counted, Named
  <2>2. CASE u # t
    <3>1. Placed(call[u]) /\ Counted(call[u]) /\ Named(call[u])
      BY DEF IInv, CallsOK
    <3> QED BY <1>3, <2>2, <3>1 DEF Placed, Counted, Named, registry
  <2> QED BY <2>1, <2>2
<1> QED BY <1>5, <1>6, <1>7 DEF IInv

LEMMA AddSinkInv ==
  ASSUME IInv, NEW t \in Threads, NEW p \in Panels, AddSink(t, p)
  PROVE  IInv'
<1>1. /\ panel[p] # "gone" /\ Untouched(p) /\ UNCHANGED <<registry, sinks>>
      /\ Begin(t, [op |-> "add", at |-> "claim", sink |-> p])
      /\ panel' = [panel EXCEPT ![p] = "in"]
  BY DEF AddSink
<1> QED BY <1>1, EditBegins

LEMMA RemoveSinkInv ==
  ASSUME IInv, NEW t \in Threads, NEW p \in Panels, RemoveSink(t, p)
  PROVE  IInv'
<1>1. /\ panel[p] # "gone" /\ Untouched(p) /\ UNCHANGED <<registry, sinks, panel>>
      /\ Begin(t, [op |-> "remove", at |-> "claim", sink |-> p])
  BY DEF RemoveSink, outlets
<1> QED BY <1>1, EditBegins

\* A call that holds a lock or waits for one goes on to the next place.
LEMMA StepsOn ==
  ASSUME IInv, NEW t \in Threads, NEW at \in {"claim", "edit"},
         call[t].op \in {"add", "remove", "console", "file"}, Goto(t, at),
         UNCHANGED <<registry, sinks, panel>>
  PROVE  IInv'
<1> DEFINE c == [call[t] EXCEPT !.at = at]
<1>1. call' = [call EXCEPT ![t] = c]
  BY DEF Goto
<1>2. PICK r \in EditCalls \union BuiltinCalls : r = call[t]
  BY CallKinds, CallType
<1>3. /\ c \in EditCalls \union BuiltinCalls /\ c.op = call[t].op
      /\ c.op \in {"add", "remove"} => c.sink = call[t].sink
  <2>1. CASE r \in EditCalls
    BY <1>2, <2>1 DEF EditCalls
  <2>2. CASE r \in BuiltinCalls
    BY <1>2, <2>2 DEF BuiltinCalls
  <2> QED BY <1>2, <2>1, <2>2
<1>4. c \in Calls /\ c.op \notin {"log", "flush"}
  BY <1>3 DEF Calls
<1> HIDE DEF c
<1> QED BY <1>1, <1>3, <1>4, Elsewhere, GoesOn

LEMMA ClaimInv ==
  ASSUME IInv, NEW t \in Threads, ClaimToEdit(t) \/ ClaimToBuild(t)
  PROVE  IInv'
<1>1. /\ call[t].op \in {"add", "remove", "console", "file"} /\ Goto(t, "edit")
      /\ UNCHANGED <<registry, sinks, panel>>
  BY DEF ClaimToEdit, ClaimToBuild, Claim
<1> QED BY <1>1, StepsOn

\* Nobody walks when a writer is let in, so nothing depends on the sinks but
\* what is owed.
LEMMA NobodyWalks ==
  ASSUME IInv, NEW t \in Threads, MayWrite(t), NEW u \in Threads,
         call[u].op \in {"log", "flush"}
  PROVE  /\ call[u].at # "walk" /\ call[u].next = 1 /\ call[u].inside = Nobody
         /\ call[u].op = "log" => \A s \in Sinks : call[u].got[s] = 0
<1>1. Placed(call[u]) /\ Counted(call[u])
  BY DEF IInv, CallsOK
<1>2. call[u].at # "walk"
  BY DEF MayWrite, Readers
<1>3. call[u].next = 1 /\ call[u].inside = Nobody
  BY <1>1, <1>2 DEF Placed
<1> QED BY <1>1, <1>2, <1>3 DEF Counted

\* A sink is registered, and the calls of the others wait.
LEMMA SinkAdded ==
  ASSUME IInv, NEW t \in Threads, MayWrite(t), NEW s \in Sinks, sinks' = With(s),
         s \in Panels => panel[s] = "in",
         Return(t), UNCHANGED <<registry, panel>>
  PROVE  IInv'
<1>1. sinks \in Seq(Sinks) /\ call \in [Threads -> Calls]
  BY DEF IInv, TypeOK
<1>2. /\ call' \in [Threads -> Calls] /\ call'[t] = NoCall
      /\ \A u \in Threads \ {t} : call'[u] = call[u]
  BY <1>1 DEF Return, Calls
<1>3. /\ sinks' \in Seq(Sinks)
      /\ \A i \in DOMAIN sinks : i \in DOMAIN sinks' /\ sinks'[i] = sinks[i]
      /\ \A i \in DOMAIN sinks' :
            i \in DOMAIN sinks \/ (sinks'[i] = s /\ i = Len(sinks) + 1 /\ s \notin Elements(sinks))
  <2>1. CASE s \in Elements(sinks)
    BY <1>1, <2>1 DEF With
  <2>2. CASE s \notin Elements(sinks)
    <3>1. sinks' = Append(sinks, s)
      BY <2>2 DEF With
    <3> QED BY <1>1, <2>2, <3>1
  <2> QED BY <2>1, <2>2
<1>4. TypeOK' /\ OneChannelPerName'
  BY <1>2, <1>3, SameRegistry DEF IInv, TypeOK
<1>5. NoSinkTwice'
  <2>1. \A i \in DOMAIN sinks : s \notin Elements(sinks) => sinks[i] # s
    BY DEF Elements
  <2> QED BY <1>1, <1>3, <2>1 DEF IInv, NoSinkTwice
<1>6. ClientsKeepTheirWord'
  <2>1. \A i \in DOMAIN sinks' : sinks'[i] \in Panels => panel'[sinks'[i]] = "in"
    BY <1>3 DEF IInv, ClientsKeepTheirWord
  <2>2. NoCall.op = "none"
    BY DEF NoCall
  <2> QED BY <1>2, <2>1, <2>2 DEF IInv, ClientsKeepTheirWord
<1>7. CallsOK'
  <2> SUFFICES ASSUME NEW u \in Threads
               PROVE  Placed(call[u])' /\ Counted(call[u])' /\ Named(call[u])'
    BY DEF CallsOK
  <2>1. CASE u = t
    BY <1>2, <2>1 DEF Placed, Counted, Named, NoCall
  <2>2. CASE u # t
    <3>1. Named(call[u]) /\ call'[u] = call[u]
      BY <1>2, <2>2 DEF IInv, CallsOK
    <3>2. Named(call[u])'
      BY <1>3, <3>1 DEF Named, registry
    <3>3. Placed(call[u])' /\ Counted(call[u])'
      <4>1. Len(sinks') \in Nat
        BY <1>3
      <4> QED BY <3>1, <4>1, NobodyWalks DEF Placed, Counted
    <3> QED BY <3>2, <3>3
  <2> QED BY <2>1, <2>2
<1> QED BY <1>4, <1>5, <1>6, <1>7 DEF IInv

LEMMA AddInv ==
  ASSUME IInv, NEW t \in Threads, Add(t)
  PROVE  IInv'
<1>1. /\ call[t].op = "add" /\ MayWrite(t) /\ sinks' = With(call[t].sink)
      /\ Return(t) /\ UNCHANGED <<registry, panel>>
  BY DEF Add, In
<1>2. call[t].sink \in Panels
  BY <1>1, CallKinds, CallType DEF EditCalls
<1>3. panel[call[t].sink] = "in"
  BY <1>1 DEF IInv, ClientsKeepTheirWord
<1>4. call[t].sink \in Sinks
  BY <1>2 DEF Sinks
<1> QED BY <1>1, <1>3, <1>4, SinkAdded

LEMMA KeepInv ==
  ASSUME IInv, NEW t \in Threads, Keep(t)
  PROVE  IInv'
<1> DEFINE s == call[t].sink
<1>1. sinks' = With(s)
  BY DEF Keep
<1>2. MayWrite(t) /\ Return(t) /\ UNCHANGED <<registry, panel>>
  BY DEF Keep
<1>3. s \in Sinks /\ s \notin Panels
  <2>1. call[t] \in BuiltinCalls
    BY CallKinds, CallType DEF Keep
  <2> QED BY <2>1, LogAssumption DEF BuiltinCalls, Sinks
<1> HIDE DEF s
<1> QED BY <1>1, <1>2, <1>3, SinkAdded

\* What is left without a sink is the others, in their order, once each.
LEMMA WithoutSound ==
  ASSUME sinks \in Seq(Sinks), NoSinkTwice, NEW s
  PROVE  /\ Without(s) \in Seq(Sinks)
         /\ \A i, j \in DOMAIN Without(s) : Without(s)[i] = Without(s)[j] => i = j
         /\ \A i \in DOMAIN Without(s) :
               Without(s)[i] # s /\ \E j \in DOMAIN sinks : Without(s)[i] = sinks[j]
         /\ \A j \in DOMAIN sinks : sinks[j] # s => \E i \in DOMAIN Without(s) : Without(s)[i] = sinks[j]
<1>1. CASE s \notin Elements(sinks)
  <2>1. Without(s) = sinks /\ \A i \in DOMAIN sinks : sinks[i] # s
    BY <1>1 DEF Without, Elements
  <2> QED BY <2>1 DEF NoSinkTwice
<1>2. CASE s \in Elements(sinks)
  <2> DEFINE n == Len(sinks)
             k == Place(s)
             w == [i \in 1..n - 1 |-> sinks[IF i < k THEN i ELSE i + 1]]
  <2>1. k \in DOMAIN sinks /\ sinks[k] = s
    BY <1>2 DEF Elements, Place
  <2>2. n \in Nat /\ DOMAIN sinks = 1..n /\ k \in 1..n /\ n - 1 \in Nat
    BY <2>1
  <2>3. Without(s) = w
    BY <1>2 DEF Without
  <2> HIDE DEF n, k
  <2>4. \A i \in 1..n - 1 : /\ (IF i < k THEN i ELSE i + 1) \in 1..n \ {k}
                            /\ w[i] = sinks[IF i < k THEN i ELSE i + 1]
    BY <2>2
  <2> DEFINE At(i) == IF i < k THEN i ELSE i + 1
  <2>5. \A i, j \in 1..n - 1 : At(i) = At(j) => i = j
    BY <2>2
  <2>6. \A j \in 1..n \ {k} : \E i \in 1..n - 1 : At(i) = j
    <3> SUFFICES ASSUME NEW j \in 1..n \ {k} PROVE \E i \in 1..n - 1 : At(i) = j
      OBVIOUS
    <3>1. CASE j < k
      <4>1. j \in 1..n - 1 /\ At(j) = j
        BY <2>2, <3>1
      <4> QED BY <4>1
    <3>2. CASE j > k
      <4>1. j - 1 \in 1..n - 1 /\ At(j - 1) = j
        BY <2>2, <3>2
      <4> QED BY <4>1
    <3> QED BY <2>2, <3>1, <3>2
  <2>7. \A i \in 1..n - 1 : At(i) \in DOMAIN sinks /\ At(i) # k /\ w[i] = sinks[At(i)]
    BY <2>2, <2>4
  <2>8. DOMAIN w = 1..n - 1
    OBVIOUS
  <2> HIDE DEF w, At
  <2>9. \A i \in 1..n - 1 : w[i] \in Sinks
    BY <2>7, SeqMember
  <2>10. w \in Seq(Sinks)
    <3>1. w \in [1..n - 1 -> Sinks]
      BY <2>8, <2>9 DEF w
    <3>2. ASSUME NEW T, NEW m \in Nat, NEW f \in [1..m -> T] PROVE f \in Seq(T)
      OBVIOUS
    <3> QED BY <2>2, <3>1, <3>2
  <2>11. \A i \in 1..n - 1 : w[i] # s
    BY <2>1, <2>7 DEF NoSinkTwice
  <2>12. \A i, j \in 1..n - 1 : w[i] = w[j] => i = j
    BY <2>5, <2>7 DEF NoSinkTwice
  <2>13. \A j \in DOMAIN sinks : sinks[j] # s => \E i \in 1..n - 1 : w[i] = sinks[j]
    BY <2>1, <2>2, <2>6, <2>7
  <2> QED BY <2>3, <2>7, <2>8, <2>10, <2>11, <2>12, <2>13
<1> QED BY <1>1, <1>2

LEMMA RemoveInv ==
  ASSUME IInv, NEW t \in Threads, Remove(t)
  PROVE  IInv'
<1> DEFINE s == call[t].sink
<1>1. /\ call[t].op = "remove" /\ MayWrite(t) /\ sinks' = Without(s)
      /\ panel' = [panel EXCEPT ![s] = "out"] /\ UNCHANGED registry
      /\ call' = [u \in Threads |->
                     IF u = t THEN NoCall
                     ELSE IF call[u].op # "log" THEN call[u]
                     ELSE [call[u] EXCEPT !.owed = @ \ {s}]]
  BY DEF Remove, In
<1>2. s \in Panels
  BY <1>1, CallKinds, CallType DEF EditCalls
<1> HIDE DEF s
<1>3. sinks \in Seq(Sinks) /\ NoSinkTwice
  BY DEF IInv, TypeOK
<1>4. /\ sinks' \in Seq(Sinks)
      /\ \A i, j \in DOMAIN sinks' : sinks'[i] = sinks'[j] => i = j
      /\ \A i \in DOMAIN sinks' :
            sinks'[i] # s /\ \E j \in DOMAIN sinks : sinks'[i] = sinks[j]
      /\ \A j \in DOMAIN sinks : sinks[j] # s => \E i \in DOMAIN sinks' : sinks'[i] = sinks[j]
  BY <1>1, <1>3, WithoutSound
<1>5. call'[t] = NoCall /\ \A u \in Threads \ {t} : call[u].op # "log" => call'[u] = call[u]
  BY <1>1
<1>6. \A u \in Threads \ {t} : call[u].op = "log" =>
          /\ call'[u] \in LogCalls /\ call'[u].op = "log" /\ call'[u].at = call[u].at
          /\ call'[u].handle = call[u].handle /\ call'[u].name = call[u].name
          /\ call'[u].next = call[u].next /\ call'[u].inside = call[u].inside
          /\ call'[u].got = call[u].got /\ call'[u].owed = call[u].owed \ {s}
  <2> SUFFICES ASSUME NEW u \in Threads \ {t}, call[u].op = "log"
               PROVE  /\ call'[u] \in LogCalls /\ call'[u].op = "log" /\ call'[u].at = call[u].at
                      /\ call'[u].handle = call[u].handle /\ call'[u].name = call[u].name
                      /\ call'[u].next = call[u].next /\ call'[u].inside = call[u].inside
                      /\ call'[u].got = call[u].got /\ call'[u].owed = call[u].owed \ {s}
    OBVIOUS
  <2>1. PICK r \in LogCalls : r = call[u]
    BY CallKinds, CallType
  <2> DEFINE left == r.owed \ {s}
  <2>2. left \in SUBSET Sinks
    BY <2>1 DEF LogCalls
  <2>3. call'[u] = [r EXCEPT !.owed = left]
    BY <1>1, <2>1
  <2> HIDE DEF left
  <2>4. /\ [r EXCEPT !.owed = left] \in LogCalls
        /\ LET c == [r EXCEPT !.owed = left]
           IN  /\ c.op = r.op /\ c.at = r.at /\ c.handle = r.handle /\ c.name = r.name
               /\ c.next = r.next /\ c.inside = r.inside /\ c.got = r.got /\ c.owed = left
    BY <2>1, <2>2 DEF LogCalls
  <2> QED BY <2>1, <2>3, <2>4 DEF left
<1>7. TypeOK' /\ OneChannelPerName'
  <2>1. panel' \in [Panels -> {"out", "in", "gone"}]
    BY <1>1 DEF IInv, TypeOK
  <2>2. \A u \in Threads : call'[u] \in Calls
    BY <1>5, <1>6, CallType DEF Calls
  <2>3. call' \in [Threads -> Calls]
    BY <1>1, <2>2
  <2> QED BY <1>1, <1>4, <2>1, <2>3, SameRegistry DEF TypeOK
<1>8. NoSinkTwice'
  BY <1>4 DEF NoSinkTwice
<1>9. ClientsKeepTheirWord'
  <2>1. \A p \in Panels : p # s => panel'[p] = panel[p]
    BY <1>1, <1>2 DEF IInv, TypeOK
  <2>2. \A i \in DOMAIN sinks' : sinks'[i] \in Panels => panel'[sinks'[i]] = "in"
    BY <1>4, <2>1 DEF IInv, ClientsKeepTheirWord
  <2>3. \A u \in Threads : call'[u].op \in {"add", "remove"} => u # t /\ call'[u] = call[u]
    BY <1>5, <1>6 DEF NoCall
  <2>4. ASSUME NEW u \in Threads, call'[u].op = "add" PROVE panel'[call'[u].sink] = "in"
    <3>1. u # t /\ call'[u] = call[u] /\ call[u].sink \in Panels
      BY <2>3, <2>4, CallKinds, CallType DEF EditCalls
    <3>2. call[u].sink # s /\ panel[call[u].sink] = "in"
      BY <1>1, <2>4, <3>1 DEF IInv, ClientsKeepTheirWord, s
    <3> QED BY <2>1, <3>1, <3>2
  <2> QED BY <2>2, <2>3, <2>4 DEF IInv, ClientsKeepTheirWord
<1>10. CallsOK'
  <2> SUFFICES ASSUME NEW u \in Threads
               PROVE  Placed(call[u])' /\ Counted(call[u])' /\ Named(call[u])'
    BY DEF CallsOK
  <2>1. CASE u = t
    BY <1>5, <2>1 DEF Placed, Counted, Named, NoCall
  <2>2. CASE u # t /\ call[u].op # "log"
    <3>1. call'[u] = call[u] /\ Len(sinks') \in Nat
      BY <1>4, <1>5, <2>2
    <3> QED BY <1>1, <2>2, <3>1, NobodyWalks DEF Placed, Counted, Named
  <2>3. CASE u # t /\ call[u].op = "log"
    <3>1. Named(call[u])
      BY DEF IInv, CallsOK
    <3>2. Named(call[u])'
      BY <1>1, <1>4, <1>6, <2>3, <3>1 DEF Named, registry
    <3>3. Len(sinks') \in Nat
      BY <1>4
    <3>4. /\ call[u].at # "walk" /\ call[u].next = 1 /\ call[u].inside = Nobody
          /\ \A x \in Sinks : call[u].got[x] = 0
      BY <1>1, <2>3, NobodyWalks
    <3> QED BY <1>6, <2>3, <3>2, <3>3, <3>4 DEF Placed, Counted
  <2> QED BY <2>1, <2>2, <2>3
<1> QED BY <1>7, <1>8, <1>9, <1>10 DEF IInv

\* A client destroys a sink it has removed and nobody is adding.
LEMMA DestroyInv ==
  ASSUME IInv, NEW p \in Panels, Destroy(p)
  PROVE  IInv'
<1>1. /\ panel[p] = "out" /\ panel' = [panel EXCEPT ![p] = "gone"]
      /\ UNCHANGED <<registry, sinks, call>>
  BY DEF Destroy
<1>2. TypeOK' /\ OneChannelPerName' /\ NoSinkTwice'
  BY <1>1, SameRegistry DEF IInv, TypeOK, NoSinkTwice
<1>3. ClientsKeepTheirWord'
  <2>1. \A q \in Panels : panel[q] = "in" => panel'[q] = "in"
    BY <1>1 DEF IInv, TypeOK
  <2>2. \A u \in Threads : call[u].op = "add" => call[u].sink \in Panels
    BY CallKinds, CallType DEF EditCalls
  <2> QED BY <1>1, <2>1, <2>2 DEF IInv, ClientsKeepTheirWord
<1>4. CallsOK'
  BY <1>1 DEF IInv, CallsOK, Placed, Counted, Named, registry
<1> QED BY <1>2, <1>3, <1>4 DEF IInv

LEMMA AddBuiltinInv ==
  ASSUME IInv, NEW t \in Threads, NEW op \in {"console", "file"},
         NEW s \in {Console} \union Files,
         Begin(t, [op |-> op, at |-> "build", sink |-> s]),
         UNCHANGED <<registry, outlets>>
  PROVE  IInv'
<1> DEFINE c == [op |-> op, at |-> "build", sink |-> s]
<1>1. c \in Calls /\ c.op \notin {"log", "flush", "add", "remove"}
  BY DEF Calls, BuiltinCalls
<1>2. call' = [call EXCEPT ![t] = c] /\ UNCHANGED <<registry, sinks, panel>>
  BY DEF Begin, outlets
<1> HIDE DEF c
<1> QED BY <1>1, <1>2, Elsewhere, GoesOn

LEMMA BuildInv ==
  ASSUME IInv, NEW t \in Threads, Build(t) \/ CannotOpen(t)
  PROVE  IInv'
<1>1. UNCHANGED <<registry, sinks, panel>>
  BY DEF Build, CannotOpen, outlets
<1>2. CASE Return(t)
  BY <1>1, <1>2, Returned, SameRegistry, SameSinks DEF IInv, TypeOK
<1>3. CASE call[t].op \in {"console", "file"} /\ Goto(t, "claim")
  BY <1>1, <1>3, StepsOn
<1> QED BY <1>2, <1>3 DEF Build, CannotOpen

-----------------------------------------------------------------------------

LEMMA StartInv ==
  ASSUME IInv, NEW t \in Threads, Start(t)
  PROVE  IInv'
<1>1. CASE \E name \in Names : DeclareCategory(t, name)
  BY <1>1, DeclareInv DEF DeclareCategory, AllNames
<1>2. CASE \E id \in 1..Len(categories) + 1 : CategoryAt(t, id)
  <2>1. PICK id \in 1..Len(categories) + 1 : CategoryAt(t, id)
    BY <1>2
  <2> DEFINE name == IF id \in DOMAIN categories THEN categories[id].name ELSE Unknown
  <2>2. name \in AllNames
    <3>1. CASE id \in DOMAIN categories
      <4>1. categories[id] \in [name : AllNames, level : Levels]
        BY <3>1, SeqMember DEF IInv, TypeOK
      <4> QED BY <3>1, <4>1
    <3>2. CASE id \notin DOMAIN categories
      BY <3>2 DEF AllNames
    <3> QED BY <3>1, <3>2
  <2>3. Begin(t, [op |-> "category", at |-> "scan", name |-> name]) /\ UNCHANGED <<registry, outlets>>
    BY <2>1 DEF CategoryAt
  <2> HIDE DEF name
  <2> QED BY <2>2, <2>3, DeclareInv
<1>3. CASE \E h \in handles, level \in Levels : SetLevel(t, h, level) \/ Log(t, h, level)
  BY <1>3, SetLevelInv, LogInv
<1>4. CASE \E level \in Levels : SetGlobalLevel(t, level)
  BY <1>4, SetGlobalLevelInv
<1>5. CASE \E p \in Panels : AddSink(t, p) \/ RemoveSink(t, p)
  BY <1>5, AddSinkInv, RemoveSinkInv
<1>6. CASE AddConsole(t) \/ \E s \in Files : AddFile(t, s)
  BY <1>6, AddBuiltinInv DEF AddConsole, AddFile
<1>7. CASE Flush(t)
  BY <1>7, FlushInv
<1> QED BY <1>1, <1>2, <1>3, <1>4, <1>5, <1>6, <1>7 DEF Start

LEMMA StepInv ==
  ASSUME IInv, NEW t \in Threads, Step(t)
  PROVE  IInv'
BY ScanInv, InsertInv, FilterInv, NameInv, LockInv, EnterInv, LeaveInv, UnlockInv,
   ClaimInv, AddInv, RemoveInv, BuildInv, KeepInv DEF Step

LEMMA NextInv == IInv /\ [Next]_vars => IInv'
<1> SUFFICES ASSUME IInv, [Next]_vars PROVE IInv'
  OBVIOUS
<1>1. CASE \E t \in Threads : Start(t) \/ Step(t)
  BY <1>1, StartInv, StepInv
<1>2. CASE \E p \in Panels : Destroy(p)
  BY <1>2, DestroyInv
<1>3. CASE UNCHANGED vars
  <2>1. UNCHANGED <<categories, handles, sinks, panel, call>>
    BY <1>3 DEF vars, registry, outlets
  <2> QED BY <2>1 DEF IInv, TypeOK, OneChannelPerName, NoSinkTwice, ClientsKeepTheirWord,
                  CallsOK, Placed, Counted, Named
<1> QED BY <1>1, <1>2, <1>3 DEF Next, Rest

LEMMA SpecInv == Spec => []IInv
BY InitInv, NextInv, PTL DEF Spec

\* There is one channel for a name, and a handle is that of its name,
\* however many threads declare it at once (LogCategory::LogCategory).
THEOREM OneChannelAlways == Spec => []OneChannelPerName
<1>1. IInv => OneChannelPerName
  BY DEF IInv
<1> QED BY <1>1, SpecInv, PTL

\* No thread is in a sink that its client has destroyed (logWrite,
\* logRemoveSink).
THEOREM CalledSinksAlwaysLive == Spec => []CalledSinksLive
<1>1. IInv => CalledSinksLive
  <2> SUFFICES ASSUME IInv, NEW t \in Readers, NEW p \in Panels, call[t].inside = p
               PROVE  panel[p] # "gone"
    BY DEF CalledSinksLive
  <2>1. t \in Threads /\ call[t].op \in {"log", "flush"}
    BY DEF Readers
  <2>2. Placed(call[t]) /\ p # Nobody
    BY <2>1, LogAssumption DEF IInv, CallsOK
  <2>3. sinks[call[t].next - 1] = p /\ call[t].next - 1 \in DOMAIN sinks
    BY <2>1, <2>2 DEF Placed, IInv, TypeOK
  <2> QED BY <2>3 DEF IInv, ClientsKeepTheirWord
<1> QED BY <1>1, SpecInv, PTL

\* Only Unlock ends the walk of a record.
LEMMA WalkEnds ==
  ASSUME IInv, Next, NEW t \in Threads, call[t].op = "log", call[t].at = "walk",
         call'[t] = NoCall
  PROVE  call[t].inside = Nobody /\ call[t].next \notin DOMAIN sinks
<1>1. call \in [Threads -> Calls] /\ call[t] # NoCall /\ NoCall.op = "none"
  BY DEF IInv, TypeOK, NoCall
<1>2. ASSUME NEW u \in Threads, Start(u) PROVE call'[t] # NoCall
  <2>1. call' = call \/ (call[u] = NoCall /\ \E c : call' = [call EXCEPT ![u] = c])
    BY <1>2 DEF Start, DeclareCategory, CategoryAt, SetLevel, Log, SetGlobalLevel, AddSink,
                RemoveSink, AddConsole, AddFile, Flush, Begin
  <2> QED BY <1>1, <2>1
<1>3. ASSUME NEW u \in Threads \ {t}, Step(u) PROVE call'[t] # NoCall
  <2>1. CASE Remove(u)
    <3>1. call'[t] = [call[t] EXCEPT !.owed = @ \ {call[u].sink}]
      BY <2>1 DEF Remove
    <3>2. PICK r \in LogCalls : r = call[t]
      BY CallKinds, CallType
    <3> DEFINE left == r.owed \ {call[u].sink}
    <3>3. call'[t] = [r EXCEPT !.owed = left]
      BY <3>1, <3>2
    <3> HIDE DEF left
    <3>4. [r EXCEPT !.owed = left].op = "log"
      BY <3>2 DEF LogCalls
    <3> QED BY <1>1, <3>3, <3>4
  <2>2. CASE \E c : call' = [call EXCEPT ![u] = c]
    BY <1>1, <2>2
  <2>3. CASE ~Remove(u)
    <3>1. \E c : call' = [call EXCEPT ![u] = c]
      BY <1>3, <2>3 DEF Step, Scan, Insert, Filter, Name, Lock, Enter, Leave, Unlock,
                        ClaimToEdit, Add, CannotOpen, Build, ClaimToBuild, Keep, Goto, Return
    <3> QED BY <2>2, <3>1
  <2> QED BY <2>1, <2>3
<1>4. CASE Step(t)
  <2>1. Enter(t) \/ Leave(t) \/ Unlock(t)
    BY <1>4 DEF Step, Scan, Insert, Filter, Name, Lock, ClaimToEdit, Add, Remove, CannotOpen,
                Build, ClaimToBuild, Keep, In
  <2>2. PICK r \in LogCalls : r = call[t]
    BY CallKinds, CallType
  <2>3. ~Enter(t)
    <3>1. SUFFICES ASSUME Enter(t) PROVE FALSE
      OBVIOUS
    <3> DEFINE s == sinks[r.next]
               n == r.next + 1
    <3>2. call'[t] = [r EXCEPT !.inside = s, !.next = n]
      BY <1>1, <2>2, <3>1 DEF Enter
    <3> HIDE DEF s, n
    <3>3. [r EXCEPT !.inside = s, !.next = n].op = "log"
      BY <2>2 DEF LogCalls
    <3> QED BY <1>1, <3>2, <3>3
  <2>4. ~Leave(t)
    <3>1. SUFFICES ASSUME Leave(t) PROVE FALSE
      OBVIOUS
    <3>2. call'[t] = [[r EXCEPT !.inside = Nobody] EXCEPT !.got[r.inside] = @ + 1]
      BY <1>1, <2>2, <3>1 DEF Leave, Left
    <3>3. PICK q \in LogCalls : q = [r EXCEPT !.inside = Nobody]
      BY <2>2 DEF LogCalls
    <3> DEFINE got == [q.got EXCEPT ![r.inside] = @ + 1]
    <3>4. call'[t] = [q EXCEPT !.got = got]
      BY <3>2, <3>3
    <3> HIDE DEF got
    <3>5. [q EXCEPT !.got = got].op = "log"
      BY <3>3 DEF LogCalls
    <3> QED BY <1>1, <3>4, <3>5
  <2> QED BY <2>1, <2>3, <2>4 DEF Unlock
<1>5. CASE (\E p \in Panels : Destroy(p)) \/ Rest
  BY <1>1, <1>5 DEF Destroy, Rest, vars
<1> QED BY <1>2, <1>3, <1>4, <1>5 DEF Next

\* A record is given to every sink it is owed to, once, under the name of its
\* category (logWrite).
THEOREM AlwaysDeliveredOnce == Spec => DeliveredOnce
<1> DEFINE Delivered(t) ==
        (call[t].op = "log" /\ call[t].at = "walk" /\ call'[t] = NoCall) =>
            /\ \A s \in Sinks : call[t].got[s] <= 1
            /\ \A s \in call[t].owed : call[t].got[s] = 1
            /\ call[t].name = call[t].handle.name
<1>1. ASSUME IInv, [Next]_vars PROVE [\A t \in Threads : Delivered(t)]_vars
  <2> SUFFICES ASSUME Next, NEW t \in Threads, call[t].op = "log", call[t].at = "walk",
                      call'[t] = NoCall
               PROVE  /\ \A s \in Sinks : call[t].got[s] <= 1
                      /\ \A s \in call[t].owed : call[t].got[s] = 1
                      /\ call[t].name = call[t].handle.name
    BY <1>1
  <2>1. call[t] \in LogCalls /\ call \in [Threads -> Calls]
    BY <1>1, CallKinds, CallType DEF IInv, TypeOK
  <2>2. Placed(call[t]) /\ Counted(call[t]) /\ Named(call[t])
    BY <1>1 DEF IInv, CallsOK
  <2>3. call[t].inside = Nobody /\ call[t].next \notin DOMAIN sinks
    BY <1>1, WalkEnds
  <2>4. call[t].next = Len(sinks) + 1 /\ DOMAIN sinks = 1..Len(sinks) /\ Len(sinks) \in Nat
    BY <1>1, <2>2, <2>3 DEF Placed, IInv, TypeOK
  <2>5. \A s \in Sinks : call[t].got[s] = IF \E i \in DOMAIN sinks : sinks[i] = s THEN 1 ELSE 0
    <3>1. 1..call[t].next - 1 = DOMAIN sinks
      BY <2>4
    <3>2. Nobody \notin Sinks
      BY LogAssumption DEF Sinks
    <3> QED BY <2>2, <2>3, <3>1, <3>2 DEF Counted
  <2>6. \A s \in call[t].owed : s \in Sinks /\ \E i \in DOMAIN sinks : sinks[i] = s
    BY <2>1, <2>2 DEF Named, LogCalls
  <2> QED BY <2>2, <2>5, <2>6 DEF Named
<1> QED BY <1>1, SpecInv, PTL DEF Spec, DeliveredOnce
=============================================================================
