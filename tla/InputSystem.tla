---------------------------- MODULE InputSystem ----------------------------
(***************************************************************************)
(* The action layer: raw key and button events in, named actions out       *)
(* (engine/src/Input.cpp), with the window's user and its focus.           *)
(*                                                                         *)
(* An axis is the direction its keys compose to; dead zone, sensitivity    *)
(* and normalisation are left out.  An action absent from a table of the   *)
(* code reads as the default there, so the tables are total here.          *)
(***************************************************************************)
EXTENDS Integers, Sequences, FiniteSets, SequencesExt

CONSTANTS
    Keys, Buttons,  \* physical inputs
    Unknown,        \* KeyCode::Unknown
    Actions,
    ContextKinds,   \* contexts a program may push: map and configuration
    MaxHandles      \* bound: contexts ever pushed

Inputs == Keys \cup Buttons
Axes == [action : Actions, negativeX : Keys \cup {Unknown}, positiveX : Keys \cup {Unknown},
         negativeY : Keys \cup {Unknown}, positiveY : Keys \cup {Unknown}]

ASSUME InputAssumption ==
    /\ MaxHandles \in Nat /\ Unknown \notin Keys /\ Keys \cap Buttons = {}
    /\ \A c \in ContextKinds :
         /\ DOMAIN c = {"digital", "axes", "priority", "consumes"}
         /\ c.digital \subseteq Actions \X Inputs /\ c.axes \in Seq(Axes)
         /\ c.priority \in Int /\ c.consumes \in BOOLEAN

VARIABLES
    contexts,      \* highest priority first, each with its handle
    nextHandle,
    down,          \* keysDown and buttonsDown
    accumulating,  \* edges since the last snapshot, and the level
    published,     \* what the current step sees
    focused,       \* Application::focused_
    touched,       \* what the user's fingers are on
    heard          \* what a snapshot owes each action: edges, and the last one

contextStack == <<contexts, nextHandle>>
tables == <<down, accumulating, published>>
input == <<contexts, nextHandle, down, accumulating, published, focused, touched, heard>>

Digital == [pressed : BOOLEAN, released : BOOLEAN, held : BOOLEAN]
Idle == [pressed |-> FALSE, released |-> FALSE, held |-> FALSE]
Unheard == [edges |-> {}, last |-> FALSE]

InitInput ==
    /\ contexts = << >> /\ nextHandle = 1
    /\ down = {}
    /\ accumulating = [a \in Actions |-> Idle] /\ published = [a \in Actions |-> Idle]
    /\ focused = TRUE /\ touched = {}
    /\ heard = [a \in Actions |-> Unheard]

-----------------------------------------------------------------------------
(* The context stack. *)

Outranks(c, d) == c.priority > d.priority \/ (c.priority = d.priority /\ c.handle > d.handle)

\* std::stable_sort over contexts no two of which rank alike.
Sorted(s) ==
    LET order == CHOOSE p \in [DOMAIN s -> DOMAIN s] :
                     \A i, j \in DOMAIN s : i < j => Outranks(s[p[i]], s[p[j]])
    IN  [i \in DOMAIN s |-> s[order[i]]]

Handled(kind, h) == [digital |-> kind.digital, axes |-> kind.axes, priority |-> kind.priority,
                     consumes |-> kind.consumes, handle |-> h]

PushContext(kind) ==
    /\ nextHandle <= MaxHandles
    /\ contexts' = Sorted(Append(contexts, Handled(kind, nextHandle)))
    /\ nextHandle' = nextHandle + 1
    /\ UNCHANGED <<tables, focused, touched, heard>>

\* No two contexts have one handle; an unknown one is ignored, which is no step.
RemoveContext(h) ==
    /\ \E i \in DOMAIN contexts :
           contexts[i].handle = h /\ contexts' = RemoveAt(contexts, i)
    /\ UNCHANGED <<nextHandle, tables, focused, touched, heard>>

AxisKeys(x) == {x.negativeX, x.positiveX, x.negativeY, x.positiveY}

\* The context binds the input, to an action or as a key of an axis.
Claims(c, k) ==
    \/ \E a \in Actions : <<a, k>> \in c.digital
    \/ \E i \in DOMAIN c.axes : k \in AxisKeys(c.axes[i])

\* The contexts an input is offered to: up to the first that consumes it.
Offered_All(k) == DOMAIN contexts
Offered(k) ==
    {i \in DOMAIN contexts :
        \A j \in 1..(i - 1) : ~(contexts[j].consumes /\ Claims(contexts[j], k))}

-----------------------------------------------------------------------------
(* Events, snapshots, queries. *)

ApplyDigital(state, isDown) ==
    IF isDown THEN [state EXCEPT !.pressed = TRUE, !.held = TRUE]
              ELSE [state EXCEPT !.released = TRUE, !.held = FALSE]

\* Some context entitled to the input binds it to the action: no context that
\* outranks it consumes the input.
Entitled(a, k) ==
    \E i \in DOMAIN contexts :
        /\ <<a, k>> \in contexts[i].digital
        /\ ~ \E j \in DOMAIN contexts :
               /\ Outranks(contexts[j], contexts[i])
               /\ contexts[j].consumes /\ Claims(contexts[j], k)

\* onEvent(): input k goes down or up.  A repeat is not an edge.
OnEvent(k, isDown, isRepeat) ==
    IF isDown /\ isRepeat THEN UNCHANGED <<tables, heard>>
    ELSE
        /\ down' = IF isDown THEN down \cup {k} ELSE down \ {k}
        /\ accumulating' = [a \in Actions |->
             IF \E i \in Offered(k) : <<a, k>> \in contexts[i].digital
             THEN ApplyDigital(accumulating[a], isDown) ELSE accumulating[a]]
        /\ heard' = [a \in Actions |->
             IF Entitled(a, k)
             THEN [edges |-> heard[a].edges \cup {isDown}, last |-> isDown] ELSE heard[a]]
        /\ UNCHANGED published

\* What a snapshot leaves behind.
Settled(state) == [state EXCEPT !.pressed = FALSE, !.released = FALSE]

Snapshot ==
    /\ published' = accumulating
    /\ accumulating' = [a \in Actions |-> Settled(accumulating[a])]
    /\ heard' = [a \in Actions |-> [heard[a] EXCEPT !.edges = {}]]
    /\ UNCHANGED <<contextStack, down, focused, touched>>

\* Mutant: the level of the keys survives a reset.
Cleared_Kept == down
\* Mutant: the accumulated level survives a reset.
Forgotten_Kept == accumulating
Cleared == {}
Forgotten == [a \in Actions |-> Idle]

Reset ==
    /\ down' = Cleared
    /\ accumulating' = Forgotten
    /\ published' = [a \in Actions |-> Idle]
    /\ heard' = [a \in Actions |-> Unheard]

\* axis2D(): the first context with the axis answers, unless a context that
\* binds the action and consumes comes before it.
Axis2D(a) ==
    LET On(k) == IF k \in down THEN 1 ELSE 0
        Binds(c) == \/ \E k \in Inputs : <<a, k>> \in c.digital
                    \/ \E i \in DOMAIN c.axes : c.axes[i].action = a
        Has(c) == \E i \in DOMAIN c.axes : c.axes[i].action = a
        stops == {i \in DOMAIN contexts :
                    Has(contexts[i]) \/ (contexts[i].consumes /\ Binds(contexts[i]))}
    IN  IF stops = {} THEN <<0, 0>>
        ELSE LET c == contexts[CHOOSE i \in stops : \A j \in stops : i <= j]
             IN  IF ~Has(c) THEN <<0, 0>>
                 ELSE LET x == c.axes[CHOOSE i \in DOMAIN c.axes :
                                        /\ c.axes[i].action = a
                                        /\ \A j \in 1..(i - 1) : c.axes[j].action # a]
                      IN  <<On(x.positiveX) - On(x.negativeX), On(x.positiveY) - On(x.negativeY)>>

-----------------------------------------------------------------------------
(* The user and the window.  A window without focus gets no key events. *)

Press(k) ==
    /\ k \notin touched /\ touched' = touched \cup {k}
    /\ IF focused THEN OnEvent(k, TRUE, FALSE) ELSE UNCHANGED <<tables, heard>>
    /\ UNCHANGED <<contextStack, focused>>

\* A held key repeats; one the system has forgotten may count as pressed again.
Hold(k, isRepeat) ==
    /\ focused /\ k \in touched \cap Keys /\ (isRepeat \/ k \notin down)
    /\ OnEvent(k, TRUE, isRepeat)
    /\ UNCHANGED <<contextStack, focused, touched>>

Release(k) ==
    /\ k \in touched /\ touched' = touched \ {k}
    /\ IF focused THEN OnEvent(k, FALSE, FALSE) ELSE UNCHANGED <<tables, heard>>
    /\ UNCHANGED <<contextStack, focused>>

\* Application resets the input when focus goes, not when it comes.
Focus(gained) ==
    /\ focused' = gained
    /\ IF gained THEN UNCHANGED <<tables, heard>> ELSE Reset
    /\ UNCHANGED <<contextStack, touched>>

NextInput ==
    \/ \E kind \in ContextKinds : PushContext(kind)
    \/ \E h \in 1..MaxHandles : RemoveContext(h)
    \/ \E k \in Inputs : Press(k) \/ Release(k)
    \/ \E k \in Keys, isRepeat \in BOOLEAN : Hold(k, isRepeat)
    \/ \E gained \in BOOLEAN : Focus(gained)
    \/ Snapshot

InputSpec == InitInput /\ [][NextInput]_input

-----------------------------------------------------------------------------
(* Properties. *)

\* Every variable has its type and the stack is strictly ordered by rank, the
\* order the sort in pushContext() is there to keep.
InputTypeOK ==
    /\ nextHandle \in 1..(MaxHandles + 1)
    /\ \A i \in DOMAIN contexts :
         /\ contexts[i].handle \in 1..(nextHandle - 1)
         /\ contexts[i] \in {Handled(kind, contexts[i].handle) : kind \in ContextKinds}
    /\ \A i, j \in DOMAIN contexts : i < j => Outranks(contexts[i], contexts[j])
    /\ down \subseteq Inputs /\ touched \subseteq Inputs /\ focused \in BOOLEAN
    /\ accumulating \in [Actions -> Digital] /\ published \in [Actions -> Digital]
    /\ heard \in [Actions -> [edges : SUBSET BOOLEAN, last : BOOLEAN]]

\* snapshot() publishes exactly the edges an action was entitled to since the
\* one before, a tap's press and release both, and the level its last edge left.
SnapshotIsExact ==
    [][Snapshot => \A a \in Actions :
         published'[a] = [pressed |-> TRUE \in heard[a].edges,
                          released |-> FALSE \in heard[a].edges,
                          held |-> heard[a].last]]_input

\* The level state names no key the user is not holding, and none at all while
\* the window is in the background: the reason reset() exists.
DownIsHeld == down \subseteq (IF focused THEN touched ELSE {})

\* In the background nothing is reported, however many snapshots are taken:
\* what reset() must clear is everything a later snapshot or query reads.
AwayIsSilent ==
    ~focused => \A a \in Actions : published[a] = Idle /\ Axis2D(a) = <<0, 0>>

\* The comment on onEvent(): an action whose key is down, with nothing above
\* that consumes the key, is held at the next snapshot, even when its context
\* was pushed after the key went down.
HeldFollowsKeys ==
    [][Snapshot => \A a \in Actions :
         (\E k \in down : Entitled(a, k)) => published'[a].held]_input

\* The contract of "consumes": an input a context consumes is not offered to a
\* lower one, so an axis of the lower one does not move with it.
AxisRespectsConsumption ==
    \A a \in Actions :
        Axis2D(a) # <<0, 0>> =>
            \E k \in down, i \in DOMAIN contexts :
                /\ i \in Offered(k)
                /\ \E x \in DOMAIN contexts[i].axes :
                     contexts[i].axes[x].action = a /\ k \in AxisKeys(contexts[i].axes[x])
=============================================================================
