----------------------------- MODULE LayerStack -----------------------------
(***************************************************************************)
(* The layers of an application, bottom first, with the overlays pinned    *)
(* above them (engine/src/Layer.cpp).  A layer that is in no stack does    *)
(* not exist: the stack owns what it holds.                                *)
(***************************************************************************)
EXTENDS Integers, Sequences

VARIABLES
    layers,        \* bottom first
    insert,        \* how many are not overlays
    overlayCount,
    attached       \* layers between their onAttach and their onDetach

Init == layers = << >> /\ insert = 0 /\ overlayCount = 0 /\ attached = {}

Held == {layers[i] : i \in DOMAIN layers}

Before(i) == SubSeq(layers, 1, i)
After(i) == SubSeq(layers, i + 1, Len(layers))

InsertAt == insert

Push(l) ==
    /\ l \notin Held
    /\ layers' = Before(InsertAt) \o <<l>> \o After(InsertAt)
    /\ insert' = insert + 1
    /\ attached' = attached \cup {l}
    /\ UNCHANGED overlayCount

PushOverlay(l) ==
    /\ l \notin Held
    /\ layers' = Append(layers, l)
    /\ overlayCount' = overlayCount + 1
    /\ attached' = attached \cup {l}
    /\ UNCHANGED insert

\* The i-th layer, counting from one, is above the ordinary ones.
IsOverlay(i) == i > insert

\* pop() of a layer the stack holds; of another one it does nothing.
Pop(l) ==
    \E i \in DOMAIN layers :
        /\ layers[i] = l
        /\ layers' = Before(i - 1) \o After(i)
        /\ insert' = IF IsOverlay(i) THEN insert ELSE insert - 1
        /\ overlayCount' = IF IsOverlay(i) THEN overlayCount - 1 ELSE overlayCount
        /\ attached' = attached \ {l}

\* clear() detaches one layer after the other, from the top ...
DetachNext(l) ==
    /\ \E i \in DOMAIN layers :
         layers[i] = l /\ \A j \in DOMAIN layers : layers[j] \in attached <=> j <= i
    /\ attached' = attached \ {l}
    /\ UNCHANGED <<layers, insert, overlayCount>>

\* ... and then destroys them all.
Destroy ==
    /\ attached = {}
    /\ layers' = << >> /\ insert' = 0 /\ overlayCount' = 0
    /\ UNCHANGED attached
=============================================================================
