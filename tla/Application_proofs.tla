------------------------- MODULE Application_proofs -------------------------
(***************************************************************************)
(* What the order of the frame loop is for, for any layers, modules,       *)
(* inputs, contexts and bounds: time is accounted for, an edge is seen by  *)
(* one step, followers read final transforms, overlays stay on top, and    *)
(* whatever a module is lent is there while the loop runs.  And of         *)
(* the input system: no key counts as down which nobody holds, a window in *)
(* the background reports nothing, and a snapshot publishes exactly what   *)
(* each action was entitled to hear.                                       *)
(***************************************************************************)
EXTENDS Application, SequenceTheorems, WellFoundedInduction, TLAPS

LayerNames == {"scene", "render"} \cup Panels \cup Huds

\* The loop's copy of the fixed step is the clock's while it simulates.
Timing ==
    /\ accumulator \in Nat /\ owed = accumulator /\ paused \in BOOLEAN
    /\ fixedStep \in Nat /\ fixedStep > 0
    /\ pc \in {"fixed", "fixed hook"} => step = fixedStep

\* After the first step of a frame there is no edge left to publish, since
\* events come before the steps.
Silent(table) == \A a \in Actions : ~table[a].pressed /\ ~table[a].released
Edges ==
    /\ accumulating \in [Actions -> Digital]
    /\ stepsThisFrame \in Nat
    /\ pc = "poll" => stepsThisFrame = 0
    /\ pc \in {"fixed", "fixed hook"} /\ stepsThisFrame > 0 => Silent(accumulating)
    /\ pc = "fixed hook" /\ stepsThisFrame > 1 => Silent(published)

\* The stack is what run() leaves it: nothing before and nothing after.
StackOK ==
    /\ layers \in Seq(LayerNames) /\ insert \in Nat /\ overlayCount \in Nat
    /\ StackPartitioned
Teardown ==
    /\ StackOK
    /\ LayersGoBeforeWindow
    /\ pc \in Running \cup {"clear", "window"} => window
    /\ pc \in {"new", "window", "destroy", "done"} => layers = << >>

\* A module is loaded once the scene is lent; what is lent lives.
Lending ==
    /\ pc = "new" => services = {} /\ loaded = << >>
    /\ moved \in BOOLEAN
    /\ pc \in Running => services \subseteq Alive
    /\ pc \in Running /\ (services # {} \/ loaded # << >> \/ moved) => "scene" \in services
    /\ pc = "new" => ~moved

-----------------------------------------------------------------------------
(* Sequences.                                                               *)

\* A layer put in above the ordinary ones (push).
LEMMA InsertedSound ==
  ASSUME layers \in Seq(LayerNames), insert \in 0..Len(layers), NEW l \in LayerNames
  PROVE  LET t == SubSeq(layers, 1, insert) \o <<l>> \o SubSeq(layers, insert + 1, Len(layers))
         IN  /\ t \in Seq(LayerNames) /\ Len(t) = Len(layers) + 1
             /\ \A i \in 1..Len(layers) + 1 :
                   t[i] = IF i <= insert THEN layers[i] ELSE IF i = insert + 1 THEN l ELSE layers[i - 1]
<1> DEFINE a == SubSeq(layers, 1, insert)
           b == SubSeq(layers, insert + 1, Len(layers))
<1>1. /\ a \in Seq(LayerNames) /\ Len(a) = insert
      /\ \A i \in 1..insert : a[i] = layers[i]
  OBVIOUS
<1>2. /\ b \in Seq(LayerNames) /\ Len(b) = Len(layers) - insert
      /\ \A i \in 1..Len(layers) - insert : b[i] = layers[insert + i]
  OBVIOUS
<1> HIDE DEF a, b
<1>3. /\ <<l>> \in Seq(LayerNames) /\ Len(<<l>>) = 1 /\ <<l>>[1] = l
  OBVIOUS
<1> DEFINE c == a \o <<l>>
<1>4. /\ c \in Seq(LayerNames) /\ Len(c) = insert + 1
      /\ \A i \in 1..insert + 1 : c[i] = IF i <= insert THEN layers[i] ELSE l
  BY <1>1, <1>3
<1> HIDE DEF c
<1>5. /\ c \o b \in Seq(LayerNames) /\ Len(c \o b) = Len(layers) + 1
      /\ \A i \in 1..Len(layers) + 1 : (c \o b)[i] = IF i <= insert + 1 THEN c[i] ELSE b[i - (insert + 1)]
  <2>1. /\ c \o b \in Seq(LayerNames) /\ Len(c \o b) = Len(c) + Len(b)
        /\ \A i \in 1..Len(c) + Len(b) :
              (c \o b)[i] = IF i <= Len(c) THEN c[i] ELSE b[i - Len(c)]
    BY <1>2, <1>4, ConcatProperties
  <2>2. Len(c) + Len(b) = Len(layers) + 1
    BY <1>2, <1>4
  <2> QED BY <2>1, <2>2, <1>4
<1>6. \A i \in 1..Len(layers) + 1 :
         (c \o b)[i] = IF i <= insert THEN layers[i] ELSE IF i = insert + 1 THEN l ELSE layers[i - 1]
  <2> TAKE i \in 1..Len(layers) + 1
  <2>0. i \in Int /\ insert + 1 \in Int
    OBVIOUS
  <2>1. CASE i <= insert + 1
    BY <2>1, <1>4, <1>5
  <2>2. CASE i > insert + 1
    <3>1. i - (insert + 1) \in 1..Len(layers) - insert
      BY <2>2
    <3>2. b[i - (insert + 1)] = layers[insert + (i - (insert + 1))]
      BY <3>1, <1>2
    <3> QED BY <2>2, <3>2, <1>5
  <2>3. i <= insert + 1 \/ i > insert + 1
    BY <2>0
  <2> QED BY <2>1, <2>2, <2>3
<1> QED BY <1>5, <1>6 DEF a, b, c

\* A layer taken out at k (pop).
LEMMA RemovedSound ==
  ASSUME layers \in Seq(LayerNames), NEW k \in 1..Len(layers)
  PROVE  LET t == SubSeq(layers, 1, k - 1) \o SubSeq(layers, k + 1, Len(layers))
         IN  /\ t \in Seq(LayerNames) /\ Len(t) = Len(layers) - 1
             /\ \A i \in 1..Len(layers) - 1 : t[i] = IF i < k THEN layers[i] ELSE layers[i + 1]
<1> DEFINE a == SubSeq(layers, 1, k - 1)
           b == SubSeq(layers, k + 1, Len(layers))
<1>1. /\ a \in Seq(LayerNames) /\ Len(a) = k - 1
      /\ \A i \in 1..k - 1 : a[i] = layers[i]
  OBVIOUS
<1>2. /\ b \in Seq(LayerNames) /\ Len(b) = Len(layers) - k
      /\ \A i \in 1..Len(layers) - k : b[i] = layers[k + i]
  OBVIOUS
<1> HIDE DEF a, b
<1>3. /\ a \o b \in Seq(LayerNames) /\ Len(a \o b) = Len(layers) - 1
      /\ \A i \in 1..Len(layers) - 1 : (a \o b)[i] = IF i <= k - 1 THEN a[i] ELSE b[i - (k - 1)]
  <2>1. /\ a \o b \in Seq(LayerNames) /\ Len(a \o b) = Len(a) + Len(b)
        /\ \A i \in 1..Len(a) + Len(b) :
              (a \o b)[i] = IF i <= Len(a) THEN a[i] ELSE b[i - Len(a)]
    BY <1>1, <1>2, ConcatProperties
  <2>2. Len(a) + Len(b) = Len(layers) - 1
    BY <1>1, <1>2
  <2> QED BY <2>1, <2>2, <1>1
<1>4. \A i \in 1..Len(layers) - 1 : (a \o b)[i] = IF i < k THEN layers[i] ELSE layers[i + 1]
  <2> TAKE i \in 1..Len(layers) - 1
  <2>0. i \in Int /\ k \in Int
    OBVIOUS
  <2>1. CASE i < k
    BY <2>1, <1>1, <1>3
  <2>2. CASE i >= k
    <3>1. i - (k - 1) \in 1..Len(layers) - k
      BY <2>2
    <3>2. b[i - (k - 1)] = layers[k + (i - (k - 1))]
      BY <3>1, <1>2
    <3> QED BY <2>2, <3>2, <1>3
  <2>3. i < k \/ i >= k
    BY <2>0
  <2> QED BY <2>1, <2>2, <2>3
<1> QED BY <1>3, <1>4 DEF a, b

-----------------------------------------------------------------------------
(* The layer stack.                                                         *)

LEMMA HeldLayers ==
  ASSUME StackOK
  PROVE  L!Held = {layers[i] : i \in 1..Len(layers)} /\ Len(layers) \in Nat
BY DEF StackOK, L!Held

\* An ordinary layer goes below the overlays (push).
LEMMA PushSound ==
  ASSUME StackOK, NEW l \in LayerNames, l \notin Huds, L!Push(l)
  PROVE  StackOK' /\ L!Held' = L!Held \cup {l}
<1>1. /\ insert \in 0..Len(layers) /\ layers \in Seq(LayerNames)
      /\ insert + overlayCount = Len(layers)
      /\ insert \in Nat /\ overlayCount \in Nat /\ Len(layers) \in Nat
  BY DEF StackOK, StackPartitioned
<1>2. /\ layers' \in Seq(LayerNames) /\ Len(layers') = Len(layers) + 1
      /\ \A i \in 1..Len(layers) + 1 :
            layers'[i] = IF i <= insert THEN layers[i] ELSE IF i = insert + 1 THEN l ELSE layers[i - 1]
  <2>1. layers' = SubSeq(layers, 1, insert) \o <<l>> \o SubSeq(layers, insert + 1, Len(layers))
    BY DEF L!Push, L!Before, L!After, L!InsertAt
  <2>2. LET t == SubSeq(layers, 1, insert) \o <<l>> \o SubSeq(layers, insert + 1, Len(layers))
        IN  /\ t \in Seq(LayerNames) /\ Len(t) = Len(layers) + 1
            /\ \A i \in 1..Len(layers) + 1 :
                  t[i] = IF i <= insert THEN layers[i] ELSE IF i = insert + 1 THEN l ELSE layers[i - 1]
    BY <1>1, InsertedSound
  <2> QED BY <2>1, <2>2
<1>3. insert' = insert + 1 /\ overlayCount' = overlayCount /\ l \notin L!Held
  BY DEF L!Push
<1>4. /\ \A i \in 1..Len(layers) : layers[i] \in Huds <=> i > insert
      /\ \A i, j \in 1..Len(layers) : layers[i] = layers[j] => i = j
      /\ \A i \in 1..Len(layers) : layers[i] # l
  BY <1>1, <1>3 DEF StackOK, StackPartitioned, L!Held
<1>5. DOMAIN layers' = 1..Len(layers) + 1
  BY <1>1, <1>2
<1>6. \A i \in 1..Len(layers) + 1 : layers'[i] \in Huds <=> i > insert + 1
  BY <1>1, <1>2, <1>4
<1>7. \A i, j \in 1..Len(layers) + 1 : layers'[i] = layers'[j] => i = j
  <2> TAKE i, j \in 1..Len(layers) + 1
  <2> HAVE layers'[i] = layers'[j]
  <2>1. CASE i = insert + 1
    BY <2>1, <1>1, <1>2, <1>4
  <2>2. CASE j = insert + 1
    BY <2>2, <1>1, <1>2, <1>4
  <2>3. CASE i # insert + 1 /\ j # insert + 1
    <3>1. layers'[i] = layers[IF i <= insert THEN i ELSE i - 1]
      BY <2>3, <1>1, <1>2
    <3>2. layers'[j] = layers[IF j <= insert THEN j ELSE j - 1]
      BY <2>3, <1>1, <1>2
    <3>3. /\ (IF i <= insert THEN i ELSE i - 1) \in 1..Len(layers)
          /\ (IF j <= insert THEN j ELSE j - 1) \in 1..Len(layers)
      BY <2>3, <1>1
    <3>4. (IF i <= insert THEN i ELSE i - 1) = (IF j <= insert THEN j ELSE j - 1)
      BY <3>1, <3>2, <3>3, <1>4
    <3> QED BY <3>4, <2>3, <1>1
  <2> QED BY <2>1, <2>2, <2>3
<1>8. {layers'[i] : i \in 1..Len(layers) + 1}
        = {layers[i] : i \in 1..Len(layers)} \cup {l}
  <2>1. \A i \in 1..Len(layers) + 1 :
           layers'[i] = l \/ \E j \in 1..Len(layers) : layers'[i] = layers[j]
    BY <1>1, <1>2
  <2>2. insert + 1 \in 1..Len(layers) + 1 /\ layers'[insert + 1] = l
    BY <1>1, <1>2
  <2>3. \A j \in 1..Len(layers) : \E i \in 1..Len(layers) + 1 : layers'[i] = layers[j]
    <3> TAKE j \in 1..Len(layers)
    <3>1. CASE j <= insert
      BY <3>1, <1>1, <1>2
    <3>2. CASE ~(j <= insert)
      <4>1. j + 1 \in 1..Len(layers) + 1 /\ layers'[j + 1] = layers[j]
        BY <3>2, <1>1, <1>2
      <4> QED BY <4>1
    <3> QED BY <3>1, <3>2
  <2> QED BY <2>1, <2>2, <2>3
<1>9. L!Held' = L!Held \cup {l}
  <2>1. L!Held = {layers[i] : i \in 1..Len(layers)}
    BY <1>1, HeldLayers
  <2>2. L!Held' = {layers'[i] : i \in DOMAIN layers'}
    BY DEF L!Held
  <2> QED BY <2>1, <2>2, <1>5, <1>8
<1>10. StackPartitioned'
  BY <1>1, <1>2, <1>3, <1>5, <1>6, <1>7 DEF StackPartitioned
<1> QED BY <1>1, <1>2, <1>3, <1>9, <1>10 DEF StackOK

\* An overlay goes on top (pushOverlay).
LEMMA PushOverlaySound ==
  ASSUME StackOK, NEW l \in LayerNames, l \in Huds, L!PushOverlay(l)
  PROVE  StackOK' /\ L!Held' = L!Held \cup {l}
<1>1. /\ layers \in Seq(LayerNames) /\ insert + overlayCount = Len(layers)
      /\ insert \in Nat /\ overlayCount \in Nat /\ Len(layers) \in Nat
      /\ \A i \in 1..Len(layers) : layers[i] \in Huds <=> i > insert
      /\ \A i, j \in 1..Len(layers) : layers[i] = layers[j] => i = j
      /\ \A i \in 1..Len(layers) : layers[i] # l
  BY DEF StackOK, StackPartitioned, L!Held, L!PushOverlay
<1>2. /\ layers' \in Seq(LayerNames) /\ Len(layers') = Len(layers) + 1
      /\ DOMAIN layers' = 1..Len(layers) + 1
      /\ \A i \in 1..Len(layers) + 1 :
            layers'[i] = IF i <= Len(layers) THEN layers[i] ELSE l
      /\ insert' = insert /\ overlayCount' = overlayCount + 1
  BY <1>1 DEF L!PushOverlay
<1>3. {layers'[i] : i \in 1..Len(layers) + 1}
        = {layers[i] : i \in 1..Len(layers)} \cup {l}
  <2>1. \A i \in 1..Len(layers) + 1 :
           layers'[i] = l \/ \E j \in 1..Len(layers) : layers'[i] = layers[j]
    BY <1>1, <1>2
  <2>2. Len(layers) + 1 \in 1..Len(layers) + 1 /\ layers'[Len(layers) + 1] = l
    BY <1>1, <1>2
  <2>3. \A j \in 1..Len(layers) : j \in 1..Len(layers) + 1 /\ layers'[j] = layers[j]
    BY <1>1, <1>2
  <2> QED BY <2>1, <2>2, <2>3
<1>4. \A i \in 1..Len(layers) + 1 : layers'[i] \in Huds <=> i > insert
  BY <1>1, <1>2
<1>5. \A i, j \in 1..Len(layers) + 1 : layers'[i] = layers'[j] => i = j
  BY <1>1, <1>2
<1> QED BY <1>1, <1>2, <1>3, <1>4, <1>5 DEF StackOK, StackPartitioned, L!Held

\* A layer that is taken out takes its count with it (pop).
LEMMA PopSound ==
  ASSUME StackOK, NEW l, L!Pop(l)
  PROVE  StackOK' /\ L!Held' = L!Held \ {l} /\ l \in L!Held
<1>1. /\ layers \in Seq(LayerNames) /\ insert + overlayCount = Len(layers)
      /\ insert \in Nat /\ overlayCount \in Nat /\ Len(layers) \in Nat
      /\ DOMAIN layers = 1..Len(layers)
      /\ \A i \in 1..Len(layers) : layers[i] \in Huds <=> i > insert
      /\ \A i, j \in 1..Len(layers) : layers[i] = layers[j] => i = j
  BY DEF StackOK, StackPartitioned
<1>2. PICK k \in 1..Len(layers) :
        /\ layers[k] = l
        /\ layers' = SubSeq(layers, 1, k - 1) \o SubSeq(layers, k + 1, Len(layers))
        /\ insert' = IF k > insert THEN insert ELSE insert - 1
        /\ overlayCount' = IF k > insert THEN overlayCount - 1 ELSE overlayCount
  BY <1>1 DEF L!Pop, L!Before, L!After, L!IsOverlay
<1>3. /\ layers' \in Seq(LayerNames) /\ Len(layers') = Len(layers) - 1
      /\ \A i \in 1..Len(layers) - 1 : layers'[i] = IF i < k THEN layers[i] ELSE layers[i + 1]
  BY <1>1, <1>2, RemovedSound
<1>4. /\ insert' \in Nat /\ overlayCount' \in Nat
      /\ insert' + overlayCount' = Len(layers')
  <2>0. /\ insert \in Nat /\ overlayCount \in Nat /\ Len(layers) \in Nat
        /\ insert + overlayCount = Len(layers) /\ Len(layers') = Len(layers) - 1
    BY <1>1, <1>3
  <2>1. CASE k > insert
    <3>1. insert' = insert /\ overlayCount' = overlayCount - 1 /\ overlayCount >= 1
      BY <2>1, <1>1, <1>2
    <3> QED BY <3>1, <2>0
  <2>2. CASE ~(k > insert)
    <3>1. insert' = insert - 1 /\ overlayCount' = overlayCount /\ insert >= 1
      BY <2>2, <1>1, <1>2
    <3> QED BY <3>1, <2>0
  <2> QED BY <2>1, <2>2
<1>5. DOMAIN layers' = 1..Len(layers) - 1
  BY <1>1, <1>3
<1> DEFINE Old(i) == IF i < k THEN i ELSE i + 1
<1>6. \A i \in 1..Len(layers) - 1 :
         Old(i) \in 1..Len(layers) /\ Old(i) # k /\ layers'[i] = layers[Old(i)]
  BY <1>1, <1>3
<1>7. \A i \in 1..Len(layers) - 1 : layers'[i] \in Huds <=> i > insert'
  <2> TAKE i \in 1..Len(layers) - 1
  <2>1. layers'[i] \in Huds <=> Old(i) > insert
    BY <1>1, <1>6
  <2>2. Old(i) > insert <=> i > insert'
    BY <1>1, <1>2
  <2> QED BY <2>1, <2>2
<1>8. \A i, j \in 1..Len(layers) - 1 : layers'[i] = layers'[j] => i = j
  <2> TAKE i, j \in 1..Len(layers) - 1
  <2> HAVE layers'[i] = layers'[j]
  <2>1. Old(i) = Old(j)
    BY <1>1, <1>6
  <2> QED BY <2>1, <1>1
<1>9. {layers'[i] : i \in 1..Len(layers) - 1}
        = {layers[i] : i \in 1..Len(layers)} \ {l}
  <2>1. \A i \in 1..Len(layers) - 1 :
           layers'[i] # l /\ \E j \in 1..Len(layers) : layers'[i] = layers[j]
    <3> TAKE i \in 1..Len(layers) - 1
    <3>1. layers[Old(i)] # layers[k]
      BY <1>1, <1>6
    <3> QED BY <3>1, <1>2, <1>6
  <2>2. \A j \in 1..Len(layers) : j # k => \E i \in 1..Len(layers) - 1 : layers'[i] = layers[j]
    <3> TAKE j \in 1..Len(layers)
    <3> HAVE j # k
    <3>1. CASE j < k
      BY <3>1, <1>1, <1>3
    <3>2. CASE ~(j < k)
      <4>1. j - 1 \in 1..Len(layers) - 1 /\ layers'[j - 1] = layers[j]
        BY <3>2, <1>1, <1>3
      <4> QED BY <4>1
    <3> QED BY <3>1, <3>2
  <2>3. \A j \in 1..Len(layers) : layers[j] = l <=> j = k
    BY <1>1, <1>2
  <2> DEFINE Left == {layers'[i] : i \in 1..Len(layers) - 1}
             Had == {layers[i] : i \in 1..Len(layers)}
  <2>4. Left \subseteq Had \ {l}
    BY <2>1
  <2>5. Had \ {l} \subseteq Left
    BY <2>2, <2>3
  <2> QED BY <2>4, <2>5
<1>10. l \in {layers[i] : i \in 1..Len(layers)}
  BY <1>2
<1> QED BY <1>1, <1>3, <1>4, <1>5, <1>7, <1>8, <1>9, <1>10 DEF StackOK, StackPartitioned, L!Held

-----------------------------------------------------------------------------
(* The clock.                                                               *)

\* Numbers of the clock: what is taken out of them, added to them, and between
\* which bounds a frame's time is.
LEMMA Subtracted ==
  ASSUME NEW n \in Nat, NEW m \in Nat, n >= m
  PROVE  n - m \in Nat
OBVIOUS

LEMMA Counted ==
  ASSUME NEW n \in Nat
  PROVE  n + 1 \in Nat /\ (n + 1 > 1 => n > 0)
OBVIOUS

LEMMA Clamped ==
  ASSUME NEW n \in Int, NEW m \in Nat
  PROVE  C!AtMost(m, C!AtLeast(0, n)) \in Nat
BY DEF C!AtMost, C!AtLeast

\* Only the clock's own steps change what is owed, and what is paid is what was
\* taken out of the accumulator.
LEMMA TimingInv ==
  ASSUME Timing, [Next]_vars
  PROVE  Timing'
<1> USE DEF Goto, Stay, clock, clockState, stack, input, lent, graphics, Timing
<1>1. CASE TuneClock
  <2>1. CASE C!SetPaused(~paused)
    BY <1>1, <2>1 DEF TuneClock, C!SetPaused
  <2>2. ASSUME NEW ticks \in FixedSteps, pc # "fixed hook", C!SetFixedStep(ticks)
        PROVE  Timing'
    BY <1>1, <2>2, ApplicationAssumption DEF TuneClock, C!SetFixedStep, Hooks
  <2> QED BY <1>1, <2>1, <2>2 DEF TuneClock
<1>2. CASE Event
  BY <1>2 DEF Event
<1>3. CASE Tick
  <2>1. PICK raw \in RawDeltas : C!Advance(raw)
    BY <1>3 DEF Tick
  <2>2. C!Delta(raw) \in Nat
    <3>1. raw \in Int /\ MaxDelta \in Nat
      BY ApplicationAssumption
    <3>2. C!AtMost(MaxDelta, C!AtLeast(0, raw)) \in Nat
      BY <3>1, Clamped
    <3>3. CASE paused
      BY <3>3 DEF C!Delta
    <3>4. CASE ~paused
      BY <3>2, <3>4 DEF C!Delta
    <3> QED BY <3>3, <3>4
  <2> QED BY <1>3, <2>1, <2>2 DEF Tick, C!Advance
<1>4. CASE FixedStep
  <2>1. /\ accumulator >= fixedStep /\ pc = "fixed" /\ pc' = "fixed hook"
        /\ accumulator' = accumulator - fixedStep /\ owed' = owed - step
        /\ UNCHANGED <<paused, fixedStep, step>>
    BY <1>4 DEF FixedStep, C!Consume, C!Due
  <2>2. accumulator' \in Nat /\ owed' = accumulator'
    BY <2>1, Subtracted
  <2>3. fixedStep' = fixedStep /\ step' = fixedStep' /\ paused' = paused
    BY <2>1
  <2> QED BY <2>2, <2>3
<1>5. CASE FixedDone
  BY <1>5 DEF FixedDone, C!Decline, C!Due, C!Outstanding
<1>6. CASE Run
  BY <1>6 DEF Run
<1>7. CASE RunFails
  BY <1>7 DEF RunFails
<1>8. ASSUME NEW k \in DOMAIN Modules, LoadModule(k) PROVE Timing'
  BY <1>8 DEF LoadModule
<1>9. ASSUME NEW l \in Panels \cup Huds, PushPanel(l) PROVE Timing'
  BY <1>9 DEF PushPanel
<1>10. ASSUME NEW l \in Panels \cup Huds, PushHud(l) PROVE Timing'
  BY <1>10 DEF PushHud
<1>11. ASSUME NEW l \in Panels \cup Huds, PopLayer(l) PROVE Timing'
  BY <1>11 DEF PopLayer
<1>12. CASE RequestExit
  BY <1>12 DEF RequestExit
<1>13. CASE Move
  BY <1>13 DEF Move
<1>14. CASE AddContext
  BY <1>14 DEF AddContext
<1>15. CASE PushScene
  BY <1>15 DEF PushScene
<1>16. CASE PushRender
  BY <1>16 DEF PushRender
<1>17. CASE StartupDone
  BY <1>17 DEF StartupDone
<1>18. ASSUME NEW closed \in BOOLEAN, Pumped(closed) PROVE Timing'
  BY <1>18 DEF Pumped
<1>19. CASE StepDone
  BY <1>19 DEF StepDone
<1>20. CASE UpdateModules
  BY <1>20 DEF UpdateModules
<1>21. CASE Propagate
  BY <1>21 DEF Propagate
<1>22. CASE PropagateLate
  BY <1>22 DEF PropagateLate
<1>23. ASSUME NEW spent \in BOOLEAN, EndFrame(spent) PROVE Timing'
  BY <1>23 DEF EndFrame
<1>40. CASE Rendered
  BY <1>40 DEF Rendered
<1>41. CASE LookAtModule
  BY <1>41 DEF LookAtModule
<1>24. CASE Leave
  BY <1>24 DEF Leave
<1>25. CASE Shutdown
  BY <1>25 DEF Shutdown, AfterShutdown
<1>26. ASSUME NEW l \in L!Held, Detach(l) PROVE Timing'
  BY <1>26 DEF Detach
<1>27. CASE ClearLayers
  BY <1>27 DEF ClearLayers
<1>28. CASE CloseWindow
  BY <1>28 DEF CloseWindow
<1>29. CASE Destruct
  BY <1>29 DEF Destruct
<1>30. CASE Done
  BY <1>30 DEF Done, vars
<1>31. CASE UNCHANGED vars
  BY <1>31 DEF vars
<1> QED
  BY <1>1, <1>2, <1>3, <1>4, <1>5, <1>6, <1>7, <1>8, <1>9, <1>10, <1>11, <1>12, <1>13,
     <1>14, <1>15, <1>16, <1>17, <1>18, <1>19, <1>20, <1>21, <1>22, <1>23, <1>24, <1>25,
     <1>26, <1>27, <1>28, <1>29, <1>30, <1>31, <1>40, <1>41 DEF Next, Program, LoopStep

-----------------------------------------------------------------------------
(* Edges.                                                                   *)

\* What an event makes of the state of an action, and what a snapshot leaves.
LEMMA DigitalSteps ==
  ASSUME NEW s \in Digital, NEW isDown \in BOOLEAN
  PROVE  /\ ApplyDigital(s, isDown) \in Digital /\ Settled(s) \in Digital
         /\ ~Settled(s).pressed /\ ~Settled(s).released
BY DEF ApplyDigital, Settled, Digital

LEMMA EventType ==
  ASSUME accumulating \in [Actions -> Digital], Event
  PROVE  accumulating' \in [Actions -> Digital]
<1>1. ASSUME NEW k, NEW isDown \in BOOLEAN, NEW isRepeat \in BOOLEAN, OnEvent(k, isDown, isRepeat)
      PROVE  accumulating' \in [Actions -> Digital]
  <2>1. CASE isDown /\ isRepeat
    BY <1>1, <2>1 DEF OnEvent, tables
  <2>2. CASE ~(isDown /\ isRepeat)
    <3>1. accumulating' = [a \in Actions |->
             IF \E i \in Offered(k) : <<a, k>> \in contexts[i].digital
             THEN ApplyDigital(accumulating[a], isDown) ELSE accumulating[a]]
      BY <1>1, <2>2 DEF OnEvent
    <3> QED BY <3>1, DigitalSteps
  <2> QED BY <2>1, <2>2
<1>2. ASSUME NEW k \in Keys \cup Buttons, Press(k) \/ Release(k)
      PROVE  accumulating' \in [Actions -> Digital]
  BY <1>1, <1>2 DEF Press, Release, tables
<1>3. ASSUME NEW k \in Keys, NEW isRepeat \in BOOLEAN, Hold(k, isRepeat)
      PROVE  accumulating' \in [Actions -> Digital]
  BY <1>1, <1>3 DEF Hold
<1>4. ASSUME NEW gained \in BOOLEAN, Observed(gained)
      PROVE  accumulating' \in [Actions -> Digital]
  <2>1. Forgotten \in [Actions -> Digital]
    BY DEF Forgotten, Idle, Digital
  <2> QED BY <1>4, <2>1 DEF Observed, Focus, Reset, tables
<1> QED BY <1>2, <1>3, <1>4 DEF Event

\* A snapshot takes the edges with it, and none come until the next frame.
LEMMA EdgesInv ==
  ASSUME Edges, [Next]_vars
  PROVE  Edges'
<1> USE DEF Goto, Stay, clock, clockState, stack, input, lent, graphics, Edges, Silent
<1>1. CASE TuneClock
  BY <1>1 DEF TuneClock, C!SetPaused, C!SetFixedStep
<1>2. CASE AddContext
  BY <1>2 DEF AddContext, PushContext, tables
<1>3. CASE Event
  <2>1. UNCHANGED <<pc, stepsThisFrame>> /\ pc = "poll"
    BY <1>3 DEF Event
  <2> QED BY <1>3, <2>1, EventType
<1>4. CASE Tick
  BY <1>4 DEF Tick, C!Advance
<1>5. CASE FixedStep
  <2>1. /\ stepsThisFrame' = stepsThisFrame + 1 /\ pc = "fixed" /\ pc' = "fixed hook"
        /\ published' = accumulating
        /\ accumulating' = [a \in Actions |-> Settled(accumulating[a])]
    BY <1>5 DEF FixedStep, C!Consume, View, Snapshot
  <2>2. accumulating' \in [Actions -> Digital] /\ Silent(accumulating)'
    BY <2>1, DigitalSteps
  <2>3. stepsThisFrame \in Nat /\ stepsThisFrame' = stepsThisFrame + 1
    BY <2>1
  <2>4. stepsThisFrame' \in Nat /\ (stepsThisFrame' > 1 => stepsThisFrame > 0)
    BY <2>3, Counted
  <2> QED BY <2>1, <2>2, <2>3, <2>4
<1>6. CASE FixedDone
  BY <1>6 DEF FixedDone, C!Decline
<1>7. CASE Run
  BY <1>7 DEF Run
<1>8. CASE RunFails
  BY <1>8 DEF RunFails
<1>9. ASSUME NEW k \in DOMAIN Modules, LoadModule(k) PROVE Edges'
  BY <1>9 DEF LoadModule
<1>10. ASSUME NEW l \in Panels \cup Huds, PushPanel(l) PROVE Edges'
  BY <1>10 DEF PushPanel
<1>11. ASSUME NEW l \in Panels \cup Huds, PushHud(l) PROVE Edges'
  BY <1>11 DEF PushHud
<1>12. ASSUME NEW l \in Panels \cup Huds, PopLayer(l) PROVE Edges'
  BY <1>12 DEF PopLayer
<1>13. CASE RequestExit
  BY <1>13 DEF RequestExit
<1>14. CASE Move
  BY <1>14 DEF Move
<1>15. CASE PushScene
  BY <1>15 DEF PushScene
<1>16. CASE PushRender
  BY <1>16 DEF PushRender
<1>17. CASE StartupDone
  BY <1>17 DEF StartupDone
<1>18. ASSUME NEW closed \in BOOLEAN, Pumped(closed) PROVE Edges'
  BY <1>18 DEF Pumped
<1>19. CASE StepDone
  BY <1>19 DEF StepDone
<1>20. CASE UpdateModules
  BY <1>20 DEF UpdateModules
<1>21. CASE Propagate
  BY <1>21 DEF Propagate
<1>22. CASE PropagateLate
  BY <1>22 DEF PropagateLate
<1>23. ASSUME NEW spent \in BOOLEAN, EndFrame(spent) PROVE Edges'
  BY <1>23 DEF EndFrame
<1>40. CASE Rendered
  BY <1>40 DEF Rendered
<1>41. CASE LookAtModule
  BY <1>41 DEF LookAtModule
<1>24. CASE Leave
  BY <1>24 DEF Leave
<1>25. CASE Shutdown
  BY <1>25 DEF Shutdown, AfterShutdown
<1>26. ASSUME NEW l \in L!Held, Detach(l) PROVE Edges'
  BY <1>26 DEF Detach
<1>27. CASE ClearLayers
  BY <1>27 DEF ClearLayers
<1>28. CASE CloseWindow
  BY <1>28 DEF CloseWindow
<1>29. CASE Destruct
  BY <1>29 DEF Destruct
<1>30. CASE Done
  BY <1>30 DEF Done, vars
<1>31. CASE UNCHANGED vars
  BY <1>31 DEF vars
<1> QED
  BY <1>1, <1>2, <1>3, <1>4, <1>5, <1>6, <1>7, <1>8, <1>9, <1>10, <1>11, <1>12, <1>13,
     <1>14, <1>15, <1>16, <1>17, <1>18, <1>19, <1>20, <1>21, <1>22, <1>23, <1>24, <1>25,
     <1>26, <1>27, <1>28, <1>29, <1>30, <1>31, <1>40, <1>41 DEF Next, Program, LoopStep

-----------------------------------------------------------------------------
(* The layers and the window.                                               *)

\* Layers come and go while there is a window and a frame loop, or its hooks.
LEMMA TeardownInv ==
  ASSUME Teardown, [Next]_vars
  PROVE  Teardown'
<1> USE DEF Goto, Stay, clock, clockState, stack, input, lent, graphics
<1>1. CASE Run
  BY <1>1 DEF Run, Teardown, StackOK, StackPartitioned, LayersGoBeforeWindow, L!Held, Running, Hooks
<1>2. ASSUME NEW l \in Panels \cup Huds, PushPanel(l)
       PROVE  Teardown'
  <2>1. l \in LayerNames \ Huds /\ L!Push(l) /\ pc \in Running \ {"clear"} /\ UNCHANGED <<pc, window>>
    BY <1>2, ApplicationAssumption DEF PushPanel, LayerNames, Running, Hooks
  <2> QED BY <2>1, PushSound DEF L!Push, Teardown, LayersGoBeforeWindow, Running, Hooks
<1>3. ASSUME NEW l \in Panels \cup Huds, PushHud(l)
       PROVE  Teardown'
  <2>1. l \in LayerNames /\ l \in Huds /\ L!PushOverlay(l) /\ pc \in Running \ {"clear"} /\ UNCHANGED <<pc, window>>
    BY <1>3 DEF PushHud, LayerNames, Running, Hooks
  <2> QED BY <2>1, PushOverlaySound DEF L!PushOverlay, Teardown, LayersGoBeforeWindow, Running, Hooks
<1>4. ASSUME NEW l \in Panels \cup Huds, PopLayer(l)
       PROVE  Teardown'
  <2>1. L!Pop(l) /\ pc \in Running \ {"clear"} /\ UNCHANGED <<pc, window>>
    BY <1>4 DEF PopLayer, Running, Hooks
  <2> QED BY <2>1, PopSound DEF L!Pop, Teardown, LayersGoBeforeWindow, Running, Hooks
<1>5. CASE Event
  BY <1>5 DEF Event, Teardown, StackOK, StackPartitioned, LayersGoBeforeWindow, L!Held, Running, Hooks
<1>6. CASE PushScene
  <2>1. "scene" \in LayerNames \ Huds /\ L!Push("scene") /\ pc = "startup" /\ UNCHANGED <<pc, window>>
    BY <1>6, ApplicationAssumption DEF PushScene, LayerNames
  <2> QED BY <2>1, PushSound DEF L!Push, Teardown, LayersGoBeforeWindow, Running, Hooks
<1>7. CASE PushRender
  <2>1. "render" \in LayerNames \ Huds /\ L!Push("render") /\ pc = "startup" /\ UNCHANGED <<pc, window>>
    BY <1>7, ApplicationAssumption DEF PushRender, LayerNames
  <2> QED BY <2>1, PushSound DEF L!Push, Teardown, LayersGoBeforeWindow, Running, Hooks
<1>8. CASE Shutdown
  BY <1>8 DEF Shutdown, AfterShutdown, Teardown, StackOK, StackPartitioned, LayersGoBeforeWindow, L!Held, Running, Hooks
<1>9. ASSUME NEW l \in L!Held, Detach(l)
       PROVE  Teardown'
  BY <1>9 DEF Detach, L!DetachNext, Teardown, StackOK, StackPartitioned, LayersGoBeforeWindow, L!Held, Running, Hooks
<1>10. CASE ClearLayers
  BY <1>10 DEF ClearLayers, L!Destroy, Teardown, StackOK, StackPartitioned, LayersGoBeforeWindow, L!Held, Running, Hooks
<1>11. CASE RunFails
  BY <1>11 DEF RunFails, Teardown, StackOK, StackPartitioned, LayersGoBeforeWindow, L!Held, Running, Hooks
<1>12. ASSUME NEW k \in DOMAIN Modules, LoadModule(k) PROVE Teardown'
  BY <1>12 DEF LoadModule, Teardown, StackOK, StackPartitioned, LayersGoBeforeWindow, L!Held, Running, Hooks
<1>13. CASE RequestExit
  BY <1>13 DEF RequestExit, Teardown, StackOK, StackPartitioned, LayersGoBeforeWindow, L!Held, Running, Hooks
<1>14. CASE Move
  BY <1>14 DEF Move, Teardown, StackOK, StackPartitioned, LayersGoBeforeWindow, L!Held, Running, Hooks
<1>15. CASE TuneClock
  BY <1>15 DEF TuneClock, Teardown, StackOK, StackPartitioned, LayersGoBeforeWindow, L!Held, Running, Hooks
<1>16. CASE AddContext
  BY <1>16 DEF AddContext, Teardown, StackOK, StackPartitioned, LayersGoBeforeWindow, L!Held, Running, Hooks
<1>17. CASE StartupDone
  BY <1>17 DEF StartupDone, Teardown, StackOK, StackPartitioned, LayersGoBeforeWindow, L!Held, Running, Hooks
<1>18. CASE Tick
  BY <1>18 DEF Tick, Teardown, StackOK, StackPartitioned, LayersGoBeforeWindow, L!Held, Running, Hooks
<1>19. ASSUME NEW closed \in BOOLEAN, Pumped(closed) PROVE Teardown'
  BY <1>19 DEF Pumped, Teardown, StackOK, StackPartitioned, LayersGoBeforeWindow, L!Held, Running, Hooks
<1>20. CASE FixedStep
  BY <1>20 DEF FixedStep, Teardown, StackOK, StackPartitioned, LayersGoBeforeWindow, L!Held, Running, Hooks
<1>21. CASE StepDone
  BY <1>21 DEF StepDone, Teardown, StackOK, StackPartitioned, LayersGoBeforeWindow, L!Held, Running, Hooks
<1>22. CASE FixedDone
  BY <1>22 DEF FixedDone, Teardown, StackOK, StackPartitioned, LayersGoBeforeWindow, L!Held, Running, Hooks
<1>23. CASE UpdateModules
  BY <1>23 DEF UpdateModules, Teardown, StackOK, StackPartitioned, LayersGoBeforeWindow, L!Held, Running, Hooks
<1>24. CASE Propagate
  BY <1>24 DEF Propagate, Teardown, StackOK, StackPartitioned, LayersGoBeforeWindow, L!Held, Running, Hooks
<1>25. CASE PropagateLate
  BY <1>25 DEF PropagateLate, Teardown, StackOK, StackPartitioned, LayersGoBeforeWindow, L!Held, Running, Hooks
<1>26. ASSUME NEW spent \in BOOLEAN, EndFrame(spent) PROVE Teardown'
  BY <1>26 DEF EndFrame, Teardown, StackOK, StackPartitioned, LayersGoBeforeWindow, L!Held, Running, Hooks
<1>40. CASE Rendered
  BY <1>40 DEF Rendered, Teardown, StackOK, StackPartitioned, LayersGoBeforeWindow, L!Held, Running, Hooks
<1>41. CASE LookAtModule
  BY <1>41 DEF LookAtModule, Teardown, StackOK, StackPartitioned, LayersGoBeforeWindow, L!Held, Running, Hooks
<1>27. CASE Leave
  BY <1>27 DEF Leave, Teardown, StackOK, StackPartitioned, LayersGoBeforeWindow, L!Held, Running, Hooks
<1>28. CASE CloseWindow
  BY <1>28 DEF CloseWindow, Teardown, StackOK, StackPartitioned, LayersGoBeforeWindow, L!Held, Running, Hooks
<1>29. CASE Destruct
  BY <1>29 DEF Destruct, Teardown, StackOK, StackPartitioned, LayersGoBeforeWindow, L!Held, Running, Hooks
<1>30. CASE Done
  BY <1>30 DEF Done, vars, Teardown, StackOK, StackPartitioned, LayersGoBeforeWindow, L!Held, Running, Hooks
<1>31. CASE UNCHANGED vars
  BY <1>31 DEF vars, Teardown, StackOK, StackPartitioned, LayersGoBeforeWindow, L!Held, Running, Hooks
<1> QED
  BY <1>1, <1>2, <1>3, <1>4, <1>5, <1>6, <1>7, <1>8, <1>9, <1>10, <1>11, <1>12, <1>13,
     <1>14, <1>15, <1>16, <1>17, <1>18, <1>19, <1>20, <1>21, <1>22, <1>23, <1>24, <1>25,
     <1>26, <1>27, <1>28, <1>29, <1>30, <1>31, <1>40, <1>41 DEF Next, Program, LoopStep

-----------------------------------------------------------------------------
(* What modules are lent.                                                   *)

\* What is lent is the scene, and the device where there is one; neither goes
\* while the loop runs.
LEMMA LendingInv ==
  ASSUME Lending, Teardown, [Next]_vars
  PROVE  Lending'
<1> USE DEF Goto, Stay, clock, clockState, stack, input, lent, graphics
<1>1. ASSUME NEW k \in DOMAIN Modules, LoadModule(k)
       PROVE  Lending'
  BY <1>1 DEF LoadModule, Lending, Alive, L!Held, Running, Hooks
<1>2. ASSUME NEW l \in Panels \cup Huds, PushPanel(l)
       PROVE  Lending'
  <2>1. l \in LayerNames \ Huds /\ L!Push(l)
    BY <1>2, ApplicationAssumption DEF PushPanel, LayerNames
  <2>2. L!Held \subseteq L!Held'
    BY <2>1, PushSound DEF Teardown
  <2> QED BY <1>2, <2>2 DEF PushPanel, Lending, Alive, Running, Hooks
<1>3. ASSUME NEW l \in Panels \cup Huds, PushHud(l)
       PROVE  Lending'
  <2>1. l \in LayerNames /\ l \in Huds /\ L!PushOverlay(l)
    BY <1>3 DEF PushHud, LayerNames
  <2>2. L!Held \subseteq L!Held'
    BY <2>1, PushOverlaySound DEF Teardown
  <2> QED BY <1>3, <2>2 DEF PushHud, Lending, Alive, Running, Hooks
<1>4. ASSUME NEW l \in Panels \cup Huds, PopLayer(l)
       PROVE  Lending'
  <2>1. L!Pop(l) /\ l # "scene"
    BY <1>4, ApplicationAssumption DEF PopLayer
  <2>2. "scene" \in L!Held => "scene" \in L!Held'
    BY <2>1, PopSound DEF Teardown
  <2> QED BY <1>4, <2>2 DEF PopLayer, Lending, Alive, Running, Hooks
<1>5. CASE Move
  BY <1>5 DEF Move, Lending, Alive, L!Held, Running, Hooks
<1>6. CASE PushScene
  <2>1. "scene" \in LayerNames \ Huds /\ L!Push("scene")
    BY <1>6, ApplicationAssumption DEF PushScene, LayerNames
  <2>2. L!Held \subseteq L!Held'
    BY <2>1, PushSound DEF Teardown
  <2> QED BY <1>6, <2>2 DEF PushScene, Lending, Alive, Running, Hooks
<1>7. CASE PushRender
  <2>1. "render" \in LayerNames \ Huds /\ L!Push("render") /\ layers = <<"scene">>
    BY <1>7, ApplicationAssumption DEF PushRender, LayerNames
  <2>2. L!Held \subseteq L!Held'
    BY <2>1, PushSound DEF Teardown
  <2>3. "scene" \in L!Held
    BY <2>1 DEF L!Held
  <2> QED BY <1>7, <2>2, <2>3 DEF PushRender, Lendable, Lending, Alive, Running, Hooks
<1>8. CASE Propagate
  BY <1>8 DEF Propagate, Propagated, Lending, Alive, L!Held, Running, Hooks
<1>9. CASE PropagateLate
  BY <1>9 DEF PropagateLate, Propagated, Lending, Alive, L!Held, Running, Hooks
<1>10. CASE Shutdown
  BY <1>10 DEF Shutdown, AfterShutdown, Lending, Alive, L!Held, Running, Hooks
<1>11. CASE ClearLayers
  BY <1>11 DEF ClearLayers, Lending, Alive, L!Held, Running, Hooks
<1>12. CASE Destruct
  BY <1>12 DEF Destruct, H!Stop, Lending, Alive, L!Held, Running, Hooks
<1>13. CASE Run
  BY <1>13 DEF Run, Lending, Alive, L!Held, Running, Hooks
<1>14. CASE RunFails
  BY <1>14 DEF RunFails, Lending, Alive, L!Held, Running, Hooks
<1>15. CASE RequestExit
  BY <1>15 DEF RequestExit, Lending, Alive, L!Held, Running, Hooks
<1>16. CASE TuneClock
  BY <1>16 DEF TuneClock, Lending, Alive, L!Held, Running, Hooks
<1>17. CASE AddContext
  BY <1>17 DEF AddContext, Lending, Alive, L!Held, Running, Hooks
<1>18. CASE Event
  BY <1>18 DEF Event, Lending, Alive, L!Held, Running, Hooks
<1>19. CASE StartupDone
  BY <1>19 DEF StartupDone, Lending, Alive, L!Held, Running, Hooks
<1>20. CASE Tick
  BY <1>20 DEF Tick, Lending, Alive, L!Held, Running, Hooks
<1>21. ASSUME NEW closed \in BOOLEAN, Pumped(closed) PROVE Lending'
  BY <1>21 DEF Pumped, Lending, Alive, L!Held, Running, Hooks
<1>22. CASE FixedStep
  BY <1>22 DEF FixedStep, Lending, Alive, L!Held, Running, Hooks
<1>23. CASE StepDone
  BY <1>23 DEF StepDone, Lending, Alive, L!Held, Running, Hooks
<1>24. CASE FixedDone
  BY <1>24 DEF FixedDone, Lending, Alive, L!Held, Running, Hooks
<1>25. CASE UpdateModules
  BY <1>25 DEF UpdateModules, Lending, Alive, L!Held, Running, Hooks
<1>26. ASSUME NEW spent \in BOOLEAN, EndFrame(spent) PROVE Lending'
  BY <1>26 DEF EndFrame, Lending, Alive, L!Held, Running, Hooks
<1>40. CASE Rendered
  BY <1>40 DEF Rendered, Lending, Alive, L!Held, Running, Hooks
<1>41. CASE LookAtModule
  <2>1. UNCHANGED <<pc, services, layers, device>> /\ pc = "safe point" /\ loaded # << >>
    <3>1. DOMAIN << >> = {}
      OBVIOUS
    <3> QED BY <1>41, <3>1 DEF LookAtModule
  <2>2. moved' \in BOOLEAN
    BY <1>41 DEF LookAtModule, Lending
  <2> QED BY <2>1, <2>2 DEF Lending, Alive, L!Held, Running, Hooks
<1>27. CASE Leave
  BY <1>27 DEF Leave, Lending, Alive, L!Held, Running, Hooks
<1>28. ASSUME NEW l \in L!Held, Detach(l) PROVE Lending'
  BY <1>28 DEF Detach, Lending, Alive, L!Held, Running, Hooks
<1>29. CASE CloseWindow
  BY <1>29 DEF CloseWindow, Lending, Alive, L!Held, Running, Hooks
<1>30. CASE Done
  BY <1>30 DEF Done, vars, Lending, Alive, L!Held, Running, Hooks
<1>31. CASE UNCHANGED vars
  BY <1>31 DEF vars, Lending, Alive, L!Held, Running, Hooks
<1> QED
  BY <1>1, <1>2, <1>3, <1>4, <1>5, <1>6, <1>7, <1>8, <1>9, <1>10, <1>11, <1>12, <1>13,
     <1>14, <1>15, <1>16, <1>17, <1>18, <1>19, <1>20, <1>21, <1>22, <1>23, <1>24, <1>25,
     <1>26, <1>27, <1>28, <1>29, <1>30, <1>31, <1>40, <1>41 DEF Next, Program, LoopStep

-----------------------------------------------------------------------------
(* The specification.                                                       *)

IInv == Timing /\ Edges /\ Teardown /\ Lending

LEMMA InitInv == Init => IInv
<1> SUFFICES ASSUME Init PROVE IInv
  OBVIOUS
<1> USE DEF Init
<1>1. Timing
  <2>1. paused = FALSE /\ fixedStep = 1 /\ accumulator = 0 /\ owed = 0 /\ pc = "new"
    BY DEF C!Init
  <2>2. accumulator \in Nat /\ owed = accumulator
    BY <2>1
  <2>3. paused \in BOOLEAN
    BY <2>1
  <2>4. fixedStep \in Nat
    BY <2>1
  <2>5. fixedStep > 0
    BY <2>1
  <2>6. pc \in {"fixed", "fixed hook"} => step = fixedStep
    BY <2>1
  <2> QED BY <2>2, <2>3, <2>4, <2>5, <2>6 DEF Timing
<1>2. Edges
  BY DEF C!Init, InitInput, Idle, Digital, Edges
<1>3. Teardown
  BY DEF L!Init, Teardown, StackOK, StackPartitioned, LayersGoBeforeWindow, L!Held, Running, Hooks
<1>4. Lending
  BY DEF H!Init, Lending, Running, Hooks
<1> QED BY <1>1, <1>2, <1>3, <1>4 DEF IInv

LEMMA SpecInv == Spec => []IInv
<1>1. IInv /\ [Next]_vars => IInv'
  BY TimingInv, EdgesInv, TeardownInv, LendingInv DEF IInv
<1> QED BY <1>1, InitInv, PTL DEF Spec

\* The loop of the steps is left with less than one step owed, or with the debt
\* dropped.
LEMMA DebtPaid ==
  ASSUME Timing, [Next]_vars
  PROVE  ((pc = "fixed" /\ pc' = "layers") => accumulator' < fixedStep)
<1> USE DEF Goto, Stay, clock, clockState, stack, input, lent, graphics
<1>1. CASE Event
  BY <1>1 DEF Event
<1>2. CASE StepDone
  BY <1>2 DEF StepDone
<1>3. CASE FixedDone
  BY <1>3 DEF FixedDone, C!Decline, C!Due, C!Outstanding, Timing
<1>4. CASE Run
  BY <1>4 DEF Run
<1>5. CASE RunFails
  BY <1>5 DEF RunFails
<1>6. ASSUME NEW k \in DOMAIN Modules, LoadModule(k) PROVE ((pc = "fixed" /\ pc' = "layers") => accumulator' < fixedStep)
  BY <1>6 DEF LoadModule
<1>7. ASSUME NEW l \in Panels \cup Huds, PushPanel(l) PROVE ((pc = "fixed" /\ pc' = "layers") => accumulator' < fixedStep)
  BY <1>7 DEF PushPanel
<1>8. ASSUME NEW l \in Panels \cup Huds, PushHud(l) PROVE ((pc = "fixed" /\ pc' = "layers") => accumulator' < fixedStep)
  BY <1>8 DEF PushHud
<1>9. ASSUME NEW l \in Panels \cup Huds, PopLayer(l) PROVE ((pc = "fixed" /\ pc' = "layers") => accumulator' < fixedStep)
  BY <1>9 DEF PopLayer
<1>10. CASE RequestExit
  BY <1>10 DEF RequestExit
<1>11. CASE Move
  BY <1>11 DEF Move
<1>12. CASE TuneClock
  BY <1>12 DEF TuneClock
<1>13. CASE AddContext
  BY <1>13 DEF AddContext
<1>14. CASE PushScene
  BY <1>14 DEF PushScene
<1>15. CASE PushRender
  BY <1>15 DEF PushRender
<1>16. CASE StartupDone
  BY <1>16 DEF StartupDone
<1>17. CASE Tick
  BY <1>17 DEF Tick
<1>18. ASSUME NEW closed \in BOOLEAN, Pumped(closed) PROVE ((pc = "fixed" /\ pc' = "layers") => accumulator' < fixedStep)
  BY <1>18 DEF Pumped
<1>19. CASE FixedStep
  BY <1>19 DEF FixedStep
<1>20. CASE UpdateModules
  BY <1>20 DEF UpdateModules
<1>21. CASE Propagate
  BY <1>21 DEF Propagate
<1>22. CASE PropagateLate
  BY <1>22 DEF PropagateLate
<1>23. ASSUME NEW spent \in BOOLEAN, EndFrame(spent) PROVE ((pc = "fixed" /\ pc' = "layers") => accumulator' < fixedStep)
  BY <1>23 DEF EndFrame
<1>40. CASE Rendered
  BY <1>40 DEF Rendered
<1>41. CASE LookAtModule
  BY <1>41 DEF LookAtModule
<1>24. CASE Leave
  BY <1>24 DEF Leave
<1>25. CASE Shutdown
  BY <1>25 DEF Shutdown, AfterShutdown
<1>26. ASSUME NEW l \in L!Held, Detach(l) PROVE ((pc = "fixed" /\ pc' = "layers") => accumulator' < fixedStep)
  BY <1>26 DEF Detach
<1>27. CASE ClearLayers
  BY <1>27 DEF ClearLayers
<1>28. CASE CloseWindow
  BY <1>28 DEF CloseWindow
<1>29. CASE Destruct
  BY <1>29 DEF Destruct
<1>30. CASE Done
  BY <1>30 DEF Done, vars
<1>31. CASE UNCHANGED vars
  BY <1>31 DEF vars
<1> QED
  BY <1>1, <1>2, <1>3, <1>4, <1>5, <1>6, <1>7, <1>8, <1>9, <1>10, <1>11, <1>12, <1>13,
     <1>14, <1>15, <1>16, <1>17, <1>18, <1>19, <1>20, <1>21, <1>22, <1>23, <1>24, <1>25,
     <1>26, <1>27, <1>28, <1>29, <1>30, <1>31, <1>40, <1>41 DEF Next, Program, LoopStep

\* The two hooks that follow a pass are entered by that pass only.
LEMMA PassBefore ==
  ASSUME Lending, [Next]_vars
  PROVE  ((pc' # pc /\ pc' \in {"late", "render"}) => moved' = FALSE)
<1> USE DEF Goto, Stay, clock, clockState, stack, input, lent, graphics
<1>1. CASE Propagate
  BY <1>1 DEF Propagate, Propagated, Lending, Running, Hooks
<1>2. CASE PropagateLate
  BY <1>2 DEF PropagateLate, Propagated, Lending, Running, Hooks
<1>3. CASE Shutdown
  BY <1>3 DEF Shutdown, AfterShutdown
<1>4. CASE Run
  BY <1>4 DEF Run
<1>5. CASE RunFails
  BY <1>5 DEF RunFails
<1>6. ASSUME NEW k \in DOMAIN Modules, LoadModule(k) PROVE ((pc' # pc /\ pc' \in {"late", "render"}) => moved' = FALSE)
  BY <1>6 DEF LoadModule
<1>7. ASSUME NEW l \in Panels \cup Huds, PushPanel(l) PROVE ((pc' # pc /\ pc' \in {"late", "render"}) => moved' = FALSE)
  BY <1>7 DEF PushPanel
<1>8. ASSUME NEW l \in Panels \cup Huds, PushHud(l) PROVE ((pc' # pc /\ pc' \in {"late", "render"}) => moved' = FALSE)
  BY <1>8 DEF PushHud
<1>9. ASSUME NEW l \in Panels \cup Huds, PopLayer(l) PROVE ((pc' # pc /\ pc' \in {"late", "render"}) => moved' = FALSE)
  BY <1>9 DEF PopLayer
<1>10. CASE RequestExit
  BY <1>10 DEF RequestExit
<1>11. CASE Move
  BY <1>11 DEF Move
<1>12. CASE TuneClock
  BY <1>12 DEF TuneClock
<1>13. CASE AddContext
  BY <1>13 DEF AddContext
<1>14. CASE Event
  BY <1>14 DEF Event
<1>15. CASE PushScene
  BY <1>15 DEF PushScene
<1>16. CASE PushRender
  BY <1>16 DEF PushRender
<1>17. CASE StartupDone
  BY <1>17 DEF StartupDone
<1>18. CASE Tick
  BY <1>18 DEF Tick
<1>19. ASSUME NEW closed \in BOOLEAN, Pumped(closed) PROVE ((pc' # pc /\ pc' \in {"late", "render"}) => moved' = FALSE)
  BY <1>19 DEF Pumped
<1>20. CASE FixedStep
  BY <1>20 DEF FixedStep
<1>21. CASE StepDone
  BY <1>21 DEF StepDone
<1>22. CASE FixedDone
  BY <1>22 DEF FixedDone
<1>23. CASE UpdateModules
  BY <1>23 DEF UpdateModules
<1>24. ASSUME NEW spent \in BOOLEAN, EndFrame(spent) PROVE ((pc' # pc /\ pc' \in {"late", "render"}) => moved' = FALSE)
  BY <1>24 DEF EndFrame
<1>40. CASE Rendered
  BY <1>40 DEF Rendered
<1>41. CASE LookAtModule
  BY <1>41 DEF LookAtModule
<1>25. CASE Leave
  BY <1>25 DEF Leave
<1>26. ASSUME NEW l \in L!Held, Detach(l) PROVE ((pc' # pc /\ pc' \in {"late", "render"}) => moved' = FALSE)
  BY <1>26 DEF Detach
<1>27. CASE ClearLayers
  BY <1>27 DEF ClearLayers
<1>28. CASE CloseWindow
  BY <1>28 DEF CloseWindow
<1>29. CASE Destruct
  BY <1>29 DEF Destruct
<1>30. CASE Done
  BY <1>30 DEF Done, vars
<1>31. CASE UNCHANGED vars
  BY <1>31 DEF vars
<1> QED
  BY <1>1, <1>2, <1>3, <1>4, <1>5, <1>6, <1>7, <1>8, <1>9, <1>10, <1>11, <1>12, <1>13,
     <1>14, <1>15, <1>16, <1>17, <1>18, <1>19, <1>20, <1>21, <1>22, <1>23, <1>24, <1>25,
     <1>26, <1>27, <1>28, <1>29, <1>30, <1>31, <1>40, <1>41 DEF Next, Program, LoopStep

-----------------------------------------------------------------------------
(* The theorems.                                                            *)

\* Simulated time is game time at any length of frames and steps, and no frame
\* leaves the loop with a whole step of debt (Time.cpp, consumeFixedStep).
THEOREM TimeAlwaysAccounted == Spec => TimeAccounted
<1>1. IInv => owed = accumulator
  BY DEF IInv, Timing
<1>2. IInv /\ [Next]_vars => [pc = "fixed" /\ pc' = "layers" => accumulator' < fixedStep]_vars
  BY DebtPaid DEF IInv
<1> QED BY <1>1, <1>2, SpecInv, PTL DEF Spec, TimeAccounted

\* However many steps a frame runs, an edge is seen by the first of them only
\* (Application.cpp, the snapshot before each step).
THEOREM EdgesAlwaysSeenByOneStep == Spec => []EdgesSeenByOneStep
<1>1. IInv => EdgesSeenByOneStep
  BY DEF IInv, Edges, EdgesSeenByOneStep, Silent
<1> QED BY <1>1, SpecInv, PTL

\* The late update and the rendering begin with every transform of the lent
\* scene final, whoever moved it (Application.cpp, the two passes).
THEOREM FollowersAlwaysReadFinal == Spec => FollowersReadFinalTransforms
<1>1. IInv /\ [Next]_vars =>
        [pc' # pc /\ pc' \in {"late", "render"} => moved' = FALSE]_vars
  BY PassBefore DEF IInv
<1> QED BY <1>1, SpecInv, PTL DEF Spec, FollowersReadFinalTransforms

\* Overlays stay on top, each layer is there once, and none outlives its
\* detachment or the window (LayerStack, Application::run).
THEOREM LayersAlwaysInPlace == Spec => [](StackPartitioned /\ LayersGoBeforeWindow)
<1>1. IInv => StackPartitioned /\ LayersGoBeforeWindow
  BY DEF IInv, Teardown, StackOK
<1> QED BY <1>1, SpecInv, PTL

\* From onStartup to the return of onShutdown no entry point of a module and no
\* propagation pass meets a service that is gone, for any modules, layers that
\* come and go, and exits in mid-frame (setServices, Application::run).
THEOREM ServicesAlwaysOutliveFrames == Spec => []ServicesOutliveFrames
<1>1. IInv => ServicesOutliveFrames
  BY DEF IInv, Lending, ServicesOutliveFrames
<1> QED BY <1>1, SpecInv, PTL
-----------------------------------------------------------------------------
(* The input system, whatever drives it: its levels name what is held, and a *)
(* window in the background reports nothing.                                *)

\* In the background there is nothing left to publish either: what reset()
\* clears is what the next snapshot would bring back.
Quiet == ~focused => \A a \in Actions : accumulating[a] = Idle /\ published[a] = Idle

LevelsType ==
    /\ focused \in BOOLEAN /\ down \subseteq Inputs /\ touched \subseteq Inputs
    /\ accumulating \in [Actions -> Digital] /\ published \in [Actions -> Digital]

LevelsInv == LevelsType /\ DownIsHeld /\ Quiet

LEMMA Least ==
  ASSUME NEW S \in SUBSET Nat, S # {}
  PROVE  \E n \in S : \A m \in S : ~(m < n)
<1> DEFINE R == OpToRel(<, Nat)
<1>1. IsWellFoundedOn(R, Nat)
  BY NatLessThanWellFounded
<1> HIDE DEF R
<1>2. \E n \in S : \A m \in S : <<m, n>> \notin R
  BY <1>1, WFMin
<1> QED BY <1>2 DEF R, OpToRel

LEMMA InitLevels == InitInput => LevelsInv
BY DEF InitInput, LevelsInv, LevelsType, DownIsHeld, Quiet, Idle, Digital

\* What an event makes of an action, and what a snapshot leaves of it.
LEMMA StateType ==
  ASSUME NEW s \in Digital, NEW isDown \in BOOLEAN
  PROVE  ApplyDigital(s, isDown) \in Digital /\ Settled(s) \in Digital
BY DEF ApplyDigital, Settled, Digital

LEMMA SettledIdle == Settled(Idle) = Idle
<1>1. PICK s \in Digital : s = Idle
  BY DEF Digital, Idle
<1>2. PICK r \in Digital : r = Settled(s)
  BY StateType
<1>3. r.pressed = FALSE /\ r.released = FALSE /\ r.held = s.held
  BY <1>2 DEF Settled, Digital
<1>4. s.pressed = FALSE /\ s.released = FALSE
  BY <1>1 DEF Idle
<1> QED BY <1>1, <1>2, <1>3, <1>4 DEF Digital

\* An event reaches the tables only in a window that has focus.
LEMMA EventInv ==
  ASSUME LevelsInv, focused, NEW k \in Inputs, NEW isDown \in BOOLEAN, NEW isRepeat \in BOOLEAN,
         OnEvent(k, isDown, isRepeat), UNCHANGED focused,
         touched' \in SUBSET Inputs,
         isDown => touched \union {k} \subseteq touched', touched \ {k} \subseteq touched'
  PROVE  LevelsInv'
<1>1. CASE isDown /\ isRepeat
  BY <1>1 DEF OnEvent, tables, LevelsInv, LevelsType, DownIsHeld, Quiet
<1>2. CASE ~(isDown /\ isRepeat)
  <2>1. /\ down' = IF isDown THEN down \cup {k} ELSE down \ {k}
        /\ accumulating' = [a \in Actions |->
               IF \E i \in Offered(k) : <<a, k>> \in contexts[i].digital
               THEN ApplyDigital(accumulating[a], isDown) ELSE accumulating[a]]
        /\ UNCHANGED published
    BY <1>2 DEF OnEvent
  <2>2. accumulating' \in [Actions -> Digital]
    BY <2>1, StateType DEF LevelsInv, LevelsType
  <2> QED BY <2>1, <2>2 DEF LevelsInv, LevelsType, DownIsHeld, Quiet
<1> QED BY <1>1, <1>2

LEMMA NextLevels == LevelsInv /\ [NextInput]_input => LevelsInv'
<1> SUFFICES ASSUME LevelsInv, [NextInput]_input PROVE LevelsInv'
  OBVIOUS
<1>1. CASE (\E kind \in ContextKinds : PushContext(kind)) \/ \E h \in 1..MaxHandles : RemoveContext(h)
  BY <1>1 DEF PushContext, RemoveContext, tables, LevelsInv, LevelsType, DownIsHeld, Quiet
<1>2. ASSUME NEW k \in Inputs, Press(k) PROVE LevelsInv'
  <2>1. CASE focused
    BY <1>2, <2>1, EventInv DEF Press, LevelsInv, LevelsType
  <2>2. CASE ~focused
    BY <1>2, <2>2 DEF Press, tables, LevelsInv, LevelsType, DownIsHeld, Quiet
  <2> QED BY <2>1, <2>2
<1>3. ASSUME NEW k \in Inputs, Release(k) PROVE LevelsInv'
  <2>1. CASE focused
    BY <1>3, <2>1, EventInv DEF Release, LevelsInv, LevelsType
  <2>2. CASE ~focused
    BY <1>3, <2>2 DEF Release, tables, LevelsInv, LevelsType, DownIsHeld, Quiet
  <2> QED BY <2>1, <2>2
<1>4. ASSUME NEW k \in Keys, NEW isRepeat \in BOOLEAN, Hold(k, isRepeat) PROVE LevelsInv'
  <2>1. k \in Inputs
    BY DEF Inputs
  <2> QED BY <1>4, <2>1, EventInv DEF Hold, LevelsInv, LevelsType
<1>5. ASSUME NEW gained \in BOOLEAN, Focus(gained) PROVE LevelsInv'
  <2>1. CASE gained
    BY <1>5, <2>1 DEF Focus, tables, LevelsInv, LevelsType, DownIsHeld, Quiet
  <2>2. CASE ~gained
    <3>1. /\ focused' = FALSE /\ down' = {} /\ touched' = touched
          /\ accumulating' = [a \in Actions |-> Idle] /\ published' = [a \in Actions |-> Idle]
      BY <1>5, <2>2 DEF Focus, Reset, Cleared, Forgotten
    <3>2. Idle \in Digital
      BY DEF Idle, Digital
    <3> QED BY <3>1, <3>2 DEF LevelsInv, LevelsType, DownIsHeld, Quiet
  <2> QED BY <2>1, <2>2
<1>6. CASE Snapshot
  <2>1. accumulating' \in [Actions -> Digital]
    BY <1>6, StateType DEF Snapshot, LevelsInv, LevelsType
  <2>2. ~focused => \A a \in Actions : accumulating'[a] = Idle
    BY <1>6, SettledIdle DEF Snapshot, LevelsInv, Quiet
  <2> QED BY <1>6, <2>1, <2>2 DEF Snapshot, LevelsInv, LevelsType, DownIsHeld, Quiet
<1>7. CASE UNCHANGED input
  BY <1>7 DEF input, LevelsInv, LevelsType, DownIsHeld, Quiet
<1> QED BY <1>1, <1>2, <1>3, <1>4, <1>5, <1>6, <1>7 DEF NextInput

LEMMA SpecLevels == InputSpec => []LevelsInv
BY InitLevels, NextLevels, PTL DEF InputSpec

\* The level of the keys names none the user is not holding, and none in a
\* window without focus (onEvent, reset).
THEOREM DownAlwaysHeld == InputSpec => []DownIsHeld
<1>1. LevelsInv => DownIsHeld
  BY DEF LevelsInv
<1> QED BY <1>1, SpecLevels, PTL

\* Without focus no action has an edge or is held, and every axis is at rest,
\* however many snapshots are taken (reset, snapshot, axis2D).
THEOREM AwayAlwaysSilent == InputSpec => []AwayIsSilent
<1>1. ASSUME down = {}, NEW a \in Actions PROVE Axis2D(a) = <<0, 0>>
  <2> DEFINE On(k) == IF k \in down THEN 1 ELSE 0
  <2>1. \A k, l : On(k) - On(l) = 0
    BY <1>1
  <2> HIDE DEF On
  <2> QED BY <2>1 DEF Axis2D, On
<1>2. LevelsInv => AwayIsSilent
  <2>1. LevelsInv /\ ~focused => down = {} /\ \A a \in Actions : published[a] = Idle
    BY DEF LevelsInv, DownIsHeld, Quiet
  <2> QED BY <1>1, <2>1 DEF AwayIsSilent
<1> QED BY <1>2, SpecLevels, PTL
-----------------------------------------------------------------------------
(* The stack is in the order of rank, so that a place in it says what comes  *)
(* before.                                                                 *)

ContextEntries == {Handled(kind, h) : kind \in ContextKinds, h \in Nat}

Ranked == \A i, j \in DOMAIN contexts : i < j => Outranks(contexts[i], contexts[j])

StackInv ==
    /\ contexts \in Seq(ContextEntries) /\ nextHandle \in Nat
    /\ \A i \in DOMAIN contexts : contexts[i].handle < nextHandle
    /\ Ranked

LEMMA EntryType ==
  ASSUME NEW c \in ContextEntries
  PROVE  c.priority \in Int /\ c.handle \in Nat
BY InputAssumption DEF ContextEntries, Handled

LEMMA StrictOrder ==
  ASSUME NEW c \in ContextEntries, NEW d \in ContextEntries, NEW e \in ContextEntries
  PROVE  /\ ~(Outranks(c, d) /\ Outranks(d, c))
         /\ Outranks(c, d) /\ Outranks(d, e) => Outranks(c, e)
         /\ c.handle # d.handle => Outranks(c, d) \/ Outranks(d, c)
BY EntryType DEF Outranks

\* A sorted stack with one more at its end can be put in order: those that
\* outrank the new one come first.
LEMMA OneMore ==
  ASSUME NEW s \in Seq(ContextEntries), NEW c \in ContextEntries,
         \A i, j \in DOMAIN s : i < j => Outranks(s[i], s[j]),
         \A i \in DOMAIN s : s[i].handle # c.handle
  PROVE  \E p \in [DOMAIN Append(s, c) -> DOMAIN Append(s, c)] :
             \A i, j \in DOMAIN Append(s, c) :
                 i < j => Outranks(Append(s, c)[p[i]], Append(s, c)[p[j]])
<1> DEFINE n == Len(s)
           all == Append(s, c)
           after == {i \in 1..n : Outranks(c, s[i])} \union {n + 1}
<1>1. /\ n \in Nat /\ DOMAIN s = 1..n /\ DOMAIN all = 1..(n + 1)
      /\ all[n + 1] = c /\ \A i \in 1..n : all[i] = s[i] /\ s[i] \in ContextEntries
  OBVIOUS
<1>2. PICK k \in after : \A i \in after : ~(i < k)
  <2>1. after \in SUBSET Nat /\ after # {}
    BY <1>1
  <2> HIDE DEF after
  <2> QED BY <2>1, Least
<1>3. k \in 1..(n + 1)
  BY <1>1
<1> DEFINE p == [i \in 1..(n + 1) |-> IF i < k THEN i ELSE IF i = k THEN n + 1 ELSE i - 1]
<1>4. p \in [1..(n + 1) -> 1..(n + 1)]
  BY <1>1, <1>3
\* Before the place all outrank the new one, from it on the new one outranks all.
<1>5. ASSUME NEW i \in 1..n, i < k PROVE Outranks(s[i], c)
  <2>1. ~Outranks(c, s[i])
    BY <1>2, <1>5
  <2> QED BY <1>1, <2>1, StrictOrder
<1>6. ASSUME NEW i \in 1..n, ~(i < k) PROVE Outranks(c, s[i])
  <2>1. k \in 1..n /\ Outranks(c, s[k])
    BY <1>1, <1>2, <1>3, <1>6
  <2>2. CASE i = k
    BY <2>1, <2>2
  <2>3. CASE i # k
    <3>1. k < i
      BY <1>3, <1>6, <2>3
    <3>2. Outranks(s[k], s[i])
      BY <1>1, <2>1, <3>1
    <3> QED BY <1>1, <2>1, <3>2, StrictOrder
  <2> QED BY <2>2, <2>3
<1> HIDE DEF after
<1>7. ASSUME NEW i \in 1..(n + 1), NEW j \in 1..(n + 1), i < j
      PROVE  Outranks(all[p[i]], all[p[j]])
  <2>1. CASE j < k
    <3>1. p[i] = i /\ p[j] = j /\ i \in 1..n /\ j \in 1..n
      BY <1>1, <1>3, <1>7, <2>1
    <3> HIDE DEF p, all
    <3> QED BY <1>1, <1>7, <3>1
  <2>2. CASE j = k
    <3>1. p[i] = i /\ p[j] = n + 1 /\ i \in 1..n /\ i < k
      BY <1>1, <1>3, <1>7, <2>2
    <3> HIDE DEF p, all
    <3> QED BY <1>1, <1>5, <3>1
  <2>3. CASE k < j /\ i < k
    <3>1. p[i] = i /\ p[j] = j - 1 /\ i \in 1..n /\ j - 1 \in 1..n /\ i < j - 1
      BY <1>1, <1>3, <1>7, <2>3
    <3> HIDE DEF p, all
    <3> QED BY <1>1, <3>1
  <2>4. CASE k < j /\ i = k
    <3>1. p[i] = n + 1 /\ p[j] = j - 1 /\ j - 1 \in 1..n /\ ~(j - 1 < k)
      BY <1>1, <1>3, <1>7, <2>4
    <3> HIDE DEF p, all
    <3> QED BY <1>1, <1>6, <3>1
  <2>5. CASE k < j /\ k < i
    <3>1. p[i] = i - 1 /\ p[j] = j - 1 /\ i - 1 \in 1..n /\ j - 1 \in 1..n /\ i - 1 < j - 1
      BY <1>1, <1>3, <1>7, <2>5
    <3> HIDE DEF p, all
    <3> QED BY <1>1, <3>1
  <2> QED BY <1>1, <1>3, <2>1, <2>2, <2>3, <2>4, <2>5
<1> HIDE DEF p, all
<1> QED BY <1>1, <1>4, <1>7 DEF all

LEMMA PushStack ==
  ASSUME StackInv, NEW kind \in ContextKinds, PushContext(kind)
  PROVE  StackInv'
<1> DEFINE c == Handled(kind, nextHandle)
           all == Append(contexts, c)
           order == CHOOSE p \in [DOMAIN all -> DOMAIN all] :
                        \A i, j \in DOMAIN all : i < j => Outranks(all[p[i]], all[p[j]])
<1>1. /\ c \in ContextEntries /\ c.handle = nextHandle /\ nextHandle \in Nat
      /\ contexts \in Seq(ContextEntries) /\ nextHandle' = nextHandle + 1
      /\ \A i \in DOMAIN contexts : contexts[i].handle < nextHandle /\ contexts[i] \in ContextEntries
  BY DEF StackInv, ContextEntries, Handled, PushContext
<1>2. contexts' = [i \in DOMAIN all |-> all[order[i]]]
  BY DEF PushContext, Sorted
<1>3. /\ all \in Seq(ContextEntries) /\ DOMAIN all = 1..Len(all) /\ Len(all) \in Nat
      /\ \A i \in DOMAIN all : all[i] \in ContextEntries /\ all[i].handle <= nextHandle
  <2>1. /\ all \in Seq(ContextEntries) /\ DOMAIN all = 1..(Len(contexts) + 1)
        /\ \A i \in DOMAIN all : all[i] = IF i = Len(contexts) + 1 THEN c ELSE contexts[i]
        /\ Len(contexts) \in Nat /\ DOMAIN contexts = 1..Len(contexts)
    BY <1>1
  <2>2. ASSUME NEW i \in DOMAIN contexts PROVE contexts[i].handle <= nextHandle
    <3>1. contexts[i].handle \in Nat
      BY <1>1, EntryType
    <3> QED BY <1>1, <3>1
  <2> HIDE DEF all
  <2>3. Len(all) \in Nat /\ DOMAIN all = 1..Len(all)
    BY <2>1
  <2> HIDE DEF c
  <2>4. ASSUME NEW i \in DOMAIN all PROVE all[i] \in ContextEntries /\ all[i].handle <= nextHandle
    <3>1. CASE i = Len(contexts) + 1
      BY <1>1, <2>1, <3>1
    <3>2. CASE i # Len(contexts) + 1
      <4>1. i \in DOMAIN contexts
        BY <2>1, <3>2
      <4> QED BY <1>1, <2>1, <2>2, <3>2, <4>1
    <3> QED BY <3>1, <3>2
  <2> QED BY <2>1, <2>3, <2>4
<1>4. \E p \in [DOMAIN all -> DOMAIN all] :
          \A i, j \in DOMAIN all : i < j => Outranks(all[p[i]], all[p[j]])
  <2>1. \A i \in DOMAIN contexts : contexts[i].handle # c.handle
    BY <1>1, EntryType
  <2>2. \A i, j \in DOMAIN contexts : i < j => Outranks(contexts[i], contexts[j])
    BY DEF StackInv, Ranked
  <2> HIDE DEF c
  <2> QED BY <1>1, <2>1, <2>2, OneMore
<1> HIDE DEF all
<1>5. order \in [DOMAIN all -> DOMAIN all]
      /\ \A i, j \in DOMAIN all : i < j => Outranks(all[order[i]], all[order[j]])
  BY <1>4
<1> HIDE DEF order
<1>6. DOMAIN contexts' = DOMAIN all /\ \A i \in DOMAIN all : contexts'[i] = all[order[i]]
  BY <1>2
<1>7. contexts' \in Seq(ContextEntries)
  BY <1>2, <1>3, <1>5
<1>8. ASSUME NEW i \in DOMAIN contexts' PROVE contexts'[i].handle < nextHandle'
  <2>1. order[i] \in DOMAIN all /\ contexts'[i] = all[order[i]]
    BY <1>5, <1>6
  <2>2. all[order[i]].handle \in Nat /\ all[order[i]].handle <= nextHandle
    BY <1>3, <2>1, EntryType
  <2> QED BY <1>1, <2>1, <2>2
<1> QED BY <1>1, <1>5, <1>6, <1>7, <1>8 DEF StackInv, Ranked

LEMMA RemoveStack ==
  ASSUME StackInv, NEW h, RemoveContext(h)
  PROVE  StackInv'
<1>1. PICK k \in DOMAIN contexts : contexts' = RemoveAt(contexts, k)
  BY DEF RemoveContext
<1> DEFINE n == Len(contexts)
<1>2. contexts \in Seq(ContextEntries) /\ n \in Nat /\ DOMAIN contexts = 1..n /\ k \in 1..n
  BY <1>1 DEF StackInv
<1>3. /\ contexts' \in Seq(ContextEntries) /\ DOMAIN contexts' = 1..(n - 1)
      /\ \A i \in 1..(n - 1) : contexts'[i] = contexts[IF i < k THEN i ELSE i + 1]
  <2> DEFINE a == SubSeq(contexts, 1, k - 1)
             b == SubSeq(contexts, k + 1, n)
  <2>1. /\ a \in Seq(ContextEntries) /\ Len(a) = k - 1
        /\ \A i \in 1..(k - 1) : a[i] = contexts[i]
    BY <1>2
  <2>2. /\ b \in Seq(ContextEntries) /\ Len(b) = n - k
        /\ \A i \in 1..(n - k) : b[i] = contexts[i + k]
    BY <1>2
  <2>3. contexts' = a \o b
    BY <1>1 DEF RemoveAt
  <2> HIDE DEF a, b
  <2>4. /\ contexts' \in Seq(ContextEntries) /\ Len(contexts') = n - 1
        /\ \A i \in 1..(n - 1) : contexts'[i] = IF i < k THEN a[i] ELSE b[i - (k - 1)]
    <3>1. /\ a \o b \in Seq(ContextEntries) /\ Len(a \o b) = Len(a) + Len(b)
          /\ \A i \in 1..(Len(a) + Len(b)) :
                 (a \o b)[i] = IF i <= Len(a) THEN a[i] ELSE b[i - Len(a)]
      BY <2>1, <2>2, ConcatProperties
    <3>2. Len(a) + Len(b) = n - 1 /\ \A i \in 1..(n - 1) : i <= Len(a) <=> i < k
      BY <1>2, <2>1, <2>2
    <3> HIDE DEF n
    <3> QED BY <2>1, <2>3, <3>1, <3>2
  <2>5. ASSUME NEW i \in 1..(n - 1)
        PROVE  contexts'[i] = contexts[IF i < k THEN i ELSE i + 1]
    <3>1. CASE i < k
      <4>1. i \in 1..(k - 1)
        BY <1>2, <3>1
      <4> QED BY <2>1, <2>4, <3>1, <4>1
    <3>2. CASE ~(i < k)
      <4>1. i - (k - 1) \in 1..(n - k) /\ (i - (k - 1)) + k = i + 1
        BY <1>2, <3>2
      <4> QED BY <2>2, <2>4, <3>2, <4>1
    <3> QED BY <3>1, <3>2
  <2> QED BY <1>2, <2>4, <2>5
<1>4. \A i \in 1..(n - 1) : (IF i < k THEN i ELSE i + 1) \in DOMAIN contexts
  BY <1>2
<1>5. ASSUME NEW i \in 1..(n - 1), NEW j \in 1..(n - 1), i < j
      PROVE  (IF i < k THEN i ELSE i + 1) < (IF j < k THEN j ELSE j + 1)
  BY <1>2, <1>5
<1>6. nextHandle' = nextHandle
  BY DEF RemoveContext
<1> DEFINE from(i) == IF i < k THEN i ELSE i + 1
<1>7. /\ \A i \in 1..(n - 1) : from(i) \in DOMAIN contexts /\ contexts'[i] = contexts[from(i)]
      /\ \A i, j \in 1..(n - 1) : i < j => from(i) < from(j)
  BY <1>3, <1>4, <1>5
<1> HIDE DEF from
<1>8. Ranked'
  BY <1>3, <1>7 DEF StackInv, Ranked
<1>9. \A i \in DOMAIN contexts' : contexts'[i].handle < nextHandle'
  BY <1>3, <1>6, <1>7 DEF StackInv
<1> QED BY <1>3, <1>6, <1>8, <1>9 DEF StackInv

-----------------------------------------------------------------------------
(* A snapshot publishes what was heard.                                    *)

Hearing == [edges : SUBSET BOOLEAN, last : BOOLEAN]

Agrees(state, h) ==
    /\ state.pressed <=> TRUE \in h.edges
    /\ state.released <=> FALSE \in h.edges
    /\ state.held <=> h.last

ExactInv ==
    /\ heard \in [Actions -> Hearing]
    /\ \A a \in Actions : Agrees(accumulating[a], heard[a])

InputInv == LevelsInv /\ StackInv /\ ExactInv

\* The contexts an input is offered to are those entitled to it.
LEMMA OfferedEntitled ==
  ASSUME StackInv, NEW a \in Actions, NEW k \in Inputs
  PROVE  (\E i \in Offered(k) : <<a, k>> \in contexts[i].digital) <=> Entitled(a, k)
<1>1. /\ DOMAIN contexts = 1..Len(contexts) /\ Len(contexts) \in Nat
      /\ \A i \in DOMAIN contexts : contexts[i] \in ContextEntries
  BY DEF StackInv
<1>2. ASSUME NEW i \in DOMAIN contexts, NEW j \in DOMAIN contexts
      PROVE  Outranks(contexts[j], contexts[i]) <=> j < i
  <2>1. CASE j < i
    BY <2>1 DEF StackInv, Ranked
  <2>2. CASE j = i
    <3>1. ~(j < i)
      BY <1>1, <2>2
    <3> QED BY <1>1, <2>2, <3>1, StrictOrder
  <2>3. CASE i < j
    <3>1. ~(j < i) /\ Outranks(contexts[i], contexts[j])
      BY <1>1, <2>3 DEF StackInv, Ranked
    <3> QED BY <1>1, <3>1, StrictOrder
  <2> QED BY <1>1, <2>1, <2>2, <2>3
<1>3. ASSUME NEW i \in DOMAIN contexts
      PROVE  i \in Offered(k) <=>
                ~ \E j \in DOMAIN contexts :
                      /\ Outranks(contexts[j], contexts[i])
                      /\ contexts[j].consumes /\ Claims(contexts[j], k)
  <2>1. \A j : j \in 1..(i - 1) <=> j \in DOMAIN contexts /\ j < i
    BY <1>1
  <2> QED BY <1>2, <2>1 DEF Offered
<1>4. Offered(k) \subseteq DOMAIN contexts
  BY DEF Offered
<1> QED BY <1>3, <1>4 DEF Entitled

LEMMA EdgeAgrees ==
  ASSUME NEW s \in Digital, NEW h \in Hearing, NEW isDown \in BOOLEAN, Agrees(s, h)
  PROVE  /\ Agrees(ApplyDigital(s, isDown), [edges |-> h.edges \union {isDown}, last |-> isDown])
         /\ [edges |-> h.edges \union {isDown}, last |-> isDown] \in Hearing
<1>1. CASE isDown = TRUE
  BY <1>1 DEF Agrees, ApplyDigital, Digital, Hearing
<1>2. CASE isDown = FALSE
  BY <1>2 DEF Agrees, ApplyDigital, Digital, Hearing
<1> QED BY <1>1, <1>2

LEMMA SettledAgrees ==
  ASSUME NEW s \in Digital, NEW h \in Hearing, Agrees(s, h)
  PROVE  Agrees(Settled(s), [h EXCEPT !.edges = {}]) /\ [h EXCEPT !.edges = {}] \in Hearing
BY DEF Agrees, Settled, Digital, Hearing

LEMMA EventExact ==
  ASSUME InputInv, NEW k \in Inputs, NEW isDown \in BOOLEAN, NEW isRepeat \in BOOLEAN,
         OnEvent(k, isDown, isRepeat)
  PROVE  ExactInv'
<1>1. CASE isDown /\ isRepeat
  BY <1>1 DEF OnEvent, tables, InputInv, ExactInv
<1>2. CASE ~(isDown /\ isRepeat)
  <2>1. /\ accumulating' = [a \in Actions |->
               IF \E i \in Offered(k) : <<a, k>> \in contexts[i].digital
               THEN ApplyDigital(accumulating[a], isDown) ELSE accumulating[a]]
        /\ heard' = [a \in Actions |->
               IF Entitled(a, k)
               THEN [edges |-> heard[a].edges \cup {isDown}, last |-> isDown] ELSE heard[a]]
    BY <1>2 DEF OnEvent
  <2>2. ASSUME NEW a \in Actions
        PROVE  heard'[a] \in Hearing /\ Agrees(accumulating'[a], heard'[a])
    <3>1. /\ accumulating[a] \in Digital /\ heard[a] \in Hearing
          /\ Agrees(accumulating[a], heard[a])
      BY DEF InputInv, LevelsInv, LevelsType, ExactInv
    <3>2. CASE Entitled(a, k)
      <4>1. /\ accumulating'[a] = ApplyDigital(accumulating[a], isDown)
            /\ heard'[a] = [edges |-> heard[a].edges \cup {isDown}, last |-> isDown]
        BY <2>1, <3>2, OfferedEntitled DEF InputInv
      <4> QED BY <3>1, <4>1, EdgeAgrees
    <3>3. CASE ~Entitled(a, k)
      <4>1. accumulating'[a] = accumulating[a] /\ heard'[a] = heard[a]
        BY <2>1, <3>3, OfferedEntitled DEF InputInv
      <4> QED BY <3>1, <4>1
    <3> QED BY <3>2, <3>3
  <2>3. heard' = [a \in Actions |-> heard'[a]]
    BY <2>1
  <2>4. heard' \in [Actions -> Hearing]
    BY <2>2, <2>3
  <2> QED BY <2>2, <2>4 DEF ExactInv
<1> QED BY <1>1, <1>2

LEMMA InitExact == InitInput => InputInv
<1> SUFFICES ASSUME InitInput PROVE InputInv
  OBVIOUS
<1>1. StackInv
  BY DEF InitInput, StackInv, Ranked
<1>2. ExactInv
  BY DEF InitInput, ExactInv, Hearing, Agrees, Idle, Unheard
<1> QED BY <1>1, <1>2, InitLevels DEF InputInv

LEMMA NextExact == InputInv /\ [NextInput]_input => InputInv'
<1> SUFFICES ASSUME InputInv, [NextInput]_input PROVE InputInv'
  OBVIOUS
<1>1. LevelsInv'
  BY NextLevels DEF InputInv
<1>2. StackInv'
  <2>1. CASE UNCHANGED contextStack
    BY <2>1 DEF InputInv, StackInv, Ranked, contextStack
  <2>2. CASE \E kind \in ContextKinds : PushContext(kind)
    BY <2>2, PushStack DEF InputInv
  <2>3. CASE \E h \in 1..MaxHandles : RemoveContext(h)
    BY <2>3, RemoveStack DEF InputInv
  <2> QED BY <2>1, <2>2, <2>3 DEF NextInput, Press, Release, Hold, Focus, Snapshot, input, contextStack
<1>3. ExactInv'
  <2>1. CASE UNCHANGED <<accumulating, heard>>
    BY <2>1 DEF InputInv, ExactInv
  <2>2. ASSUME NEW k \in Inputs, NEW isDown \in BOOLEAN, NEW isRepeat \in BOOLEAN,
               OnEvent(k, isDown, isRepeat)
        PROVE  ExactInv'
    BY <2>2, EventExact
  <2>3. CASE Reset
    BY <2>3 DEF Reset, Forgotten, ExactInv, Hearing, Agrees, Idle, Unheard
  <2>4. CASE Snapshot
    <3>1. /\ accumulating' = [a \in Actions |-> Settled(accumulating[a])]
          /\ heard' = [a \in Actions |-> [heard[a] EXCEPT !.edges = {}]]
      BY <2>4 DEF Snapshot
    <3>2. ASSUME NEW a \in Actions
          PROVE  heard'[a] \in Hearing /\ Agrees(accumulating'[a], heard'[a])
      BY <3>1, SettledAgrees DEF InputInv, LevelsInv, LevelsType, ExactInv
    <3>3. heard' = [a \in Actions |-> heard'[a]]
      BY <3>1
    <3>4. heard' \in [Actions -> Hearing]
      BY <3>2, <3>3
    <3> QED BY <3>2, <3>4 DEF ExactInv
  <2>5. Keys \subseteq Inputs
    BY DEF Inputs
  <2>6. CASE \E k \in Inputs : Press(k) \/ Release(k)
    BY <2>1, <2>2, <2>6 DEF Press, Release, tables
  <2>7. CASE \E k \in Keys, isRepeat \in BOOLEAN : Hold(k, isRepeat)
    BY <2>2, <2>5, <2>7 DEF Hold
  <2>8. CASE \E gained \in BOOLEAN : Focus(gained)
    BY <2>1, <2>3, <2>8 DEF Focus, tables
  <2>9. CASE (\E kind \in ContextKinds : PushContext(kind))
             \/ (\E h \in 1..MaxHandles : RemoveContext(h)) \/ UNCHANGED input
    BY <2>1, <2>9 DEF PushContext, RemoveContext, tables, input
  <2> QED BY <2>4, <2>6, <2>7, <2>8, <2>9 DEF NextInput
<1> QED BY <1>1, <1>2, <1>3 DEF InputInv

LEMMA SameTruth ==
  ASSUME NEW p \in BOOLEAN, NEW e, NEW E, p <=> e \in E
  PROVE  p = (e \in E)
<1>1. CASE e \in E
  <2>1. p = TRUE
    BY <1>1
  <2>2. (e \in E) = TRUE
    BY <1>1
  <2> QED BY <2>1, <2>2
<1>2. CASE e \notin E
  <2>1. p = FALSE
    BY <1>2
  <2>2. (e \in E) = FALSE
    BY <1>2
  <2> QED BY <2>1, <2>2
<1> QED BY <1>1, <1>2

\* A snapshot publishes exactly the edges each action was entitled to since the
\* last, and the level they left, whatever contexts came and went (onEvent,
\* pushContext, removeContext, snapshot).
THEOREM SnapshotsAlwaysExact == InputSpec => SnapshotIsExact
<1> DEFINE Exact == Snapshot => \A a \in Actions :
                published'[a] = [pressed |-> TRUE \in heard[a].edges,
                                 released |-> FALSE \in heard[a].edges,
                                 held |-> heard[a].last]
<1>1. InputInv => Exact
  <2> SUFFICES ASSUME InputInv, Snapshot, NEW a \in Actions
               PROVE  published'[a] = [pressed |-> TRUE \in heard[a].edges,
                                       released |-> FALSE \in heard[a].edges,
                                       held |-> heard[a].last]
    OBVIOUS
  <2>1. /\ accumulating[a] \in Digital /\ heard[a] \in Hearing
        /\ Agrees(accumulating[a], heard[a]) /\ published'[a] = accumulating[a]
    BY DEF InputInv, LevelsInv, LevelsType, ExactInv, Snapshot
  <2> PICK s \in Digital : s = accumulating[a]
    BY <2>1
  <2> PICK h \in Hearing : h = heard[a]
    BY <2>1
  <2>2. /\ s.pressed \in BOOLEAN /\ s.released \in BOOLEAN /\ s.held \in BOOLEAN
        /\ h.last \in BOOLEAN
    BY DEF Digital, Hearing
  <2>3. /\ s.pressed <=> TRUE \in h.edges
        /\ s.released <=> FALSE \in h.edges
        /\ s.held <=> h.last
    BY Zenon, <2>1 DEF Agrees
  <2>4. s.pressed = (TRUE \in h.edges)
    BY <2>2, <2>3, SameTruth
  <2>5. s.released = (FALSE \in h.edges)
    <3> PICK e : e = FALSE
      OBVIOUS
    <3>1. s.released <=> e \in h.edges
      BY Zenon, <2>3
    <3> QED BY Zenon, <2>2, <3>1, SameTruth
  <2>6. s.held = h.last
    BY <2>2, <2>3
  <2>7. s = [pressed |-> s.pressed, released |-> s.released, held |-> s.held]
    BY DEF Digital
  <2> QED BY Zenon, <2>1, <2>4, <2>5, <2>6, <2>7
<1> QED BY <1>1, InitExact, NextExact, PTL DEF InputSpec, SnapshotIsExact

-----------------------------------------------------------------------------
(* The application drives its components only through their operations.     *)

\* A step of the application is a step of its input system, or leaves it alone.
LEMMA InputSteps ==
  ASSUME [Next]_vars
  PROVE  [NextInput]_input
<1> USE DEF Stay, Goto, input, input, contextStack, tables
<1>1. CASE Program
  <2>1. CASE AddContext
    BY <2>1 DEF AddContext, NextInput
  <2>2. CASE \E k \in DOMAIN Modules : LoadModule(k)
    BY <2>2 DEF LoadModule
  <2>3. CASE \E l \in Panels \cup Huds : PushPanel(l) \/ PushHud(l) \/ PopLayer(l)
    BY <2>3 DEF PushPanel, PushHud, PopLayer
  <2>4. CASE RequestExit \/ Move \/ TuneClock
    BY <2>4 DEF RequestExit, Move, TuneClock
  <2> QED BY <1>1, <2>1, <2>2, <2>3, <2>4 DEF Program
<1>2. CASE Event
  <2>1. CASE \E k \in Keys \cup Buttons : Press(k) \/ Release(k)
    BY <2>1 DEF NextInput, Inputs
  <2>2. CASE \E k \in Keys, isRepeat \in BOOLEAN : Hold(k, isRepeat)
    BY <2>2 DEF NextInput
  <2>3. CASE \E gained \in BOOLEAN : Observed(gained)
    BY <2>3 DEF NextInput, Observed
  <2> QED BY <1>2, <2>1, <2>2, <2>3 DEF Event
<1>3. CASE LoopStep
  <2>1. CASE FixedStep
    BY <2>1 DEF FixedStep, View, NextInput
  <2>2. CASE PushScene \/ PushRender \/ StartupDone \/ Tick \/ StepDone \/ FixedDone
    BY <2>2 DEF PushScene, PushRender, StartupDone, Tick, StepDone, FixedDone
  <2>3. CASE UpdateModules \/ Propagate \/ PropagateLate \/ Rendered \/ LookAtModule
    BY <2>3 DEF UpdateModules, Propagate, PropagateLate, Rendered, LookAtModule
  <2>4. CASE \/ \E closed \in BOOLEAN : Pumped(closed)
             \/ \E spent \in BOOLEAN : EndFrame(spent)
             \/ \E l \in L!Held : Detach(l)
    BY <2>4 DEF Pumped, EndFrame, Detach
  <2>5. CASE Leave \/ Shutdown \/ ClearLayers \/ CloseWindow \/ Destruct
    BY <2>5 DEF Leave, Shutdown, ClearLayers, CloseWindow, Destruct
  <2> QED BY <1>3, <2>1, <2>2, <2>3, <2>4, <2>5 DEF LoopStep
<1>4. CASE Run \/ RunFails \/ Done \/ UNCHANGED vars
  BY <1>4 DEF Run, RunFails, Done, vars
<1> QED BY <1>1, <1>2, <1>3, <1>4 DEF Next

\* The same of its modules.
LEMMA ModuleSteps ==
  ASSUME [Next]_vars
  PROVE  [H!Next]_loaded
<1> USE DEF Stay, Goto, lent
<1>1. CASE Program
  <2>1. CASE \E k \in DOMAIN Modules : LoadModule(k)
    BY <2>1 DEF LoadModule, H!Next, Paths
  <2>2. CASE \E l \in Panels \cup Huds : PushPanel(l) \/ PushHud(l) \/ PopLayer(l)
    BY <2>2 DEF PushPanel, PushHud, PopLayer
  <2>3. CASE RequestExit \/ Move \/ TuneClock \/ AddContext
    BY <2>3 DEF RequestExit, Move, TuneClock, AddContext
  <2> QED BY <1>1, <2>1, <2>2, <2>3 DEF Program
<1>2. CASE LoopStep
  <2>1. CASE LookAtModule
    BY <2>1 DEF LookAtModule, H!Next
  <2>2. CASE Destruct
    BY <2>2 DEF Destruct, H!Next
  <2>3. CASE PushScene \/ PushRender \/ StartupDone \/ Tick \/ FixedStep \/ StepDone \/ FixedDone
    BY <2>3 DEF PushScene, PushRender, StartupDone, Tick, FixedStep, StepDone, FixedDone
  <2>4. CASE UpdateModules \/ Propagate \/ PropagateLate \/ Rendered
    BY <2>4 DEF UpdateModules, Propagate, PropagateLate, Rendered
  <2>5. CASE \/ \E closed \in BOOLEAN : Pumped(closed)
             \/ \E spent \in BOOLEAN : EndFrame(spent)
             \/ \E l \in L!Held : Detach(l)
    BY <2>5 DEF Pumped, EndFrame, Detach
  <2>6. CASE Leave \/ Shutdown \/ ClearLayers \/ CloseWindow
    BY <2>6 DEF Leave, Shutdown, ClearLayers, CloseWindow
  <2> QED BY <1>2, <2>1, <2>2, <2>3, <2>4, <2>5, <2>6 DEF LoopStep
<1>3. CASE Event \/ Run \/ RunFails \/ Done \/ UNCHANGED vars
  BY <1>3 DEF Event, Run, RunFails, Done, vars
<1> QED BY <1>1, <1>2, <1>3 DEF Next

\* The frame loop, its events and its program reach the input system through
\* its operations only, so that what is proved of every behaviour of InputSystem
\* holds of the one inside an application (Application.cpp, the dispatch of
\* events, the focus callback and the snapshot before each step).
THEOREM InputIsInputSystem == Spec => InputSpec
<1>1. Init => InitInput
  BY DEF Init
<1>2. [Next]_vars => [NextInput]_input
  BY InputSteps
<1> QED BY <1>1, <1>2, PTL DEF Spec, InputSpec

\* The loads, the swaps at the safe point and the destructor are a behaviour of
\* HotSwap, which ModuleHost implements: the host in the frame loop may be
\* replaced by the detailed one (Application.cpp, the safe point).
THEOREM ModulesAreHotSwap == Spec => H!Spec
<1>1. Init => H!Init
  BY DEF Init
<1>2. [Next]_vars => [H!Next]_loaded
  BY ModuleSteps
<1> QED BY <1>1, <1>2, PTL DEF Spec, H!Spec

\* Every fixed step of an application sees exactly the edges its actions were
\* entitled to since the step before, and no key is down that nobody holds
\* (Application.cpp, the snapshot before each step and the focus callback).
THEOREM StepsSeeExactInput == Spec => SnapshotIsExact /\ []DownIsHeld
BY InputIsInputSystem, SnapshotsAlwaysExact, DownAlwaysHeld, PTL
=============================================================================
