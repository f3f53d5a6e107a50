------------------------------- MODULE Clock -------------------------------
(***************************************************************************)
(* The game clock: a clamped and scaled delta, and the accumulator that    *)
(* turns it into fixed steps (engine/src/Time.cpp).  Time is counted in    *)
(* whole ticks; the time scale is left out, as a factor of the delta.      *)
(***************************************************************************)
EXTENDS Integers

CONSTANTS
    MaxDelta,       \* longest raw delta accepted
    MaxFixedSteps   \* budget of steps in one frame

VARIABLES
    paused,
    fixedStep,
    accumulator,     \* game time not yet simulated
    stepsThisFrame

Init ==
    /\ paused = FALSE
    /\ fixedStep = 1
    /\ accumulator = 0 /\ stepsThisFrame = 0

AtLeast(bound, n) == IF n < bound THEN bound ELSE n
AtMost(bound, n) == IF n > bound THEN bound ELSE n

Delta(raw) == IF paused THEN 0 ELSE AtMost(MaxDelta, AtLeast(0, raw))

Advance(raw) ==
    /\ accumulator' = accumulator + Delta(raw)
    /\ stepsThisFrame' = 0
    /\ UNCHANGED <<paused, fixedStep>>

\* consumeFixedStep() has three ways out.
Due == accumulator >= fixedStep
OutOfBudget == stepsThisFrame >= MaxFixedSteps

\* TRUE: one step.
Consume ==
    /\ Due /\ ~OutOfBudget
    /\ accumulator' = accumulator - fixedStep
    /\ stepsThisFrame' = stepsThisFrame + 1
    /\ UNCHANGED <<paused, fixedStep>>

\* Mutant: the debt is carried into the next frame.
Outstanding_Carried == accumulator
\* What is left of the accumulator when the budget runs out.
Outstanding == 0

\* FALSE: nothing due, or no budget left and the debt is dropped.
Decline ==
    /\ ~Due \/ OutOfBudget
    /\ accumulator' = IF Due THEN Outstanding ELSE accumulator
    /\ UNCHANGED <<paused, fixedStep, stepsThisFrame>>

SetPaused(on) ==
    /\ paused' = on
    /\ UNCHANGED <<fixedStep, accumulator, stepsThisFrame>>

\* A step that is not positive is ignored, which is no step here.
SetFixedStep(ticks) ==
    /\ ticks > 0 /\ fixedStep' = ticks
    /\ UNCHANGED <<paused, accumulator, stepsThisFrame>>
=============================================================================
