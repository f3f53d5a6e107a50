---------------------------- MODULE FrameTargets ----------------------------
(***************************************************************************)
(* A named set of render targets (FrameTargets.cpp), as a value: what was  *)
(* declared, what is built and at which size.                              *)
(***************************************************************************)
EXTENDS Integers

CONSTANTS
    Absent          \* nothing there: no view, no target, no asset

NoTargets == [declared |-> {}, built |-> [name \in {} |-> Absent], size |-> Absent]

\* A target is declared before the set is created, and once.
Declare(targets, name) ==
    IF DOMAIN targets.built # {} THEN targets
    ELSE [targets EXCEPT !.declared = @ \union {name}]

\* All are built or none: one that fails takes the others down. Either way
\* the size is taken.
Built(targets, size, views) ==
    [declared |-> targets.declared, built |-> views, size |-> size]
Failed(targets, size) == Built(targets, size, [name \in {} |-> Absent])

Ready(targets) == targets.declared # {} /\ DOMAIN targets.built = targets.declared

\* A resize to the size that is there does nothing.
Settled(targets, size) == size = targets.size /\ DOMAIN targets.built # {}

View(targets, name) == IF name \in DOMAIN targets.built THEN targets.built[name] ELSE Absent
=============================================================================
