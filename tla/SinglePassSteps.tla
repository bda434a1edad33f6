-------------------------- MODULE SinglePassSteps --------------------------
(***************************************************************************)
(* What the steps of a stage promise, with no guidance window: every step  *)
(* is one pass over the components with the conditioning the host gave,    *)
(* after which guidance may replace predictions by combined ones in one    *)
(* step; latents advance by one update at a time and iterations are        *)
(* counted by one.  A step may stop anywhere and nothing is undone.        *)
(***************************************************************************)
EXTENDS Naturals

CONSTANTS
    Components,  \* components of the stage
    Latents,     \* states the scheduler advances
    Predictor,   \* the component that predicts a latent
    None         \* no value

VARIABLES
    iterations,    \* counted iterations
    latents,       \* updates each latent received
    conditioning,  \* the guided input
    endpoints,     \* the passes each output was computed from
    cursors,       \* the pass that advanced the position cursors
    saved          \* the copy of the rest, if there is one

vars == <<iterations, latents, conditioning, endpoints, cursors, saved>>

Outputs == Components \cup Latents
Both    == {"conditional", "unconditional"}

Init ==
    /\ iterations = 0
    /\ latents = [l \in Latents |-> 0]
    /\ conditioning = None
    /\ endpoints = [o \in Outputs |-> None]
    /\ cursors = None
    /\ saved = {}

Condition ==
    /\ conditioning' = "conditional"
    /\ cursors' \in {cursors, "conditional"}
    /\ UNCHANGED <<iterations, latents, endpoints, saved>>

Pass(c) ==
    /\ conditioning = "conditional"
    /\ endpoints' = [o \in Outputs |->
           IF o = c \/ (o \in Latents /\ Predictor[o] = c)
           THEN {"conditional"} ELSE endpoints[o]]
    /\ cursors' \in {cursors, "conditional"}
    /\ UNCHANGED <<iterations, latents, conditioning, saved>>

Guide ==
    /\ \A l \in Latents : endpoints[l] # None
    /\ endpoints' = [o \in Outputs |->
                        IF o \in Latents THEN Both ELSE endpoints[o]]
    /\ UNCHANGED <<iterations, latents, conditioning, cursors, saved>>

Advance(l) ==
    /\ endpoints[l] \in {{"conditional"}, Both}
    /\ latents' = [latents EXCEPT ![l] = @ + 1]
    /\ UNCHANGED <<iterations, conditioning, endpoints, cursors, saved>>

Count ==
    /\ \A l \in Latents : latents[l] > 0
    /\ iterations' = iterations + 1
    /\ UNCHANGED <<latents, conditioning, endpoints, cursors, saved>>

(* Some latents are given up, and with any of them the count.              *)
Forget(gone) ==
    /\ latents' = [l \in Latents |-> IF l \in gone THEN 0 ELSE latents[l]]
    /\ endpoints' = [o \in Outputs |->
                        IF o \in gone THEN None ELSE endpoints[o]]
    /\ iterations' = IF gone = {} THEN iterations ELSE 0
    /\ UNCHANGED <<conditioning, cursors, saved>>

Clear ==
    /\ iterations' = 0
    /\ latents' = [l \in Latents |-> 0]
    /\ conditioning' = None
    /\ endpoints' = [o \in Outputs |-> None]
    /\ cursors' = None
    /\ UNCHANGED saved

Save ==
    /\ saved' = {[iterations |-> iterations, latents |-> latents,
                  conditioning |-> conditioning, endpoints |-> endpoints,
                  cursors |-> cursors]}
    /\ UNCHANGED <<iterations, latents, conditioning, endpoints, cursors>>

Rewind ==
    /\ \E copy \in saved :
        /\ iterations' = copy.iterations
        /\ latents' = copy.latents
        /\ conditioning' = copy.conditioning
        /\ endpoints' = copy.endpoints
        /\ cursors' = copy.cursors
    /\ UNCHANGED saved

Next ==
    \/ Condition
    \/ \E c \in Components : Pass(c)
    \/ Guide
    \/ \E l \in Latents : Advance(l)
    \/ Count
    \/ \E gone \in SUBSET Latents : Forget(gone)
    \/ Clear
    \/ Save
    \/ Rewind

Spec == Init /\ [][Next]_vars

=============================================================================
