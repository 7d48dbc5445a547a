------------------------------ MODULE Failures ------------------------------
(***************************************************************************)
(* What can fail is bounded in the same way for both streams: the failures *)
(* of zstd, of the bindings and of the streams around them are counted,    *)
(* and what a zstd context does after it failed is cut off.                *)
(***************************************************************************)
EXTENDS Naturals

CONSTANTS
    MaxFaults,      \* bound: failures in a behaviour
    MaxGarbage      \* bound: a context that failed puts out nothing beyond this many bytes

ASSUME FailuresAssumption == MaxFaults \in Nat /\ MaxGarbage \in Nat

VARIABLE
    faults          \* failures so far
=============================================================================
