--------------------------- MODULE MCBackpressure ---------------------------
(* Constants and bounds for model-checking Backpressure. *)
EXTENDS Backpressure, TLC

CONSTANTS s1, s2

\* A tight channel with one parked place, and one that parks nothing.
MCCapacity  == [s \in Subs |-> 1]
MCMaxParked == [s \in Subs |-> IF s = s1 THEN 1 ELSE 0]

\* Two places in each buffer, so that one drain sends several messages.
MCDeepCapacity  == [s \in Subs |-> 2]
MCDeepMaxParked == [s \in Subs |-> 2]
=============================================================================
