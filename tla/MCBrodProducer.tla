--------------------------- MODULE MCBrodProducer ---------------------------
(* Constants for checking BrodProducer with TLC, and the loops with it. *)
EXTENDS BufferLoops, TLC

CONSTANTS c1, c2

\* max_retries = -1
Forever == -1

\* The fourth request is larger than a batch may be: it travels by itself.
MCSize == [i \in Req |-> IF i = 4 THEN 3 ELSE 1]

Symmetry == Permutations(Callers)
=============================================================================
