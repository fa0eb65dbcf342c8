----------------------------- MODULE ProducePipe -----------------------------
(***************************************************************************)
(* What a partition producer with one Kafka request on wire at a time      *)
(* promises to its callers: a bounded pipe into the partition's log.       *)
(*                                                                         *)
(*   - requests are numbered as they are made and accepted ('buffered')    *)
(*     in that order;                                                      *)
(*   - at most Capacity requests are accepted and not settled;             *)
(*   - a request is acknowledged only when it is in the log, in order;     *)
(*   - what is in the log of the requests of one incarnation is a prefix   *)
(*     of them: nothing overtakes (repetitions are not visible here);      *)
(*   - when the producer ends, whatever was not acknowledged is given up:  *)
(*     it may or may not be in the log, or reach it later.                 *)
(***************************************************************************)
EXTENDS Integers

CONSTANT Capacity  \* requests accepted and not settled, at most

VARIABLES
  up,        \* there is a producer
  made,      \* requests made
  accepted,  \* requests up to this one were accepted, or given up
  settled,   \* requests up to this one are acknowledged or given up
  givenUp,   \* requests up to this one belong to ended incarnations
  logged     \* requests in the log

vars == <<up, made, accepted, settled, givenUp, logged>>

Init ==
  /\ up = TRUE
  /\ made = 0
  /\ accepted = 0
  /\ settled = 0
  /\ givenUp = 0
  /\ logged = {}

Make ==
  /\ up
  /\ made' = made + 1
  /\ UNCHANGED <<up, accepted, settled, givenUp, logged>>

Accept ==
  /\ up
  /\ accepted' \in (accepted + 1)..made
  /\ accepted' - settled <= Capacity
  /\ UNCHANGED <<up, made, settled, givenUp, logged>>

Acknowledge ==
  /\ up
  /\ settled' \in (settled + 1)..accepted
  /\ (settled + 1)..settled' \subseteq logged
  /\ UNCHANGED <<up, made, accepted, givenUp, logged>>

\* Requests of the current incarnation enter the log in order; old ones may
\* still arrive.
Log ==
  /\ logged' # logged
  /\ logged \subseteq logged'
  /\ logged' \subseteq 1..accepted
  /\ \A i \in logged' \ logged : (givenUp + 1)..i \subseteq logged'
  /\ UNCHANGED <<up, made, accepted, settled, givenUp>>

End ==
  /\ up
  /\ up' = FALSE
  /\ accepted' = made
  /\ settled' = made
  /\ givenUp' = made
  /\ UNCHANGED <<made, logged>>

Begin ==
  /\ ~up
  /\ up' = TRUE
  /\ UNCHANGED <<made, accepted, settled, givenUp, logged>>

Next == Make \/ Accept \/ Acknowledge \/ Log \/ End \/ Begin

Spec == Init /\ [][Next]_vars
=============================================================================
