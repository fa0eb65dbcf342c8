--------------------------- MODULE RequestChannel ---------------------------
(***************************************************************************)
(* What a connection to a Kafka broker promises to the processes that send *)
(* requests through it: a request is answered at most once, only while the *)
(* connection is open and only after it was made; when the connection ends *)
(* every request that has no answer is lost, and none made later is        *)
(* accepted.  kpro_connection.erl is shown to do this in KproConnection.   *)
(***************************************************************************)
CONSTANT Requests

VARIABLES open,     \* can it still answer?
          status    \* of every request

vars == <<open, status>>

Init ==
  /\ open = TRUE
  /\ status = [r \in Requests |-> "new"]

Ask(r) ==
  /\ status[r] = "new"
  /\ status' = [status EXCEPT ![r] = IF open THEN "pending" ELSE "lost"]
  /\ UNCHANGED open

Answer(r) ==
  /\ open
  /\ status[r] = "pending"
  /\ status' = [status EXCEPT ![r] = "answered"]
  /\ UNCHANGED open

Close ==
  /\ open
  /\ open' = FALSE
  /\ status' = [r \in Requests |-> IF status[r] = "pending" THEN "lost" ELSE status[r]]

Next == Close \/ \E r \in Requests : Ask(r) \/ Answer(r)

Spec == Init /\ [][Next]_vars
=============================================================================
