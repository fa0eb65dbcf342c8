----------------------------- MODULE MCBrodClient -----------------------------
EXTENDS BrodClient, TLC
CONSTANTS c1, c2

\* One uses the topic, the other manages it.
MCOps == (c1 :> {"get", "start_producer"})
         @@ (c2 :> {"start_producer", "get_metadata", "stop_producer", "stop"})

\* One process, one call after the other.
MCOpsAlone == c1 :> {"start_producer", "stop_producer"}
=============================================================================
