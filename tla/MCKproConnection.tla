-------------------------- MODULE MCKproConnection --------------------------
EXTENDS KproConnection
CONSTANTS producer, client1

\* A partition producer sends asynchronously, brod's client waits for answers.
MCModes == (producer :> {"async", "no_ack"}) @@ (client1 :> {"sync", "stop"})
=============================================================================
