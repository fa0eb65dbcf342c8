--------------------------- MODULE MCKafkaPlugin ---------------------------
(* Constants for checking KafkaPlugin with TLC. *)
EXTENDS KafkaPlugin

List(topics) == [kind |-> "list", match |-> topics]
AnyTopic == [kind |-> "undefined", match |-> {}]

\* The file as the README has it, with another cluster and topic, without
\* mqtt_topics, without an address list, and no file at all.
MCFiles == {
  [exists |-> TRUE, kafka |-> TRUE, address |-> "a", topic |-> "k1",
   mqtt_topics |-> List({"data"})],
  [exists |-> TRUE, kafka |-> TRUE, address |-> "b", topic |-> "k2",
   mqtt_topics |-> AnyTopic],
  [exists |-> FALSE, kafka |-> FALSE, address |-> NoAddress, topic |-> "undefined",
   mqtt_topics |-> AnyTopic] }

MCOsEnvs == {
  [address |-> "a", topic |-> "k1", mqtt_topics |-> {"data"}],
  [address |-> NoAddress, topic |-> "k1", mqtt_topics |-> {}] }

\* No file: the environment variables count.
NoFile == {[exists |-> FALSE, kafka |-> FALSE, address |-> NoAddress,
            topic |-> "undefined", mqtt_topics |-> AnyTopic]}
=============================================================================
