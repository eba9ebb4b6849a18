--------------------------- MODULE MCKafkaConsumer ---------------------------
(* Small instances of KafkaConsumer for TLC.                                *)
EXTENDS KafkaConsumer, TLC

CONSTANTS m1, m2, m3

Symmetry == Permutations({m1, m2}) \union Permutations(Partition) \union Permutations(Handler)
=============================================================================
