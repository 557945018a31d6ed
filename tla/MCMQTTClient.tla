---------------------------- MODULE MCMQTTClient ----------------------------
(* Finite instances of MQTTClient: the sets are given in the .cfg files.    *)
EXTENDS MQTTClient, TLC

\* Calls of Stop, and publishers, differ in nothing but their names.
Symmetry == Permutations(Stops) \cup Permutations(Publishers)
=============================================================================
