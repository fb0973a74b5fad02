------------------------------ MODULE MCPubSub ------------------------------
(* Small instances of PubSub; the listeners of a topic are interchangeable.  *)
EXTENDS PubSub

MCSymmetry == Permutations(Listeners)
=============================================================================
