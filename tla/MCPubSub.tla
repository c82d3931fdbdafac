------------------------------ MODULE MCPubSub ------------------------------
(* The publish-subscribe core on small instances. *)
EXTENDS PubSub, TLC

\* Blocks are interchangeable, and so are callbacks and application tasks.
Symmetry == Permutations(Cells) \cup Permutations(Callbacks) \cup Permutations(Tasks)
=============================================================================
