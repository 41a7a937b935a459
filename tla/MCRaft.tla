------------------------------- MODULE MCRaft -------------------------------
(* Instances of Raft for TLC. *)
EXTENDS Raft, TLC

Symmetry == Permutations(Node) \cup Permutations(Value)
=============================================================================
