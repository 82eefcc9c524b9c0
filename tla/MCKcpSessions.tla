---------------------------- MODULE MCKcpSessions ----------------------------
(* Streams are alike: their permutations are a symmetry. *)
EXTENDS KcpSessions, TLC

Symmetry == Permutations(Streams)
=============================================================================
