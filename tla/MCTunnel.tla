------------------------------ MODULE MCTunnel ------------------------------
(* Tunnel for TLC: small sets of visitors and jobs.  For safety both are   *)
(* interchangeable; for liveness, where symmetry is not sound, jobs are    *)
(* numbers that are used in their order.                                   *)
EXTENDS Tunnel, TLC

Symmetry == Permutations(Visitors) \cup Permutations(Jobs)

InOrder == {p \in Jobs \X Jobs : p[1] < p[2]}
NoOrder == {}
=============================================================================
