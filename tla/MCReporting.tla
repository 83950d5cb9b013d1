---------------------------- MODULE MCReporting -----------------------------
(***************************************************************************)
(* Usage snapshots of few subnets over a few ticks for TLC.                *)
(***************************************************************************)
EXTENDS Reporting, TLC

CONSTANTS r1, r2, n1, n2

Symmetry == Permutations(Replicas) \cup Permutations(Subnets)
=============================================================================
