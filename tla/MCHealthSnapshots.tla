-------------------------- MODULE MCHealthSnapshots --------------------------
(***************************************************************************)
(* Small instance of HealthSnapshots: three requests, so that two collect  *)
(* at the same time and a third reads what the slower one left; two        *)
(* upstreams.                                                              *)
(***************************************************************************)
EXTENDS HealthSnapshots, TLC

MCUpstreams == <<"rest", "workflow">>
SnapshotSymmetry == Permutations(Exchanges)
=============================================================================
