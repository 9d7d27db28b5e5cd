---------------------------- MODULE MCMeshStore ----------------------------
(* Instances of MeshStore for TLC: radios other than the local one are      *)
(* interchangeable.                                                         *)
EXTENDS MeshStore, TLC

MCSymmetry == Permutations(Remote)
=============================================================================
