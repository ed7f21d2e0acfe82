-------------------------- MODULE MCCameraRegistry --------------------------
(* Symmetry for CameraRegistry: places are alike, and so are invocations   *)
(* of one kind.                                                            *)
EXTENDS CameraRegistry, TLC

RegistrySymmetry ==
    Permutations(Places) \cup Permutations(Creators) \cup Permutations(Transferers)
=============================================================================
