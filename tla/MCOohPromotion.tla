-------------------------- MODULE MCOohPromotion --------------------------
(* Symmetry for the safety runs of OohPromotion: invocations of one kind   *)
(* are interchangeable.                                                    *)
EXTENDS OohPromotion, TLC

InvocationSymmetry == Permutations(Promoters) \cup Permutations(Downloaders)
=============================================================================
