-------------------------- MODULE MCTokenRotation --------------------------
(***************************************************************************)
(* Finite instances of TokenRotation for TLC.  The ids are interchangeable *)
(* model values, so runs of safety properties may use the symmetry sets.   *)
(***************************************************************************)
EXTENDS TokenRotation, TLC

IdSymmetry == Permutations(Jtis) \cup Permutations(Users)

WorkerSymmetry == IdSymmetry \cup Permutations(Workers)
=============================================================================
