---------------------------- MODULE MCRingSetup ----------------------------
(***************************************************************************)
(* Model-checking instances of RingSetup.                                  *)
(***************************************************************************)
EXTENDS RingSetup, TLC

\* One block of ring memory is as good as another.
BlockSymmetry == Permutations(Blocks)
=============================================================================
