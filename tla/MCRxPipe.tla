------------------------------ MODULE MCRxPipe ------------------------------
(***************************************************************************)
(* Model-checking instances of RxPipe.                                     *)
(***************************************************************************)
EXTENDS RxRefinement, TLC

\* Buffers are interchangeable.
BufSymmetry == Permutations(Bufs)
=============================================================================
