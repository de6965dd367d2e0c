------------------------------ MODULE MCMgmtTx ------------------------------
(***************************************************************************)
(* Model-checking instances of MgmtTx.                                     *)
(***************************************************************************)
EXTENDS MgmtTx, TLC

\* Frames are interchangeable, and so are the callers.
TxSymmetry == Permutations(Frames) \union Permutations(Callers)
=============================================================================
