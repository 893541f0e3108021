------------------------------ MODULE MCRunApi ------------------------------
(***************************************************************************)
(* RunApi for TLC.                                                         *)
(***************************************************************************)
EXTENDS RunApi, TLC

\* Workers differ in nothing but their id.
WorkerSymmetry == Permutations(Workers)

=============================================================================
