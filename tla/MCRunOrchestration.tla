------------------------- MODULE MCRunOrchestration -------------------------
(***************************************************************************)
(* RunOrchestration for TLC.                                               *)
(***************************************************************************)
EXTENDS RunOrchestration, RunProjection, TLC

\* Workers differ in nothing but their id.
WorkerSymmetry == Permutations(Workers)

=============================================================================
