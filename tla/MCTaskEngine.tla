---------------------------- MODULE MCTaskEngine ----------------------------
(* Finite instances of TaskEngine for TLC.                                 *)
EXTENDS TaskEngine, TLC

\* Workers are interchangeable in the safety runs.
WorkerSymmetry == Permutations(Workers)

=============================================================================
