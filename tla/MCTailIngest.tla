---------------------------- MODULE MCTailIngest ----------------------------
(* Model values and symmetry for the runs of TailIngest. *)
EXTENDS TailIngest, TLC

WorkerSymmetry == Permutations(Worker)
=============================================================================
