-------------------------- MODULE MCPerLogBackfill --------------------------
(* Model values and symmetry for the runs of PerLogBackfill. *)
EXTENDS PerLogBackfill, TLC

WorkerSymmetry == Permutations(Worker)
=============================================================================
