---------------------------- MODULE MCEMTrainer ----------------------------
(***************************************************************************)
(* An instance of EMTrainer with three weight vectors.                     *)
(***************************************************************************)
EXTENDS EMTrainer

CONSTANTS t0, t1, t2    \* weight vectors
============================================================================
