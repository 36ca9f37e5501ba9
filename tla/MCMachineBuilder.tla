-------------------------- MODULE MCMachineBuilder --------------------------
(***************************************************************************)
(* Instances of MachineBuilder over tiny alphabets, one topology per cfg.  *)
(***************************************************************************)
EXTENDS MachineBuilder

CONSTANTS a, b    \* letters
=============================================================================
