------------------------------- MODULE MCWaves -------------------------------
(* Instances of Waves for TLC. *)
EXTENDS Waves
=============================================================================
