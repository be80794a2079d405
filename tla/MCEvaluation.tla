----------------------------- MODULE MCEvaluation -----------------------------
(* Evaluation on a small instance, for TLC. *)
EXTENDS Evaluation
=============================================================================
