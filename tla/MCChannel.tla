----------------------------- MODULE MCChannel -----------------------------
(* Instances of the channel for TLC.                                       *)
EXTENDS Channel
=============================================================================
