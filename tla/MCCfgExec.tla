------------------------------ MODULE MCCfgExec ------------------------------
(* Instance of CfgExec for TLC; the bounds are in the .cfg file. *)
EXTENDS CfgExec
=============================================================================
