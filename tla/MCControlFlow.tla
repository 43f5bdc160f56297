---------------------------- MODULE MCControlFlow ----------------------------
(* Instance of ControlFlow for TLC; the bounds are in the .cfg files. *)
EXTENDS ControlFlow
=============================================================================
