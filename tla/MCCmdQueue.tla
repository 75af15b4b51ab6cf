----------------------------- MODULE MCCmdQueue -----------------------------
(* CmdQueue with the constants given in the configurations. *)
EXTENDS CmdQueue
=============================================================================
