----------------------------- MODULE MCSubagent -----------------------------
(* The instance of Subagent for TLC; its constants are in the cfg. *)
EXTENDS Subagent
=============================================================================
