---------------------------- MODULE MCRemoteLink ----------------------------
(* Instances of RemoteLink for TLC. *)
EXTENDS RemoteLink
=============================================================================
