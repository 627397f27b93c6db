---------------------------- MODULE MCApprovals ----------------------------
(* Instances of Approvals for TLC. *)
EXTENDS Approvals

\* Keys are commands with the same two first words: one prefix rule covers them.
MCGen == [k \in Keys |-> "prefix"]
=============================================================================
