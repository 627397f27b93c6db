----------------------------- MODULE MCFileLock -----------------------------
(* Instances of FileLock for TLC.  No symmetry: one of the properties is a liveness property. *)
EXTENDS FileLock
=============================================================================
