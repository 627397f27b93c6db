--------------------------- MODULE MCSnapshotFile ---------------------------
(* Instances of SnapshotFile for TLC. *)
EXTENDS SnapshotFile

\* Stores with or without a file at the start, in which calls other than the removal of the
\* backup fail or the process dies once.
MCEnvironments ==
    {[file |-> f, failing |-> {"write", "renameOld", "renameNew"}, maxCrashes |-> 0] :
        f \in Snapshots \cup {missing}}
    \cup {[file |-> f, failing |-> Calls \ {"rmBak"}, maxCrashes |-> 0] : f \in Snapshots}
    \cup {[file |-> f, failing |-> {"write"}, maxCrashes |-> 1] : f \in Snapshots \cup {missing}}
=============================================================================
