---------------------------- MODULE MCTaskDaemon ----------------------------
(* Instances of TaskDaemon for TLC: for liveness, a task that skips what it missed and what
   overlaps, and one that catches up and queues; for overlapping ticks, one task that catches
   up on what it missed and skips what overlaps. *)
EXTENDS TaskDaemon

MCTaskIds == {"a", "b"}
MCMissedRun == [a |-> "skip", b |-> "run_latest"]
MCOverlap == [a |-> "skip", b |-> "queue"]

OneTaskId == {"a"}
OneMissedRun == [a |-> "run_latest"]
OneOverlap == [a |-> "skip"]

\* The ticks differ in their names only.
TickSymmetry == Permutations(Ticks)

\* At most three crashes, faults and edits, and two once ticks have overlapped
Overlapped == shared # {} \/ \E i \in DOMAIN children : ~children[i].alone
Bounded == stops + faults + edits <= IF Overlapped THEN 2 ELSE 3
=============================================================================
