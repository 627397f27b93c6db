--------------------------- MODULE SnapshotStore ---------------------------
(***************************************************************************)
(* What a snapshot file promises: one value that save() replaces as a      *)
(* whole.  A save that resolves has replaced it, a save that rejects has   *)
(* not, and a crash leaves the old or the new value.                       *)
(***************************************************************************)
CONSTANTS Snapshots, empty, none

VARIABLES value,   \* what a load returns
          saving,  \* the argument of the save() in progress, or none
          before,  \* the value when it began
          reply    \* how the last save ended: "none", "ok" or "error"

vars == <<value, saving, before, reply>>

Init == value \in Snapshots \cup {empty} /\ saving = none /\ before = value /\ reply = "none"

Begin(v) ==
    /\ saving = none
    /\ saving' = v
    /\ before' = value
    /\ reply' = "none"
    /\ UNCHANGED value

\* The new value takes effect, and may be taken back until save() returns.
Commit == saving # none /\ value' = saving /\ UNCHANGED <<saving, before, reply>>
TakeBack == saving # none /\ value' = before /\ UNCHANGED <<saving, before, reply>>

End(r) == saving # none /\ saving' = none /\ reply' = r /\ UNCHANGED <<value, before>>
Resolve == value = saving /\ End("ok")
Reject == value = before /\ End("error")
Crash == End("none")

Next == (\E v \in Snapshots : Begin(v)) \/ Commit \/ TakeBack \/ Resolve \/ Reject \/ Crash

Spec == Init /\ [][Next]_vars
=============================================================================
