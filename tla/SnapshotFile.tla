---------------------------- MODULE SnapshotFile ----------------------------
(***************************************************************************)
(* How LocalMemoryRepository (packages/storage/src/memory-runtime.ts) and  *)
(* TaskStore (packages/storage/src/task-store.ts) keep a snapshot in       *)
(* <path> and <path>.bak: #saveUnlocked() call by call, the same calls in  *)
(* both, with the process dying or a call failing between any two of them, *)
(* and #loadUnlocked() reading what is left.  The caller holds the lock.   *)
(*                                                                         *)
(* A file holds a whole snapshot or is missing: contents are written to a  *)
(* temporary file that is synced before it is renamed.                     *)
(***************************************************************************)
EXTENDS Integers

CONSTANTS Snapshots,
          empty,         \* the snapshot of a store without files
          missing,       \* no such file
          Environments   \* what may happen to the store, see below

Calls == {"write", "rmBak", "renameOld", "renameNew", "syncDirectory"}

ASSUME SnapshotFileAssumption ==
    /\ empty \notin Snapshots /\ missing \notin Snapshots \cup {empty}
    /\ Environments \subseteq [file : Snapshots \cup {missing}, failing : SUBSET Calls,
                                maxCrashes : Nat]

(***************************************************************************)
(* An environment: <path> at the start, the calls of #saveUnlocked() that  *)
(* may fail, and how many times the process may die in the middle of a     *)
(* save.                                                                   *)
(***************************************************************************)
VARIABLES environment,
          primary,    \* <path>
          backup,     \* <path>.bak
          temporary,  \* <path>.<pid>.<uuid>.tmp of the save in progress
          call,       \* the next call of #saveUnlocked(), "idle" outside it
          saving,     \* its argument
          before,     \* what a load returned when it began
          reply,      \* how the last save ended: "none", "ok" or "error"
          crashes

vars == <<environment, primary, backup, temporary, call, saving, before, reply, crashes>>

\* #loadUnlocked()
Load == IF primary # missing THEN primary
        ELSE IF backup # missing THEN backup ELSE empty

Init ==
    /\ environment \in Environments
    /\ primary = environment.file /\ backup = missing /\ temporary = missing
    /\ call = "idle" /\ saving = missing /\ before = Load /\ reply = "none"
    /\ crashes = 0

\* A mutant of Save: the transaction starts from <path> alone.
SaveFromPrimary(v) ==
    /\ call = "idle"
    /\ call' = "write" /\ saving' = v /\ before' = primary /\ reply' = "none"
    /\ UNCHANGED <<environment, primary, backup, temporary, crashes>>

\* transaction() or a TaskStore operation loaded the snapshot and saves v.
Save(v) ==
    /\ call = "idle"
    /\ call' = "write" /\ saving' = v /\ before' = Load /\ reply' = "none"
    /\ UNCHANGED <<environment, primary, backup, temporary, crashes>>

Go(next) == call' = next /\ UNCHANGED <<environment, saving, before, reply, crashes>>

\* save() settles.
Return(r) ==
    call' = "idle" /\ saving' = missing /\ reply' = r /\ UNCHANGED <<environment, before, crashes>>

\* open 'wx', writeFile, sync, close
WriteTemporary ==
    /\ call = "write"
    /\ temporary' = saving
    /\ Go("rmBak")
    /\ UNCHANGED <<primary, backup>>

\* A failing write removes the temporary file and rejects.
WriteFails ==
    /\ call = "write" /\ "write" \in environment.failing
    /\ Return("error")
    /\ UNCHANGED <<primary, backup, temporary>>

RemoveBackup ==
    /\ call = "rmBak"
    /\ backup' = missing
    /\ Go("renameOld")
    /\ UNCHANGED <<primary, temporary>>

\* rename(path, path.bak); ENOENT is ignored
RenameOld ==
    /\ call = "renameOld"
    /\ backup' = IF primary # missing THEN primary ELSE backup
    /\ primary' = missing
    /\ Go("renameNew")
    /\ UNCHANGED temporary

RenameNew ==
    /\ call = "renameNew"
    /\ primary' = temporary
    /\ temporary' = missing
    /\ Go("syncDirectory")
    /\ UNCHANGED backup

SyncDirectory ==
    /\ call = "syncDirectory"
    /\ Return("ok")
    /\ UNCHANGED <<primary, backup, temporary>>

\* A call of the second try fails: its catch removes the temporary file first.
CallFails ==
    /\ call \in environment.failing \ {"write"}
    /\ temporary' = missing
    /\ Go("restore")
    /\ UNCHANGED <<primary, backup>>

\* A mutant of Restore: nothing is put back.
RestoreNothing == call = "restore" /\ Go("rethrow") /\ UNCHANGED <<primary, backup, temporary>>

\* rename(path.bak, path).catch(() => undefined)
Restore ==
    /\ call = "restore"
    /\ primary' = IF backup # missing THEN backup ELSE primary
    /\ backup' = missing
    /\ Go("rethrow")
    /\ UNCHANGED temporary

Rethrow ==
    /\ call = "rethrow"
    /\ Return("error")
    /\ UNCHANGED <<primary, backup, temporary>>

\* The process dies; its temporary file is never read again.
Crash ==
    /\ call # "idle" /\ crashes < environment.maxCrashes
    /\ crashes' = crashes + 1
    /\ temporary' = missing
    /\ call' = "idle" /\ saving' = missing /\ reply' = "none"
    /\ UNCHANGED <<environment, primary, backup, before>>

Next == \/ \E v \in Snapshots : Save(v)
        \/ WriteTemporary \/ WriteFails \/ RemoveBackup \/ RenameOld \/ RenameNew
        \/ SyncDirectory \/ CallFails \/ Restore \/ Rethrow \/ Crash

Spec == Init /\ [][Next]_vars

-----------------------------------------------------------------------------
(* Properties *)

Files == Snapshots \cup {missing}

\* The files and the local state of a save keep their types.
TypeOK ==
    /\ environment \in Environments
    /\ primary \in Files /\ backup \in Files /\ temporary \in Files
    /\ call \in Calls \cup {"idle", "restore", "rethrow"}
    /\ saving \in Files
    /\ before \in Snapshots \cup {empty}
    /\ reply \in {"none", "ok", "error"}
    /\ crashes \in 0..environment.maxCrashes

\* The value that a load finds once the save in progress is over: nothing is loaded while it
\* runs, and until the new file is in place the old value counts.
Value == IF call \in {"write", "rmBak", "renameOld", "renameNew"} THEN before ELSE Load

Abstract == INSTANCE SnapshotStore WITH value <- Value, none <- missing

\* The two files implement one atomically replaced value, whatever the point at which the
\* process dies or a call fails: a save that resolves has replaced it and a save that rejects
\* has not.
ImplementsSnapshot == Abstract!Spec
=============================================================================
