---------------------------- MODULE StoreProofs ----------------------------
(***************************************************************************)
(* Proofs about the files under a store: the lock (FileLock), for any set  *)
(* of processes, and the snapshot it protects (SnapshotFile), for any set  *)
(* of snapshots.  The two specifications share no variable.                *)
(*                                                                         *)
(* FileLock: its type invariant for all five protocols, and exclusion      *)
(* until the first death for the two protocols, shared and daemon, that    *)
(* reclaim the file of a dead owner only.                                  *)
(*                                                                         *)
(* SnapshotFile: it implements SnapshotStore under the faults that the     *)
(* code tolerates.                                                         *)
(***************************************************************************)
EXTENDS FileLock, SnapshotFile, TLAPS

Records == [by : Processes, written : BOOLEAN, old : BOOLEAN]

\* A process asks for permission to reap only after a stat, and only below the limit.
ReapsLeft == \A p \in Processes : pc[p] \in {"stat", "reap"} /\ policy = "shared" => reaps[p] < MaxReaps

LockTypeInv == LockTypeOK /\ ReapsLeft

LEMMA NewType ==
  \A p \in Processes : New(p) \in Records /\ [New(p) EXCEPT !.written = TRUE] \in Records
BY DEF New, Records

LEMMA NewOwner == \A p \in Processes : New(p) # absent /\ New(p).by = p
<1> SUFFICES ASSUME NEW p \in Processes PROVE New(p) # absent /\ New(p).by = p
  OBVIOUS
<1>1. absent \notin Records
  BY FileLockAssumption DEF Records
<1>2. New(p) # absent
  BY <1>1, NewType
<1> QED
  BY <1>2 DEF New

LEMMA LockTypeStep == LockTypeInv /\ [LockNext]_lockVars => LockTypeInv'
<1> SUFFICES ASSUME LockTypeInv, [LockNext]_lockVars
             PROVE  LockTypeInv'
  OBVIOUS
<1> USE FileLockAssumption DEF LockTypeInv, LockTypeOK, ReapsLeft, Labels, At, Records
<1>1. ASSUME NEW p \in Processes, Acquire(p) PROVE LockTypeInv'
  BY <1>1 DEF Acquire
<1>2. ASSUME NEW p \in Processes, Open(p) PROVE LockTypeInv'
  <2>1. file' \in Records \cup {absent}
    BY ZenonT(60), <1>2, NewType DEF Open
  <2>2. pc' \in [Processes -> Labels] /\ ReapsLeft'
    BY <1>2 DEF Open
  <2> QED
    BY <1>2, <2>1, <2>2 DEF Open
<1>3. ASSUME NEW p \in Processes, Write(p) PROVE LockTypeInv'
  BY <1>3 DEF Write
<1>4. ASSUME NEW p \in Processes, PidWriteFails(p) PROVE LockTypeInv'
  BY <1>4 DEF PidWriteFails
<1>5. ASSUME NEW p \in Processes, Inspect(p) PROVE LockTypeInv'
  <2>1. pc'[p] \in {"stat", "reap"} /\ policy = "shared" => reaps[p] < MaxReaps
    BY <1>5 DEF Inspect, Reclaims, SharedReclaims
  <2> QED
    BY <1>5, <2>1 DEF Inspect
<1>6. ASSUME NEW p \in Processes, Stat(p) PROVE LockTypeInv'
  BY <1>6 DEF Stat
<1>7. ASSUME NEW p \in Processes, Reap(p) PROVE LockTypeInv'
  BY <1>7, NewType DEF Reap
<1>8. ASSUME NEW p \in Processes, Verify(p) PROVE LockTypeInv'
  BY <1>8 DEF Verify
<1>9. ASSUME NEW p \in Processes, Retry(p) PROVE LockTypeInv'
  BY <1>9 DEF Retry
<1>10. ASSUME NEW p \in Processes, Release(p) PROVE LockTypeInv'
  BY <1>10 DEF Release
<1>11. ASSUME NEW p \in Processes, Remove(p) PROVE LockTypeInv'
  BY <1>11 DEF Remove
<1>12. ASSUME NEW p \in Processes, Dies(p) PROVE LockTypeInv'
  BY <1>12 DEF Dies
<1>13. CASE Age
  BY <1>13 DEF Age
<1>14. CASE UNCHANGED lockVars
  BY <1>14 DEF lockVars
<1> QED
  BY <1>1, <1>2, <1>3, <1>4, <1>5, <1>6, <1>7, <1>8, <1>9, <1>10, <1>11, <1>12, <1>13, <1>14
  DEF LockNext, Step, Attempt

\* The types of all five protocols, and in particular reapsLeft: acquireFileLock() removes at
\* most MaxReaps stale files, although its check and the rm are separate calls.
THEOREM LockTypeCorrect == LockSpec => []LockTypeOK
<1>1. LockInit => LockTypeInv
  BY FileLockAssumption DEF LockInit, LockTypeInv, LockTypeOK, ReapsLeft, Labels, AllPolicies
<1>2. LockTypeInv => LockTypeOK
  BY DEF LockTypeInv
<1> QED
  BY <1>1, <1>2, LockTypeStep, PTL DEF LockSpec

-----------------------------------------------------------------------------
(***************************************************************************)
(* Exclusion.  ExclusiveUntilCrash is not inductive: that two holders      *)
(* cannot meet needs that the file belongs to whoever is past open('wx'),  *)
(* which lasts as long as nobody reaps it, and nobody does as long as      *)
(* every owner that is judged is alive.                                    *)
(***************************************************************************)
Working == {"write", "held", "remove"}      \* past open('wx'), before the rm

OwnerOnly == \A p \in Processes : pc[p] \in Working => file # absent /\ file.by = p

NobodyReaps == \A p \in Processes : pc[p] \notin {"dead", "stat", "reap", "verify"}

DeadOwnersOnly == policy \in {"shared", "daemon"}

LockInv == LockTypeOK /\ (DeadOwnersOnly /\ deaths = 0 => OwnerOnly /\ NobodyReaps)

\* Every judgement of a live owner refuses to reclaim its file.
LEMMA LiveNotReclaimed ==
  ASSUME LockTypeOK, DeadOwnersOnly, NobodyReaps, NEW p \in Processes
  PROVE  ~Reclaims(p)
BY DEF LockTypeOK, DeadOwnersOnly, NobodyReaps, Reclaims, SharedReclaims, DaemonReclaims,
       OwnerDead, Dead

LEMMA ExclusionStep == LockInv /\ LockTypeOK' /\ [LockNext]_lockVars => LockInv'
<1> SUFFICES ASSUME LockInv, LockTypeOK', [LockNext]_lockVars
             PROVE  DeadOwnersOnly' /\ deaths' = 0 => OwnerOnly' /\ NobodyReaps'
  BY DEF LockInv
<1> USE FileLockAssumption DEF LockInv, DeadOwnersOnly, OwnerOnly, NobodyReaps, Working, At
<1>0. policy' = policy
  BY DEF LockNext, Step, Attempt, Acquire, Open, Write, PidWriteFails, Inspect, Stat, Reap, Verify, Retry,
         Release, Remove, Dies, Age, lockVars
<1> SUFFICES ASSUME DeadOwnersOnly PROVE deaths' = 0 => OwnerOnly' /\ NobodyReaps'
  BY <1>0
<1> DEFINE Goal == deaths' = 0 => OwnerOnly' /\ NobodyReaps'
<1>1. ASSUME NEW p \in Processes, Acquire(p) PROVE Goal
  BY <1>1 DEF Acquire, LockTypeOK
<1>2. ASSUME NEW p \in Processes, Open(p) PROVE Goal
  <2>1. CASE file = absent
    <3>1. file' = New(p) /\ file'.by = p /\ file' # absent
      BY <1>2, <2>1, NewOwner DEF Open
    <3>2. pc' = [pc EXCEPT ![p] = "write"] /\ deaths' = deaths
      BY <1>2, <2>1 DEF Open
    <3>3. deaths = 0 => \A q \in Processes : q # p => pc'[q] \notin Working
      BY <2>1, <3>2 DEF LockTypeOK
    <3>4. deaths = 0 => OwnerOnly'
      BY <3>1, <3>3
    <3> QED
      BY <3>2, <3>4 DEF LockTypeOK
  <2>2. CASE file # absent
    BY <1>2, <2>2 DEF Open, LockTypeOK
  <2> QED
    BY <2>1, <2>2
<1>3. ASSUME NEW p \in Processes, Write(p) PROVE Goal
  <2>1. deaths = 0 => file # absent /\ file' # absent /\ file'.by = file.by
    BY <1>3 DEF Write, LockTypeOK
  <2> QED
    BY <1>3, <2>1 DEF Write, LockTypeOK
<1>4. ASSUME NEW p \in Processes, PidWriteFails(p) PROVE Goal
  BY <1>4 DEF PidWriteFails, LockTypeOK
<1>5. ASSUME NEW p \in Processes, Inspect(p) PROVE Goal
  <2>1. deaths = 0 => pc' = [pc EXCEPT ![p] = IF policy = "daemon" THEN "failed" ELSE "wait"]
    BY <1>5, LiveNotReclaimed DEF Inspect
  <2> QED
    BY <1>5, <2>1 DEF Inspect, LockTypeOK
<1>6. ASSUME NEW p \in Processes, Stat(p) \/ Reap(p) \/ Verify(p) PROVE Goal
  BY <1>6 DEF Stat, Reap, Verify
<1>7. ASSUME NEW p \in Processes, Retry(p) \/ Release(p) PROVE Goal
  BY <1>7 DEF Retry, Release, LockTypeOK
<1>8. ASSUME NEW p \in Processes, Remove(p) PROVE Goal
  BY <1>8 DEF Remove, LockTypeOK
<1>9. ASSUME NEW p \in Processes, Dies(p) PROVE Goal
  BY <1>9 DEF Dies, LockTypeOK
<1>10. CASE Age
  <2>1. file # absent /\ file' # absent /\ file'.by = file.by
    BY <1>10 DEF Age, LockTypeOK
  <2> QED
    BY <1>10, <2>1 DEF Age
<1>11. CASE UNCHANGED lockVars
  BY <1>11 DEF lockVars
<1> QED
  BY <1>1, <1>2, <1>3, <1>4, <1>5, <1>6, <1>7, <1>8, <1>9, <1>10, <1>11
  DEF LockNext, Step, Attempt

\* Any number of processes that use acquireFileLock() or acquireDaemonLock(): until one of
\* them dies, no two are in the critical section, however slowly an owner writes its pid.
THEOREM Exclusion == LockSpec => []ExclusiveUntilCrash
<1>1. LockInit => LockInv
  BY FileLockAssumption
  DEF LockInit, LockInv, LockTypeOK, Labels, AllPolicies, DeadOwnersOnly, OwnerOnly, NobodyReaps, Working
<1>2. LockInv => ExclusiveUntilCrash
  BY DEF LockInv, ExclusiveUntilCrash, DeadOwnersOnly, Holders, OwnerOnly, Working
<1> QED
  BY <1>1, <1>2, LockTypeCorrect, ExclusionStep, PTL DEF LockSpec

-----------------------------------------------------------------------------
(* The snapshot file *)

(***************************************************************************)
(* The environments that the code tolerates.  rm of the backup succeeds,   *)
(* and either                                                              *)
(*   - the process dies at most once and only writes may fail, or          *)
(*   - it never dies, and the directory sync fails only in a store that    *)
(*     had a file from the start.                                          *)
(* Outside these limits the code does not keep its promise: README.md      *)
(* tells what happens.                                                     *)
(***************************************************************************)
Tolerated ==
    \A e \in Environments :
        /\ "rmBak" \notin e.failing
        /\ \/ e.failing \subseteq {"write"} /\ e.maxCrashes <= 1
           \/ e.maxCrashes = 0 /\ (e.file # missing \/ "syncDirectory" \notin e.failing)

-----------------------------------------------------------------------------
(* The inductive invariant *)

\* A file that holds the old value, or no file where the old value was empty or where a crash
\* had left it in the backup that is now removed.
HoldsOld(f) == IF f = missing THEN before = empty \/ crashes = 1 ELSE f = before

SavingIffBusy == saving = missing <=> call = "idle"

TemporaryHoldsNew == call \in {"rmBak", "renameOld", "renameNew"} => temporary = saving

\* Where the old value is, at each call of the save.
OldValueKept ==
    /\ call \in {"write", "rmBak", "rethrow"} => Load = before
    /\ call = "renameOld" => backup = missing /\ HoldsOld(primary)
    /\ call = "renameNew" => primary = missing /\ HoldsOld(backup)
    /\ call = "syncDirectory" => primary = saving /\ HoldsOld(backup)

\* Only a crash leaves a snapshot in the backup and none in <path>.
BackupAloneAfterCrash ==
    /\ call \in {"idle", "write", "rmBak"} /\ primary = missing /\ backup # missing => crashes = 1
    /\ call = "rethrow" => backup = missing

\* The catch of a failing call finds what rename(path.bak, path) needs.
Restorable ==
    call = "restore" =>
        /\ crashes = 0
        /\ IF backup # missing THEN backup = before ELSE Load = before

\* A store that had a file never becomes empty, as long as the process lives.
NeverEmpty ==
    environment.maxCrashes = 0 /\ environment.file # missing =>
        before # empty /\ (call = "idle" => Load # empty)

IInv == TypeOK /\ SavingIffBusy /\ TemporaryHoldsNew /\ OldValueKept
        /\ BackupAloneAfterCrash /\ Restorable /\ NeverEmpty

\* A load of a store with a file is a snapshot; without one it is empty.
LEMMA LoadType == TypeOK => Load \in Snapshots \cup {empty}
BY DEF TypeOK, Files, Load

LEMMA InitInv == Init => IInv
BY SnapshotFileAssumption
DEF Init, IInv, TypeOK, Files, Calls, SavingIffBusy, TemporaryHoldsNew, OldValueKept, Restorable,
    BackupAloneAfterCrash, NeverEmpty, Load

LEMMA StepInv ==
  ASSUME Tolerated, IInv, [Next]_vars
  PROVE  IInv'
<1> USE SnapshotFileAssumption, LoadType
    DEF IInv, TypeOK, Files, Calls, SavingIffBusy, TemporaryHoldsNew, OldValueKept, Restorable,
        BackupAloneAfterCrash, NeverEmpty, HoldsOld, Load, Go, Return
<1>1. ASSUME NEW v \in Snapshots, Save(v) PROVE IInv'
  BY <1>1 DEF Save
<1>2. CASE WriteTemporary
  BY <1>2 DEF WriteTemporary
<1>3. CASE WriteFails
  BY <1>3 DEF WriteFails
<1>4. CASE RemoveBackup
  BY <1>4 DEF RemoveBackup
<1>5. CASE RenameOld
  BY <1>5 DEF RenameOld
<1>6. CASE RenameNew
  BY <1>6 DEF RenameNew
<1>7. CASE SyncDirectory
  BY <1>7 DEF SyncDirectory
<1>8. CASE CallFails
  <2>1. environment.maxCrashes = 0 /\ crashes = 0 /\ call \in {"renameOld", "renameNew", "syncDirectory"}
    BY <1>8 DEF CallFails, Tolerated
  <2>2. call = "syncDirectory" => before # empty
    BY <1>8, <2>1 DEF CallFails, Tolerated
  <2> QED
    BY <1>8, <2>1, <2>2 DEF CallFails
<1>9. CASE Restore
  BY <1>9 DEF Restore
<1>10. CASE Rethrow
  BY <1>10 DEF Rethrow
<1>11. CASE Crash
  BY <1>11 DEF Crash, Tolerated
<1>12. CASE UNCHANGED vars
  BY <1>12 DEF vars
<1> QED
  BY <1>1, <1>2, <1>3, <1>4, <1>5, <1>6, <1>7, <1>8, <1>9, <1>10, <1>11, <1>12 DEF Next

\* Every file-system call of #saveUnlocked(), a crash and a failure map to a step of the
\* abstract store or leave it unchanged.
LEMMA StepRefines ==
  ASSUME Tolerated, IInv, [Next]_vars
  PROVE  [Abstract!Next]_Abstract!vars
<1> USE SnapshotFileAssumption
    DEF IInv, TypeOK, Files, Calls, SavingIffBusy, TemporaryHoldsNew, OldValueKept, Restorable,
        HoldsOld, Load, Value, Go, Return, Abstract!Next, Abstract!vars
<1>1. ASSUME NEW v \in Snapshots, Save(v) PROVE Abstract!Begin(v)
  BY <1>1 DEF Save, Abstract!Begin
<1>2. CASE WriteTemporary \/ RemoveBackup \/ RenameOld
  BY <1>2 DEF WriteTemporary, RemoveBackup, RenameOld
<1>3. WriteFails => Abstract!Reject
  BY DEF WriteFails, Abstract!Reject, Abstract!End
<1>4. RenameNew => Abstract!Commit
  BY DEF RenameNew, Abstract!Commit
<1>5. SyncDirectory => Abstract!Resolve
  BY DEF SyncDirectory, Abstract!Resolve, Abstract!End
<1>6. CASE CallFails
  <2>1. crashes = 0 /\ call \in {"renameOld", "renameNew", "syncDirectory"}
    BY <1>6 DEF CallFails, Tolerated
  <2> QED
    BY <1>6, <2>1 DEF CallFails
<1>7. Restore => Abstract!TakeBack
  BY DEF Restore, Abstract!TakeBack
<1>8. Rethrow => Abstract!Reject
  BY DEF Rethrow, Abstract!Reject, Abstract!End
<1>9. CASE Crash
  <2>1. crashes = 0
    BY <1>9 DEF Crash, Tolerated
  <2>2. Abstract!Crash
    BY <1>9, <2>1 DEF Crash, Abstract!Crash, Abstract!End
  <2> QED
    BY <2>2
<1>10. CASE UNCHANGED vars
  BY <1>10 DEF vars
<1> QED
  BY <1>1, <1>2, <1>3, <1>4, <1>5, <1>6, <1>7, <1>8, <1>9, <1>10 DEF Next

\* The files and the variables of a save keep their types under the tolerated faults: in
\* particular a save never renames a temporary file that is gone.
THEOREM TypeCorrect ==
  ASSUME Tolerated
  PROVE  Spec => []TypeOK
<1>1. IInv => TypeOK
  BY DEF IInv
<1> QED
  BY <1>1, InitInv, StepInv, PTL DEF Spec

\* Under the tolerated faults, <path> and <path>.bak implement one value that a save replaces
\* as a whole: a save that resolves has replaced it, one that rejects has not, and a crash
\* leaves the old or the new snapshot.
THEOREM Refinement ==
  ASSUME Tolerated
  PROVE  Spec => ImplementsSnapshot
<1>1. Init => Abstract!Init
  BY SnapshotFileAssumption DEF Init, Value, Load, Abstract!Init
<1> QED
  BY <1>1, InitInv, StepInv, StepRefines, PTL DEF Spec, ImplementsSnapshot, Abstract!Spec
=============================================================================
