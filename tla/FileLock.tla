------------------------------ MODULE FileLock ------------------------------
(***************************************************************************)
(* The five lock-file protocols of the repository.  All create the file    *)
(* with open(path, 'wx'), write the owner's pid into it, and remove it to  *)
(* release; they differ in how a process that finds the file judges its    *)
(* owner and in what it does with a dead one:                              *)
(*   task       packages/storage/src/task-store.ts     TaskStore           *)
(*   memory     packages/storage/src/memory-file-lock.ts                   *)
(*   evolution  packages/storage/src/evolution-store.ts EvolutionLock      *)
(*   shared     packages/shared/src/file-lock.ts       acquireFileLock     *)
(*   daemon     apps/cli/src/daemon.ts                 acquireDaemonLock   *)
(*                                                                         *)
(* A step is one file-system call.  A dead process stays dead: pids are    *)
(* not reused.  Deadlines and attempt counts are abstracted to a process   *)
(* that may give up whenever it waits.                                     *)
(***************************************************************************)
EXTENDS Integers, FiniteSets

CONSTANTS Processes,
          Policies,    \* the protocols this instance starts with
          SlowWriters, \* may a live owner take longer than the grace period to write its pid?
          MaxDeaths,  \* bound: processes that die
          MaxReaps,    \* reapsLeft of file-lock.ts
          absent       \* no lock file

AllPolicies == {"task", "memory", "evolution", "shared", "daemon"}

ASSUME FileLockAssumption ==
    /\ Policies \subseteq AllPolicies
    /\ SlowWriters \in BOOLEAN
    /\ MaxDeaths \in Nat
    /\ MaxReaps \in Nat
    /\ absent \notin [by : Processes, written : BOOLEAN, old : BOOLEAN]

VARIABLES policy,   \* the protocol in use
          file,     \* the lock file: its creator, whether the pid is in it, its age
          pc,       \* the next file-system call of each process
          reaps,    \* stale locks removed by the current acquireFileLock()
          deaths

lockVars == <<policy, file, pc, reaps, deaths>>

New(p) == [by |-> p, written |-> FALSE, old |-> FALSE]

LockInit ==
    /\ policy \in Policies
    /\ file = absent
    /\ pc = [p \in Processes |-> "idle"]
    /\ reaps = [p \in Processes |-> 0]
    /\ deaths = 0

Dead(p) == pc[p] = "dead"       \* process.kill(pid, 0) fails with ESRCH
At(p, label) == pc' = [pc EXCEPT ![p] = label]

-----------------------------------------------------------------------------
(* Acquiring *)

Acquire(p) ==
    /\ pc[p] \in {"idle", "failed"}
    /\ At(p, "open")
    /\ reaps' = [reaps EXCEPT ![p] = 0]
    /\ UNCHANGED <<policy, file, deaths>>

\* open(path, 'wx'): the file is created empty, or EEXIST
Open(p) ==
    /\ pc[p] = "open"
    /\ \/ file = absent /\ file' = New(p) /\ At(p, "write")
       \/ file # absent /\ UNCHANGED file /\ At(p, "inspect")
    /\ UNCHANGED <<policy, reaps, deaths>>

\* writeFile, sync and close.  A file that was unlinked meanwhile is written all the same.
Write(p) ==
    /\ pc[p] = "write"
    /\ file' = IF file # absent /\ file.by = p THEN [file EXCEPT !.written = TRUE] ELSE file
    /\ At(p, "held")
    /\ UNCHANGED <<policy, reaps, deaths>>

\* The write fails and acquire() rejects.  task and memory remove the file, whoever owns it by
\* now; the others leave it behind, empty.
PidWriteFails(p) ==
    /\ pc[p] = "write"
    /\ file' = IF policy \in {"task", "memory"} THEN absent ELSE file
    /\ At(p, "failed")
    /\ UNCHANGED <<policy, reaps, deaths>>

-----------------------------------------------------------------------------
(* Judging the owner *)

Content == IF file = absent THEN "nothing" ELSE IF file.written THEN "pid" ELSE "empty"

OwnerDead == file # absent /\ file.written /\ Dead(file.by)

\* lockOwnerAlive() of task-store.ts: what cannot be read or parsed is dead
TaskReclaims == OwnerDead \/ Content # "pid"

\* A mutant of MemoryReclaims: a dead owner counts as alive.
MemoryReclaimsUnparsable == Content = "nothing" \/ (Content = "empty" /\ file.old)

\* lockOwnerAlive() of memory-file-lock.ts: an unparsable file has a grace period
MemoryReclaims == OwnerDead \/ Content = "nothing" \/ (Content = "empty" /\ file.old)

\* #holderAlive() of evolution-store.ts
EvolutionReclaims == OwnerDead \/ Content # "pid"

\* A mutant of SharedReclaims: off by one.
SharedReclaimsOnceMore(p) == OwnerDead /\ reaps[p] <= MaxReaps

\* reapStaleLock() of file-lock.ts, up to its stat
SharedReclaims(p) == OwnerDead /\ reaps[p] < MaxReaps

\* A mutant of DaemonReclaims: an unparsable file is a dead process's, without a grace period.
DaemonReclaimsUnparsable == OwnerDead \/ Content = "empty"

\* acquireDaemonLock(): ownerPid stays 0 and alive stays true for an unparsable file
DaemonReclaims == OwnerDead

Reclaims(p) ==
    \/ policy = "task" /\ TaskReclaims
    \/ policy = "memory" /\ MemoryReclaims
    \/ policy = "evolution" /\ EvolutionReclaims
    \/ policy = "shared" /\ SharedReclaims(p)
    \/ policy = "daemon" /\ DaemonReclaims

\* readFile and kill(pid, 0).  A live owner makes a daemon exit and the others wait.
Inspect(p) ==
    /\ pc[p] = "inspect"
    /\ At(p, IF Reclaims(p) THEN (IF policy = "shared" THEN "stat" ELSE "reap")
             ELSE IF policy = "daemon" THEN "failed" ELSE "wait")
    /\ UNCHANGED <<policy, file, reaps, deaths>>

\* file-lock.ts: the age of whatever file is there now
Stat(p) ==
    /\ pc[p] = "stat"
    /\ At(p, IF file # absent /\ file.old THEN "reap" ELSE "wait")
    /\ UNCHANGED <<policy, file, reaps, deaths>>

\* rm of whatever file is there now, then the next attempt; EvolutionLock renames its own
\* file over it and reads it back.
Reap(p) ==
    /\ pc[p] = "reap"
    /\ file' = IF policy = "evolution" THEN [New(p) EXCEPT !.written = TRUE] ELSE absent
    /\ reaps' = [reaps EXCEPT ![p] = IF policy = "shared" THEN @ + 1 ELSE @]
    /\ At(p, IF policy = "evolution" THEN "verify" ELSE "open")
    /\ UNCHANGED <<policy, deaths>>

\* EvolutionLock: is the file still mine?  A removed file makes readFile reject.
Verify(p) ==
    /\ pc[p] = "verify"
    /\ At(p, IF file = absent THEN "failed" ELSE IF file.by = p THEN "held" ELSE "open")
    /\ UNCHANGED <<policy, file, reaps, deaths>>

\* The delay is over, or the deadline or the last attempt has passed.
Retry(p) ==
    /\ pc[p] = "wait"
    /\ \E next \in {"open", "failed"} : At(p, next)
    /\ UNCHANGED <<policy, file, reaps, deaths>>

-----------------------------------------------------------------------------
(* Releasing, dying and time *)

\* task and memory remove the file only if it still holds their token.
Release(p) ==
    /\ pc[p] = "held"
    /\ At(p, IF policy \in {"task", "memory"} /\ (file = absent \/ file.by # p)
             THEN "idle" ELSE "remove")
    /\ UNCHANGED <<policy, file, reaps, deaths>>

Remove(p) ==
    /\ pc[p] = "remove"
    /\ file' = absent
    /\ At(p, "idle")
    /\ UNCHANGED <<policy, reaps, deaths>>

Dies(p) ==
    /\ pc[p] \notin {"idle", "dead"}
    /\ deaths < MaxDeaths
    /\ deaths' = deaths + 1
    /\ At(p, "dead")
    /\ UNCHANGED <<policy, file, reaps>>

\* The file gets older than the grace period (1 s, memory) or the reap age (60 s, shared).
Age ==
    /\ file # absent /\ ~file.old
    /\ ~file.written /\ pc[file.by] = "write" => SlowWriters
    /\ file' = [file EXCEPT !.old = TRUE]
    /\ UNCHANGED <<policy, pc, reaps, deaths>>

-----------------------------------------------------------------------------
Attempt(p) == \/ Open(p) \/ Write(p) \/ PidWriteFails(p) \/ Inspect(p)
              \/ Stat(p) \/ Reap(p) \/ Verify(p) \/ Retry(p)

Step(p) == Attempt(p) \/ Release(p) \/ Remove(p)

LockNext == (\E p \in Processes : Acquire(p) \/ Step(p) \/ Dies(p)) \/ Age

(***************************************************************************)
(* A live process's pending file-system call returns, its work under the   *)
(* lock ends, and time passes.  Nobody has to ask for the lock.            *)
(***************************************************************************)
LockSpec == LockInit /\ [][LockNext]_lockVars /\ WF_lockVars(Age) /\ \A p \in Processes : WF_lockVars(Step(p))

-----------------------------------------------------------------------------
(* Properties *)

Labels == {"idle", "open", "write", "inspect", "stat", "reap", "verify", "wait", "held",
           "remove", "failed", "dead"}

\* The lock file and the processes keep their types.
LockTypeOK ==
    /\ policy \in AllPolicies
    /\ file \in [by : Processes, written : BOOLEAN, old : BOOLEAN] \cup {absent}
    /\ pc \in [Processes -> Labels]
    /\ reaps \in [Processes -> 0..MaxReaps]
    /\ deaths \in 0..MaxDeaths

Holders == {p \in Processes : pc[p] = "held"}

\* acquireFileLock() and acquireDaemonLock(): as long as no process has died, at most one is
\* in the critical section; no interleaving of open, write, read, stat and rm steals a lock
\* from a live owner.
ExclusiveUntilCrash ==
    policy \in {"shared", "daemon"} /\ deaths = 0 => \A p, q \in Holders : p = q

\* A lock file left by a dead owner that wrote its pid is stale.
Stale == OwnerDead

\* A hard kill does not wedge the lock: a process that asks for a stale lock does not wait
\* for ever on it, either the lock is recovered or the process stops asking.  (The shared
\* protocol is left out: it reaps a lock only after 60 s, and MaxReaps times at most.)
StaleRecovered ==
    \A p \in Processes :
        policy # "shared" /\ Stale /\ pc[p] = "open" ~> ~Stale \/ pc[p] \in {"failed", "dead", "idle"}
=============================================================================
