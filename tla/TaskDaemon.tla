----------------------------- MODULE TaskDaemon -----------------------------
(***************************************************************************)
(* The scheduler: evaluateTick() of packages/app-runtime/src/              *)
(* scheduler-domain.ts, the operations of TaskStore                        *)
(* (packages/storage/src/task-store.ts), and TaskDaemon                    *)
(* (apps/cli/src/daemon.ts), whose tick() runs from a timer, launches      *)
(* child processes and books them when they exit.  Users add, switch and   *)
(* remove tasks meanwhile; the daemon dies and is started again.           *)
(*                                                                         *)
(* A store operation holds the lock from its load to its save: it is one   *)
(* step here (module SnapshotFile has its calls).  An action of a tick is  *)
(* the code between two awaits; the timer waits for no tick, so they may   *)
(* overlap.  enable and disable are two store operations, a read and a     *)
(* write.  Schedules are intervals: a task's windows are Every apart.  The *)
(* clock is advanced by action Pass.                                       *)
(***************************************************************************)
EXTENDS Lists, SequencesExt

CONSTANTS TaskIds,
          MissedRun,         \* task.missedRun: "skip" or "run_latest"
          Overlap,           \* task.overlap: "skip" or "queue"
          Every,             \* schedule.everyMs
          MaxConcurrent,     \* sections.maxConcurrent
          JournalRetention,  \* options.journalRetention
          MaxWindowsPerTick, \* MAX_WINDOWS_PER_TICK
          Ticks,             \* bound: the ticks that may be under way at the same time
          MaxTime,           \* bound: the clock
          MaxStops,          \* bound: daemon exits, by a crash or by a stop
          MaxFaults,         \* bound: store operations that reject
          MaxEdits           \* bound: edits of the task table

ASSUME TaskDaemonAssumption ==
    /\ MissedRun \in [TaskIds -> {"skip", "run_latest"}]
    /\ Overlap \in [TaskIds -> {"skip", "queue"}]
    /\ {Every, MaxConcurrent, JournalRetention, MaxWindowsPerTick, MaxTime} \subseteq Nat \ {0}
    /\ {MaxStops, MaxFaults, MaxEdits} \subseteq Nat

VARIABLES
    now,
    tasks,      \* snapshot.tasks: id, enabled, createdAt
    runs,       \* snapshot.runs, oldest first
    cursors,    \* snapshot.cursors, 0 for a missing one
    daemon,     \* "stopped" in order, "down" after a crash, "booting" or "up"
    bootAt,
    inFlight,   \* #inFlight: the run of each task, 0 for none
    tick,       \* the ticks under way
    children,   \* the runs that were spawned: id, task, window, boot, state, and whether
                \* their tick had been the only one under way
    nextRun,    \* randomUUID()
    held,       \* the definitions that an enable or disable has read and not yet written
    shared,     \* history: the ticks under way that another one has overlapped
    outdated,   \* history: tasks written from a definition that was no longer in the table
    stops, faults, edits

store == <<tasks, runs, cursors>>
history == <<shared, outdated>>
counters == <<stops, faults, edits>>
vars == <<now, store, daemon, bootAt, inFlight, tick, children, nextRun, held, history, counters>>

IdleTick == [pc |-> "idle", now |-> 0, book |-> <<>>, groups |-> <<>>, id |-> 0]

Init ==
    /\ now = 1
    /\ tasks = <<>> /\ runs = <<>> /\ cursors = [t \in TaskIds |-> 0]
    /\ daemon = "stopped" /\ bootAt = 0
    /\ inFlight = [t \in TaskIds |-> 0]
    /\ tick = [k \in Ticks |-> IdleTick]
    /\ children = <<>>
    /\ nextRun = 1
    /\ held = {} /\ shared = {} /\ outdated = {}
    /\ stops = 0 /\ faults = 0 /\ edits = 0

-----------------------------------------------------------------------------
(* TaskStore *)

Run(id, t, status, at) == [id |-> id, task |-> t, status |-> status, at |-> at]

Max2(a, b) == IF a > b THEN a ELSE b

\* Mutants of RecordRun: no retention; no cursor.
RecordRunUnlimited(r) ==
    /\ runs' = Append(runs, r)
    /\ cursors' = [cursors EXCEPT ![r.task] = Max2(@, r.at)]
    /\ UNCHANGED tasks

RecordRunWithoutCursor(r) ==
    /\ runs' = LET all == Append(runs, r)
               IN  SubSeq(all, Max2(1, Len(all) - JournalRetention + 1), Len(all))
    /\ UNCHANGED <<tasks, cursors>>

\* recordRun(): append, keep the newest, advance the task's cursor
RecordRun(r) ==
    /\ runs' = LET all == Append(runs, r)
               IN  SubSeq(all, Max2(1, Len(all) - JournalRetention + 1), Len(all))
    /\ cursors' = [cursors EXCEPT ![r.task] = Max2(@, r.at)]
    /\ UNCHANGED tasks

\* updateRun(): a no-op if the record is gone
UpdateRun(id, status) ==
    /\ runs' = [i \in DOMAIN runs |-> IF runs[i].id = id THEN [runs[i] EXCEPT !.status = status]
                                      ELSE runs[i]]
    /\ UNCHANGED <<tasks, cursors>>

-----------------------------------------------------------------------------
(* evaluateTick() *)

Anchor(t) == IF cursors[t.id] # 0 THEN cursors[t.id] ELSE t.createdAt

\* enumerateWindows(): the windows after the anchor, up to the tick's now
Windows(t, at) ==
    LET n == (at - Anchor(t)) \div Every
    IN  [i \in 1..(IF n < MaxWindowsPerTick THEN n ELSE MaxWindowsPerTick)
           |-> Anchor(t) + i * Every]

\* windows.filter(at => at < bootAt) and windows.filter(at => at >= bootAt)
MissedWindows(t, at) ==
    LET all == Windows(t, at) IN Subsequence(all, {i \in DOMAIN all : all[i] < bootAt})
\* A mutant of DueWindows: the window at the boot itself belongs to neither side.
DueWindowsAfterBoot(t, at) ==
    LET all == Windows(t, at) IN Subsequence(all, {i \in DOMAIN all : all[i] > bootAt})
DueWindows(t, at) ==
    LET all == Windows(t, at) IN Subsequence(all, {i \in DOMAIN all : all[i] >= bootAt})

Running(t) == inFlight[t.id] # 0
WantsFire(t, at) == MissedWindows(t, at) # <<>> /\ MissedRun[t.id] = "run_latest"

\* outcome.missed without the entries that fire: only the latest window is booked
MissedEntries(t, at) ==
    IF MissedWindows(t, at) # <<>>
         /\ (MissedRun[t.id] = "skip" \/ (Running(t) /\ Overlap[t.id] = "skip"))
    THEN <<Last(MissedWindows(t, at))>> ELSE <<>>

\* outcome.skipped
SkippedEntries(t, at) ==
    IF Running(t) /\ Overlap[t.id] = "skip" THEN DueWindows(t, at) ELSE <<>>

\* outcome.fires of one task that are not queued, oldest first
FireGroup(t, at) ==
    IF Running(t) THEN <<>>
    ELSE (IF WantsFire(t, at) THEN <<Last(MissedWindows(t, at))>> ELSE <<>>) \o DueWindows(t, at)

\* The windows W[i] of each enabled task that has any, in the order of the table
Batches(status, W) ==
    Subsequence([i \in DOMAIN tasks
                   |-> [task |-> tasks[i].id, status |-> status, windows |-> W[i]]],
                {i \in DOMAIN tasks : tasks[i].enabled /\ W[i] # <<>>})

Plan(at) ==
    [book   |-> Batches("missed", [i \in DOMAIN tasks |-> MissedEntries(tasks[i], at)])
                    \o Batches("skipped", [i \in DOMAIN tasks |-> SkippedEntries(tasks[i], at)]),
     groups |-> Batches("running", [i \in DOMAIN tasks |-> FireGroup(tasks[i], at)])]

-----------------------------------------------------------------------------
(* tick() *)

Set(k, fields) == tick' = [tick EXCEPT ![k] = fields]

UnderWay == {k \in Ticks : tick[k].pc # "idle"}

\* The timer fires: nothing waits for the previous tick.
StartTick(k) ==
    /\ daemon = "up" /\ tick[k].pc = "idle"
    /\ Set(k, [IdleTick EXCEPT !.pc = "load", !.now = now])
    /\ shared' = IF UnderWay = {} THEN shared ELSE shared \cup UnderWay \cup {k}
    /\ UNCHANGED <<now, store, daemon, bootAt, inFlight, children, nextRun, held, outdated,
                   counters>>

\* loadSnapshot() resolves; evaluateTick() reads #inFlight.
Evaluate(k) ==
    /\ tick[k].pc = "load"
    /\ Set(k, [tick[k] EXCEPT !.pc = "book", !.book = Plan(tick[k].now).book,
                              !.groups = Plan(tick[k].now).groups])
    /\ UNCHANGED <<now, store, daemon, bootAt, inFlight, children, nextRun, held, history,
                   counters>>

\* recordRun() of a missed or skipped window
Book(k) ==
    LET batch == Head(tick[k].book)
    IN  /\ tick[k].pc \in {"book", "launch"} /\ tick[k].book # <<>>
        /\ RecordRun(Run(nextRun, batch.task, batch.status, Head(batch.windows)))
        /\ nextRun' = nextRun + 1
        /\ Set(k, [tick[k] EXCEPT !.book = IF Len(batch.windows) = 1 THEN Tail(@)
                       ELSE [@ EXCEPT ![1] = [batch EXCEPT !.windows = Tail(@)]]])
        /\ UNCHANGED <<now, daemon, bootAt, inFlight, children, held, history, counters>>

InFlightCount == Cardinality({t \in TaskIds : inFlight[t] # 0})

\* A mutant of NextGroup: the older windows of the group are not booked.
NextGroupLatestOnly(k) ==
    /\ tick[k].pc = "book" /\ tick[k].book = <<>> /\ tick[k].groups # <<>>
    /\ Set(k, IF InFlightCount >= MaxConcurrent THEN [tick[k] EXCEPT !.groups = Tail(@)]
              ELSE [tick[k] EXCEPT !.pc = "launch"])
    /\ UNCHANGED <<now, store, daemon, bootAt, inFlight, children, nextRun, held, history,
                   counters>>

\* The capacity gate: a full daemon defers the group, otherwise its older windows are
\* booked as missed and the latest is launched.
NextGroup(k) ==
    LET group == Head(tick[k].groups)
    IN  /\ tick[k].pc = "book" /\ tick[k].book = <<>> /\ tick[k].groups # <<>>
        /\ IF InFlightCount >= MaxConcurrent
           THEN Set(k, [tick[k] EXCEPT !.groups = Tail(@)])
           ELSE Set(k, [tick[k] EXCEPT !.pc = "launch",
                           !.book = IF Len(group.windows) = 1 THEN <<>>
                                    ELSE <<[group EXCEPT !.status = "missed",
                                                         !.windows = Front(@)]>>])
        /\ UNCHANGED <<now, store, daemon, bootAt, inFlight, children, nextRun, held, history,
                       counters>>

Launching(k) == [task |-> Head(tick[k].groups).task, at |-> Last(Head(tick[k].groups).windows)]

\* #rejectLaunch(): the configuration drifted or the directory lost its trust.
RejectLaunch(k) ==
    /\ tick[k].pc = "launch" /\ tick[k].book = <<>>
    /\ RecordRun(Run(nextRun, Launching(k).task, "failed", Launching(k).at))
    /\ nextRun' = nextRun + 1
    /\ Set(k, [tick[k] EXCEPT !.pc = "book", !.groups = Tail(@)])
    /\ UNCHANGED <<now, daemon, bootAt, inFlight, children, held, history, counters>>

\* #launch(): the run is booked as running ...
RecordLaunch(k) ==
    /\ tick[k].pc = "launch" /\ tick[k].book = <<>>
    /\ RecordRun(Run(nextRun, Launching(k).task, "running", Launching(k).at))
    /\ nextRun' = nextRun + 1
    /\ Set(k, [tick[k] EXCEPT !.pc = "spawn", !.id = nextRun])
    /\ UNCHANGED <<now, daemon, bootAt, inFlight, children, held, history, counters>>

\* A mutant of Spawn: the run is not put in flight.
SpawnUnmarked(k) ==
    /\ tick[k].pc = "spawn"
    /\ children' = Append(children, [id |-> tick[k].id, task |-> Launching(k).task,
                                     at |-> Launching(k).at, boot |-> stops, state |-> "running",
                                     alone |-> k \notin shared])
    /\ Set(k, [tick[k] EXCEPT !.pc = "book", !.groups = Tail(@), !.id = 0])
    /\ UNCHANGED <<now, store, daemon, bootAt, inFlight, nextRun, held, history, counters>>

\* ... then put in flight and spawned.
Spawn(k) ==
    /\ tick[k].pc = "spawn"
    /\ inFlight' = [inFlight EXCEPT ![Launching(k).task] = tick[k].id]
    /\ children' = Append(children, [id |-> tick[k].id, task |-> Launching(k).task,
                                     at |-> Launching(k).at, boot |-> stops, state |-> "running",
                                     alone |-> k \notin shared])
    /\ Set(k, [tick[k] EXCEPT !.pc = "book", !.groups = Tail(@), !.id = 0])
    /\ UNCHANGED <<now, store, daemon, bootAt, nextRun, held, history, counters>>

EndTick(k) ==
    /\ tick[k].pc = "book" /\ tick[k].book = <<>> /\ tick[k].groups = <<>>
    /\ Set(k, IdleTick) /\ shared' = shared \ {k}
    /\ UNCHANGED <<now, store, daemon, bootAt, inFlight, children, nextRun, held, outdated,
                   counters>>

\* The pending store operation rejects: the tick is over, what it did stays done.
TickFails(k) ==
    /\ tick[k].pc \in {"load", "launch"} \/ (tick[k].pc = "book" /\ tick[k].book # <<>>)
    /\ faults < MaxFaults
    /\ faults' = faults + 1
    /\ Set(k, IdleTick) /\ shared' = shared \ {k}
    /\ UNCHANGED <<now, store, daemon, bootAt, inFlight, children, nextRun, held, outdated, stops,
                   edits>>

-----------------------------------------------------------------------------
(* The callback of a launched run *)

SetChild(i, s) == children' = [children EXCEPT ![i].state = s]

\* The child process exits.  If its daemon is gone nobody sees it.
ChildExits(i) ==
    /\ children[i].state = "running"
    /\ SetChild(i, IF children[i].boot = stops THEN "exited" ELSE "released")
    /\ UNCHANGED <<now, store, daemon, bootAt, inFlight, tick, nextRun, held, history, counters>>

\* updateRun(); if it rejects twice the record keeps its status.
Settle(i, status) ==
    /\ children[i].state = "exited"
    /\ \/ UpdateRun(children[i].id, status) /\ UNCHANGED faults
       \/ faults < MaxFaults /\ faults' = faults + 1 /\ UNCHANGED store
    /\ SetChild(i, "settled")
    /\ UNCHANGED <<now, daemon, bootAt, inFlight, tick, nextRun, held, history, stops,
                   edits>>

\* finally: #inFlight.delete(task.id)
Release(i) ==
    /\ children[i].state = "settled"
    /\ inFlight' = [inFlight EXCEPT ![children[i].task] = 0]
    /\ SetChild(i, "released")
    /\ UNCHANGED <<now, store, daemon, bootAt, tick, nextRun, held, history, counters>>

-----------------------------------------------------------------------------
(* The daemon process, the users and the clock *)

\* The constructor and boot() up to loadSnapshot()
Boot ==
    /\ daemon \in {"stopped", "down"}
    /\ daemon' = "booting" /\ bootAt' = now
    /\ UNCHANGED <<now, store, inFlight, tick, children, nextRun, held, history, counters>>

LeftRunning == {i \in DOMAIN runs : runs[i].status = "running"}

\* boot() rejudges the next run that the previous daemon left running.
RecoverRun ==
    /\ daemon = "booting" /\ LeftRunning # {}
    /\ \E i \in LeftRunning : (\A j \in LeftRunning : i <= j) /\ UpdateRun(runs[i].id, "failed")
    /\ UNCHANGED <<now, daemon, bootAt, inFlight, tick, children, nextRun, held, history, counters>>

\* A mutant of Booted: the runs of the previous daemon are left alone.
BootedAtOnce ==
    /\ daemon = "booting"
    /\ daemon' = "up"
    /\ UNCHANGED <<now, store, bootAt, inFlight, tick, children, nextRun, held, history, counters>>

Booted ==
    /\ daemon = "booting" /\ LeftRunning = {}
    /\ daemon' = "up"
    /\ UNCHANGED <<now, store, bootAt, inFlight, tick, children, nextRun, held, history, counters>>

\* The process dies ("down"), or is stopped by a signal or because [tasks].enabled became
\* false ("stopped").  Its children go on; what their callbacks had still to do is lost.
Stop(how) ==
    /\ daemon \in {"booting", "up"} /\ stops < MaxStops
    /\ stops' = stops + 1
    /\ daemon' = how
    /\ inFlight' = [t \in TaskIds |-> 0]
    /\ tick' = [k \in Ticks |-> IdleTick] /\ shared' = {}
    /\ children' = [i \in DOMAIN children |->
                      [children[i] EXCEPT !.state = IF @ = "running" THEN @ ELSE "released"]]
    /\ UNCHANGED <<now, store, bootAt, nextRun, held, outdated, faults, edits>>

Present(t) == \E i \in DOMAIN tasks : tasks[i].id = t

\* upsertTask(): in the place of the task with that id, or at the end
Upsert(d) ==
    tasks' = IF Present(d.id)
             THEN [i \in DOMAIN tasks |-> IF tasks[i].id = d.id THEN d ELSE tasks[i]]
             ELSE Append(tasks, d)

\* tasks add and schedule_task create: the id may be that of a known task, whose cursor stays
AddTask(t) ==
    /\ edits < MaxEdits
    /\ edits' = edits + 1
    /\ Upsert([id |-> t, enabled |-> TRUE, createdAt |-> now])
    /\ UNCHANGED <<now, runs, cursors, daemon, bootAt, inFlight, tick, children, nextRun, held,
                   history, stops, faults>>

\* enable and disable: getTask() ...
ReadTask(t) ==
    /\ edits < MaxEdits /\ Present(t)
    /\ edits' = edits + 1
    /\ \E i \in DOMAIN tasks, b \in BOOLEAN :
          tasks[i].id = t /\ held' = held \cup {[tasks[i] EXCEPT !.enabled = b]}
    /\ UNCHANGED <<now, store, daemon, bootAt, inFlight, tick, children, nextRun, history, stops,
                   faults>>

\* ... then upsertTask(): it brings back a task that was removed in between, with its old
\* createdAt and without its cursor, and undoes one that was made anew.
WriteTask(d) ==
    /\ held' = held \ {d}
    /\ Upsert(d)
    /\ outdated' = IF \E i \in DOMAIN tasks : tasks[i].id = d.id /\ tasks[i].createdAt = d.createdAt
                   THEN outdated ELSE outdated \cup {d.id}
    /\ UNCHANGED <<now, runs, cursors, daemon, bootAt, inFlight, tick, children, nextRun, shared,
                   counters>>

\* removeTask(): the task and its cursor, not its runs
RemoveTask(t) ==
    /\ edits < MaxEdits /\ Present(t)
    /\ edits' = edits + 1
    /\ tasks' = Subsequence(tasks, {i \in DOMAIN tasks : tasks[i].id # t})
    /\ cursors' = [cursors EXCEPT ![t] = 0]
    /\ UNCHANGED <<now, runs, daemon, bootAt, inFlight, tick, children, nextRun, held, history,
                   stops, faults>>

Pass ==
    /\ now < MaxTime
    /\ now' = now + 1
    /\ UNCHANGED <<store, daemon, bootAt, inFlight, tick, children, nextRun, held, history,
                   counters>>

-----------------------------------------------------------------------------
TickStep(k) == \/ Evaluate(k) \/ Book(k) \/ NextGroup(k) \/ RejectLaunch(k) \/ RecordLaunch(k)
               \/ Spawn(k) \/ EndTick(k) \/ TickFails(k)

Callback(i) == Release(i) \/ \E s \in {"completed", "failed"} : Settle(i, s)

Edit(t) == AddTask(t) \/ ReadTask(t) \/ RemoveTask(t)

Next == \/ \E k \in Ticks : StartTick(k) \/ TickStep(k)
        \/ \E i \in DOMAIN children : ChildExits(i) \/ Callback(i)
        \/ Boot \/ RecoverRun \/ Booted \/ Pass \/ \E how \in {"stopped", "down"} : Stop(how)
        \/ \E t \in TaskIds : Edit(t)
        \/ \E d \in held : WriteTask(d)

(***************************************************************************)
(* The launchd or systemd unit of deploy/daemon restarts a daemon that     *)
(* exited abnormally (not one that was stopped), the timer of a running    *)
(* one fires, store operations settle, and a child exits: its daemon kills *)
(* it after timeoutMs.                                                     *)
(***************************************************************************)
Spec == /\ Init /\ [][Next]_vars
        /\ WF_vars(daemon = "down" /\ Boot) /\ WF_vars(RecoverRun \/ Booted)
        /\ WF_vars(\E k \in Ticks : StartTick(k))
        /\ \A k \in Ticks : WF_vars(TickStep(k))
        /\ WF_vars(\E i \in DOMAIN children : ChildExits(i))
        /\ WF_vars(\E i \in DOMAIN children : Callback(i))

-----------------------------------------------------------------------------
(* Properties *)

RunRecords == [id : Nat, task : TaskIds,
               status : {"missed", "skipped", "running", "completed", "failed"}, at : Nat]

\* The store, the ticks and the runs keep their types; the journal stays within its limit.
TypeOK ==
    /\ now \in 1..MaxTime
    /\ tasks \in Seq([id : TaskIds, enabled : BOOLEAN, createdAt : 1..MaxTime])
    /\ \A i, j \in DOMAIN tasks : tasks[i].id = tasks[j].id => i = j
    /\ runs \in Seq(RunRecords) /\ Len(runs) <= JournalRetention
    /\ cursors \in [TaskIds -> 0..MaxTime]
    /\ daemon \in {"stopped", "down", "booting", "up"} /\ bootAt \in 0..MaxTime
    /\ inFlight \in [TaskIds -> 0..(nextRun - 1)]
    /\ \A k \in Ticks : tick[k].pc \in {"idle", "load", "book", "launch", "spawn"}
    /\ \A d \in held : d.id \in TaskIds /\ d.createdAt \in 1..MaxTime
    /\ shared \subseteq Ticks /\ outdated \subseteq TaskIds

\* The runs that the present daemon has under way
Mine == {i \in DOMAIN children : children[i].boot = stops /\ children[i].state = "running"}

\* A window that was run by a tick which had the store to itself is not run again, over
\* crashes, restarts, removals and later ticks that overlap.  (Two ticks that overlap may both
\* run a window, and a task that an enable or disable brings back has lost its cursor.)
WindowRunsOnce ==
    \A i, j \in DOMAIN children :
        /\ i < j /\ children[i].task = children[j].task /\ children[i].at = children[j].at
        => ~children[i].alone \/ children[i].task \in outdated

\* The ticks that launched runs of t for the present daemon did not overlap.
Clean(t) ==
    \A i \in DOMAIN children :
        children[i].task = t /\ children[i].boot = stops => children[i].alone

\* A daemon never has two runs of one task under way, unless ticks that overlapped launched
\* one of its runs: the end of either run then clears #inFlight for both.
NoOverlap ==
    \A i, j \in Mine : children[i].task = children[j].task /\ Clean(children[i].task) => i = j

\* No window that was due while the daemon was up is passed over in silence: a step that
\* moves a task's cursor books the window it moves it to and jumps over missed ones only, as
\* long as no ticks overlap and the task was not written from an outdated definition.
DueWindowsBooked ==
    [][\A t \in TaskIds \ outdated : shared = {} /\ cursors'[t] > cursors[t] =>
          \A i \in DOMAIN tasks : tasks[i].id = t =>
              \A w \in (Anchor(tasks[i]) + Every)..(cursors'[t] - 1) :
                  (w - Anchor(tasks[i])) % Every = 0 => w < bootAt]_vars

\* Every run booked as running is settled in the end, if not by its daemon then by the one
\* that follows a crash; only a daemon that was stopped leaves it running until the next start.
RunSettles ==
    \A id \in 1..(2 * MaxTime) :
        (\E i \in DOMAIN runs : runs[i].id = id /\ runs[i].status = "running")
            ~> \/ daemon = "stopped"
               \/ ~\E i \in DOMAIN runs : runs[i].id = id /\ runs[i].status = "running"

\* A window of an enabled task is due, and nothing has been booked at or after it.
Waits(t, w) ==
    \E i \in DOMAIN tasks : /\ tasks[i].id = t /\ tasks[i].enabled
                            /\ now >= w /\ w = Anchor(tasks[i]) + Every

\* With a slot for each task no window waits for ever: one that is deferred because its task
\* runs, or whose tick died with the daemon, is evaluated again until it is booked, unless the
\* daemon is stopped or the task is disabled, removed or made anew.  With fewer slots than
\* tasks, those first in the table may take every slot.
WindowBooked ==
    MaxConcurrent >= Cardinality(TaskIds) =>
        \A t \in TaskIds, w \in 1..MaxTime : Waits(t, w) ~> daemon = "stopped" \/ ~Waits(t, w)
=============================================================================
