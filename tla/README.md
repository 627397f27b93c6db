# Formal models of the volund agent runtime

TLA+ models of the stateful core of this repository: the agent loop with its context policy, the
subagent dispatcher, the session controller and its web projection, the permission chain in front of
every tool call, the remote link and its gateway, the lock files, the snapshot files and the task
scheduler. TLC checks them on small instances; TLAPS proves, for every value of the constants, every
invariant and every action property that the runs check, and that a snapshot file implements one
atomically replaced value. `PROJECT.json` holds the machine-readable index: which definition models
which lines, which run checks which property, which findings and hazards there are.

## 1. Inventory

| Component | State | Operations | Interacts with |
|---|---|---|---|
| Agent loop, `packages/core/src/runner.ts` | `SessionState` (messages, turns, activeTurn, pendingInterrupt, usage), the turn's AbortController, `#lastTurn`, locals of `run()` | `run`, `interrupt` | router, providers, tools, context policy, event bus |
| Event bus and session storage, `core/src/event-bus.ts`, `storage/src/index.ts` | subscribers; one JSONL file per session | `emit`, `append`, `load` | every component emits; the storage subscriber is awaited by the emitter |
| Replay, `core/src/replay.ts` | none | `replaySessionState` | reads the JSONL when a session is resumed |
| Context policy, `packages/context/src/index.ts` | none | `shouldCompact`, `compact`, `buildPrompt` | called by the loop between two awaits |
| Subagent dispatcher, `packages/subagent/src/index.ts` | `#active`, `#activeBySession`, `#runs`, `#cancelledRuns` | `dispatch`, `cancel`, `cancelAllRunning`, `rebuildFromJournal`, `inheritRuns` | owns child Runners; listens to the parent's abort signal; writes into the parent's journal; replaced by a config reload (`apps/cli/src/runtime.ts`) |
| Lock files, five copies | the lock file | acquire, release, reclaim of a stale file | processes of the same user |
| Snapshot files, `memory-runtime.ts`, `task-store.ts` | `<path>`, `<path>.bak`, a temporary file | load, save | the lock; crashes |
| Task scheduler, `scheduler-domain.ts`, `task-store.ts`, `apps/cli/src/daemon.ts` | tasks, runs, cursors on disk; `#inFlight`, timer | `evaluateTick`, `upsertTask`, `removeTask`, `recordRun`, `updateRun`, `boot`, `tick`, `stop` | child processes; users who edit tasks; launchd or systemd |
| Session controller, `app-runtime/src/session-controller.ts`, and `web-server/src/session-hub.ts` | `runner`, `events`, `turnFlight`; the hub's attached facade and its subscription | `submit`, `interrupt`, `startInteractive`, `resume`, `delete`, `end`; hub `submit`, `start`, `resume`, `closeActive` | Runner, TUI, web clients, session files |
| Permission chain, `packages/permission`, `app-runtime/src/permission.ts`, `contracts.ts`, `apps/cli/src/permissions-store.ts` | mode, cache, server list, skill grants and queue of a manager; frozen snapshots and escalations; pending cards; rules in memory and on disk | `request`, `record`, `decide`, `/mode`, `grantEphemeral`, `persist` | tools, turn signals, UI, subagents, two TOML files |
| Remote link, `packages/remote-link`, and uplink, `gateway-server/src/uplink.ts` | `running`, `state`, socket, forwarding, signature; at the gateway the registered connection, its snapshot and the RPCs in flight | `start`, `stop`, the dialling loop, `handleFrame`; `attach`, `call`, `acceptResult` | session hub, network, `/v1/ws` and REST clients, a peer with the same credential |
| Router, `packages/router` | breaker and attempt state | `pick`, `onError`, `onSuccess` | Runner |
| Evolution store, memory domain, trust store | records with a review life cycle | propose, approve, roll back | snapshot files, locks |
| Plugins, MCP, servers, UI, native crates | connections, processes, views | I/O | the outside |

What is hard to get right in it:

* `run()` and `dispatch()` are long async functions; `interrupt()`, `cancel()`, a reload or another
  dispatch can happen at each of their awaits, and values read before an await are used after it.
* `EventBus.emit` awaits its subscribers, so that a disk error becomes a control-flow event in the
  middle of a turn.
* The process can die at any await; what is rebuilt comes from the journal only.
* Lock files are judged by content and removed by name, in separate system calls.
* A save is five file-system calls, each of which can fail or be the last one before a crash.
* A timer starts a tick whether or not the previous one is over.
* One session is active per process, and the TUI, the web and the phone replace it under a turn of
  one another; the old turn unwinds while the new session runs.
* A permission request waits for a person, a timer or an interrupt, whichever is first, with the
  rules, the mode and the runner changing meanwhile.
* A connection can be lost at one end before the other notices; what was asked on the old one is
  answered on the new one.

What makes each component correct: every request to a provider answers the tool calls it contains,
a turn ends once, an interrupt ends its turn, what is replayed is what was live (Runner); a slot is
given back, a cancellation is shown, the journal tells the registry's story (Subagent); at most one
holder, and a dead holder does not wedge the lock (FileLock); one atomically replaced value
(SnapshotFile); a window runs once, none is passed over in silence, runs settle (TaskDaemon); turns
are serial, a replaced session does not lock the next one out, deleted sessions stay deleted
(Sessions); no card outlives its turn, every request is decided, what was decided is kept
(Approvals); clients are bound to the live connection, the gateway answers with the machine's state,
a link comes back (RemoteLink).

## 2. Modules

`Lists` — operators only: `Array.prototype.filter` as `Subsequence` and a reduce to a sum as `SumOf`, in a
form that proofs can use. `ContextPolicy`, `Runner`, `Subagent` and `TaskDaemon` are built from them.

`ContextPolicy` (extends `Lists`) — operators only: the sliding window of `SlidingWindowPolicy`. A
message is its role, the tool ids in it, its token count and whether it is pinned. `WindowStart`,
`SelectedIndices` and `Select` are the three parts of `select()`, `Compact` and `BuildPrompt` its
two uses.

`Runner` (extends `ContextPolicy`) — one session. `pc` names the await at which `run()` is suspended
and an action is the code up to the next one. The two forms of `emit` are `Emit` (journaled events
that replay or the daemon reads) and `EmitQuiet` (the others); both may reject, into the catch block
or out of `run()` depending on where the code awaits them. A rejected write may or may not have
reached the file. `CrashAndResume` replaces the whole state by what `replaySessionState()` computes
from the journal. Providers, router, composer and tools are external: their answers are
nondeterministic, `execute()` settles and does not reject (`ToolExecutor` turns exceptions into
results). Token usage is one per assistant message.

`Subagent` — several `dispatch()` calls of one process. `phase[d]` is the await of call `d`. The
child's own loop is the module `Runner`; here it is a phase that ends in some way, and it does not
end before its nested dispatch calls, which are its tools. `Cascade` is the effect of
`runner.interrupt()`: the abort listeners of the children fire in the same step. Crash, rebuild from
the journal and replacement of the dispatcher are actions. `Merged` is the registry that
`rebuildFromJournal()` leaves: one row for each dispatched event, in the order of the journal
(`startedAt` grows with it), the known rows as they are and the others `Replayed`. A dispatch call
that a reload has cut off (`stale`) writes into the registry of the old dispatcher, which nothing
reads any more and which is not kept.

`FileLock` — the five lock-file protocols under one state machine with one action per file-system
call. They share the shape (exclusive create, write the pid, remove to release) and differ in
`Reclaims`, in what `Reap` does and in what a failing write leaves behind. `LockInit` chooses the
protocol from `Policies`.

`SnapshotStore` — what a snapshot file promises: a value that a save replaces as a whole; until the
save returns the new value may be taken back; a crash leaves the old or the new one. `SnapshotFile`
— the calls of `#saveUnlocked()` on `<path>`, `<path>.bak` and the temporary file, with the store's
environment (its first file, the calls that may fail, the number of crashes) chosen by `Init`, and
`ImplementsSnapshot` mapping it to `SnapshotStore`: while the old value can still come back it is
the abstract value, afterwards what a load would find.

`TaskDaemon` — `evaluateTick()` as the operators `Windows` to `Plan`, the store operations (one step
each: they hold the lock from load to save), the ticks with their awaits, launched children and
their callbacks, boot recovery, stops and crashes, users' edits, a clock. Any number of ticks may be
under way, since the timer waits for none. What a tick has left to book (`tick.book`) is a list of
batches, one for each task with its policy's verdict and its windows; `Book` takes one window at a
time, as the loop over `recordRun` does. `enable` and `disable` are two store operations with the
lock released in between: `ReadTask` puts what `getTask` returned, switched, into `held`, and
`WriteTask` upserts it later, whatever became of the task. Three history variables name what the
properties except: `shared`, the ticks under way that another one has overlapped; `alone` of a
child, whether its tick was not one of them; `outdated`, the tasks that were written from a
definition that was no longer in the table.

`Sessions` — `SessionController` and an embedded `SessionHub`. A flight is one `run()` call, of which
only start, interrupt, hang and return are seen (its steps are `Runner`); an operation is one call of
start, resume, delete or end, and `stage[o]` the await at which it is suspended. `Replace` is the
synchronous head of `activate()`, `Install` what follows `createRunner`, `Announce` what follows the
first event and the hub's re-attachment. Two writers append to an archive without anybody waiting
for them: a background shell, whose start or exit goes to the bus the registry was wired to last
(`bus`, `ShellReports`), and `setModel`. `writes` are the sessions with such an append under way;
`Written` is `SessionStore.append`, which opens the archive or makes it anew. `raced` is a history
variable: something began inside the window of an operation.

`Approvals` — the managers of several runners (a top-level session, its replacement, a child), the
policy that freezes their modes, the card queue they share and the rule store. `phase[c]` is the
await of tool call `c`; `lost` is a promise that nothing resolves. `Resolution` is the decision chain
of `request()`, `Decide` the whole of `decide()` and `record()` up to the next await, `FlushProbe` and
`FlushWrite` the two halves of a write. A key stands for a tool and its spec, `Gen` for the pattern
it is generalised to.

`RemoteLink` — one machine and the gateway. A loop is one `loop()` call, a connection one socket with
a sequence of frames in each direction. `Break` cuts a connection; both ends notice by themselves.
Ids of RPCs are counted per registered connection, as `RemoteHub` does, and a result goes out on the
socket of the moment. At the gateway a result is taken in two steps, as `acceptResult` only resolves
a promise: `Settle` queues what it will do to the snapshot in `applying`, and `Apply` is the
continuation. The further frames of its chunk are handled before that (`Report` and `Settle` do not
wait for `applying`), everything else after it (`Settled`); `overtaken` is a history variable: the
last state frame was handled with a result still to apply. `stop()` is one step: its last assignment really comes after the closing
handshake, at most a second later.

`SessionsProofs`, `RemoteLinkProofs`, `ApprovalsProofs`, `SubagentProofs`, `RunnerProofs`,
`TaskDaemonProofs` — theorems about the component of that name. `StoreProofs` — theorems about
`FileLock` and `SnapshotFile`, the two halves of a store on disk. `ListsProofs` — the lemmas about
`Lists` that the last three component modules need. `MC*` — instances for TLC.

Every bound on an unbounded quantity is a constant named `Max...` that guards an action and is
commented in the module.

## 3. Runs

Passing runs:

| Run | Shows |
|---|---|
| `runner_loop` | requests are paired, no tool outlives its turn, a resume rebuilds the conversation from the journal, turns end and an interrupted turn ends as aborted; two providers, two turns, two parallel tools, one interrupt, one exception, one crash with its resume |
| `runner_failures` | requests stay paired through compactions, a task run's journal holds each turn's events in order with at most one end, when a write is rejected and the process crashes and resumes; while no write was rejected, no turn stays open; two parallel tools, no interrupt |
| `subagent_dispatch` | journal and registry agree, `interrupted` is shown for dead runs only, an abort reaches every listening descendant in one step, every dispatch settles and gives its slot back, a cancellation is shown; two calls, nested or not, two rejected writes, reloads, a crash, a registry that overflows and is rebuilt |
| `lock_protocols` | all five protocols: mutual exclusion until the first crash for the shared and the daemon lock, nobody waits for ever on the lock of a dead owner for the other four |
| `snapshot_faults` | the refinement of `SnapshotStore`, under failing calls and under a crash |
| `daemon_ticks` | what a tick with the store to itself has run is never run again, runs of one task do not overlap once the ticks do not, no due window is passed over while no ticks overlap; two ticks at a time, enable and disable in two steps |
| `daemon_liveness` | runs settle, through a crash too; with a slot for each task no window waits for ever |
| `approvals_cards` | no card of an interrupted turn is displayed and a manager has one request out at a time; the files follow the rules; an escalation outlives its runner; every request is decided |
| `sessions_operations` | turns are serial, the lock follows the runner, the hub follows the controller, no operation brings a deleted archive back |
| `remote_link` | clients and RPCs are bound to the live connection, the gateway's snapshot is the machine's active session once the frames are delivered, a link comes online again |

Bounds. Two turns are needed for state that crosses turns (`#lastTurn`, a late tool), two loops for
a tool round trip, two parallel tools for the order of their results. In `runner_loop` the context
never fills; in `runner_failures` it fills with the fourth message, and three loops give a window
that begins with a tool result; both have two parallel tools and a crash. Two dispatch calls give a
parent and its child, or siblings; the history limit of 1 makes the registry overflow. Three
processes give two that reclaim and one that owns. The scheduler has three time units (a window before,
at and after a boot) and an interval of 1. In `daemon_liveness` it has two tasks with opposite
policies, a slot for each, and one tick at a time. In `daemon_ticks` two ticks share one task, which
catches up on what it missed and skips what overlaps, so that every list of `Plan` is used; both
ticks hold a plan of the same windows while the store, the journal (two entries) and `#inFlight`
change under them. The constraint `Bounded` of that run allows three faults, stops and edits
together, and two in behaviours with overlapping ticks: a removal between the two steps of an enable
takes three edits. In `approvals_cards` two calls of one key can queue in one manager, or stand in the managers
of a parent and a child, or of a session before and after it was ended; the key is at once a file
write, an MCP tool and under a loaded deny rule, so that every branch of the decision chain is
taken. In `sessions_operations` three runners and three operations allow a
replacement, an end or deletion of what it replaced or made, and another session; two flights, an
old and a new turn. Two connections and two starts with a stop between them
give a reconnection, a replacement by a peer and two loops at once; two changes, a session change
next to a registration of the peer.

`sessions_operations` does not go on from a state in which something has begun inside the window of
an operation (`Calm`): of those the properties, except the types, say nothing. One append that
nobody waits for may be under way; two would differ by their sessions only.

Runners, ids, flights and operations of `Sessions` are interchangeable, and the two ticks of
`daemon_ticks` differ in their names only; the runs over them have no liveness property, hence their
symmetry sets; no other run has one. The runs of `TaskDaemon`,
`Sessions`, `Approvals` and `RemoteLink` do not check deadlock: when the clock, the turns or the
connections are used up, an idle system has nothing to do.

Violation runs. Each states what a comment of the repository says and shows a behaviour of the code
that contradicts it; `findings` in `PROJECT.json` quotes the line.

| Run | What happens |
|---|---|
| `approvals_abort` | an interrupt while `tool.permission_asked` is being emitted: the card request sees an aborted signal before it is in the queue, `settle()` finds nothing to settle, and the turn waits for ever |
| `sessions_serial` | `activate()` voids the lock and awaits `createRunner` with the old runner in place: a submit in that window is a second `run()` on it |

Other limits of the code, met while modelling. The models contain these behaviours; the properties
above are stated so as not to claim the contrary, and no run is kept for them.

* Context: a tool result in the window brings back its assistant message, whose other calls then
  have no result: `select` computes the ids it needs once (`context/src/index.ts:169`), while the
  design document 08b-context-policy says that pairs are kept and a test "keeps tool pairs and turn
  boundaries" (`context/src/__tests__/index.test.ts:99`). `RequestPaired` therefore says that no
  result is ever without its call; that a call has its result it says only of messages with a single
  call, and of all of them where nothing was dropped.
* Runner: an exhausted budget is journaled as `user_interrupt` (`runner.ts:523`); the usage of an
  aborted turn is missing after a resume (`replay.ts:149`); a rejected journal write fails the turn,
  and outside the try it leaves the turn active (`event-bus.ts:60`); `#lastTurn` skips aborted
  turns.
* Subagent: parallel dispatches pass the limit, since check and registration are an await apart
  (`subagent/src/index.ts:384`; a test says "bounds fan-out concurrency"); a dispatch beyond the
  limit is refused, not queued; a parent aborted, or a run cancelled, before `run()` starts does not
  stop the child; an aborted child is `partial` whatever aborted it; a cancelled run becomes
  `failed` if its settled event is rejected; a rejected `subagent.dispatched` keeps the slot; a
  reload replaces the dispatcher under a child that is being created, and if a rebuild of the new one
  meets its dispatched event, the row says `interrupted` for good, however the child ends.
* Locks: a release and re-creation between the look and the removal gives the memory lock two
  holders without any crash (`memory-file-lock.ts:69`); the grace period of the task store is
  unreachable, since an empty file fails to parse first (`task-store.ts:407`); two processes that
  judged one dead owner can remove one another's file, in every protocol; an empty file blocks every
  later daemon (`daemon.ts:407`); the evolution lock is stolen from a live holder that has not
  written its pid yet.
* Snapshots: when the removal of the old backup fails, the catch block restores it over the current
  file (`task-store.ts:264`); after a crash that left only the backup, the next save removes it
  first and a second crash loses the data (`memory-runtime.ts:849`).
* Scheduler: two ticks that overlap both run a window they have planned, exceed the capacity, and
  the end of either run clears `#inFlight` for both (`daemon.ts:515`); `WindowRunsOnce` and
  `NoOverlap` except what overlapped ticks launched. An enable or disable that has read a task
  before it was removed brings it back with its old `createdAt` and without its cursor
  (`tasks.ts:155`), and its windows run again; one that has read it before it was made anew undoes
  that. With fewer slots than tasks, the tasks that are first in the table can take every slot that
  is free when a tick comes, and a task behind them waits for ever (`daemon.ts:593`); `WindowBooked`
  is about a slot for each task. A task removed during a tick gets a cursor again; retention can
  drop the record of a run in flight, whose result is then not stored.
* Sessions: a turn submitted during an activation keeps the new session's lock; a failed activation
  leaves the interrupted turn unwinding with its lock void; `end()` during a turn never voids the
  lock, and forgets whatever runner is there when it is over; a turn that unwinds after its session
  was deleted writes the archive again, and so do the background shells that `delete()` itself
  kills: their exit is emitted on the bus of the deleted session, when it comes
  (`session-controller.ts:700`), and `append` creates the file (`storage/src/index.ts:82`), although
  the comment on `delete()` (`session-controller.ts:502`) says that the session is ended first lest
  an append make the file anew. An emit of `session.model_changed` can come late in the same way. `TurnsSerial`, `LockFollowsRunner`, `HubFollows` and
  `DeletedStays` say what holds otherwise (`Undisturbed`, and the exceptions they name). The hub
  attaches twice to a session it started itself and leaks the first subscription; a rejected
  `createRunner` leaves it detached.
* Approvals: a queued request looks again at the signal only, not at the rules, the mode or the
  server list that the answer before it changed (`permission/src/index.ts:296`); a file write
  allowed in mode auto is cached and stays allowed after `/mode ask`; a frozen snapshot of mode full
  outlives `/mode`; an escalation answered by a replaced runner does not reach the runner that is
  being created; after the rules are written the tool runs without another look at the signal.
* Remote link: after standing down for a peer `running` stays true and `start()` does nothing;
  `stop()` while a token is fetched does not stop the dial; a stop and a start can leave two loops,
  and the late close of the older socket clears the newer one; a failed dial after `stop()` shows
  "connecting"; a session change between register and registered, and `closeActive`, are not pushed;
  ids of RPCs restart with each registration, so that the late answer of an old connection can
  settle another call; and when a result and a state frame arrive in one chunk, the state frame is
  applied first (`websocket.ts:173`) and the older result overwrites it (`uplink.ts:362`), until the
  next frame, although the comment on `optimistic` (`uplink.ts:351`) has the state frame overwrite
  the result.
* MCP (`mcp-domain.ts`, read but not modelled): disabling a server during an attempt ends connected;
  a reload reuses the attempt in flight; overlapping attempts leak a client.

## 4. Fairness

* Runner: weak fairness of the steps of `run()`. The event loop continues a settled promise, and the
  awaited callees settle (providers and tools have timeouts). Nothing makes a user start a turn or
  interrupt one, and nothing makes a write fail or a process crash.
* Subagent: weak fairness of each dispatch call; that `run()` ends is `TurnTerminates` of Runner.
  The liveness properties of Runner and Subagent are about sessions whose journal can be written: they
  except behaviours with a rejected write.
* FileLock: weak fairness of each live process's pending call and of the passing of time; nobody has
  to ask for the lock, and a waiting process may give up (deadlines and attempt counts).
* TaskDaemon: the timer fires, store operations and callbacks proceed, a child exits (its daemon
  kills it after `timeoutMs`), and a daemon that died is restarted by the launchd or systemd unit of
  `deploy/daemon`. These restart on abnormal exit only, so a stopped daemon need not come back and
  the liveness properties say so. The clock owes nothing, and `WindowBooked` does not rest on its
  bound: a window of a task that runs waits for the end of that run, which its daemon enforces, and
  no other run of the task can be in the way, since the first launch (or skip, or missed entry) after
  the window is due books the window too; with a slot for each task no other task is in the way.

* Approvals: weak fairness per call, runner and file: microtasks, emits, writes and card timers happen
  (the default timeout is 120 s), and a tool that runs returns. Nobody has to answer a card.
* RemoteLink: weak fairness per loop and per connection: tokens arrive and delays end, frames that are
  not cut off are delivered, both ends of a broken connection notice it (the gateway pings), and a
  resolved promise is continued.
  Users, faults and peers owe nothing.
* Sessions: no fairness; its properties are safety properties.

## 5. Theorems

`StoreProofs!LockTypeCorrect`: `LockSpec => []LockTypeOK` for every set of processes and every protocol. The
reap counter stays within `MaxReaps` because a process on its way to a reap still has one left:
`LockTypeInv` adds that (`ReapsLeft`).

`StoreProofs!Exclusion`: `LockSpec => []ExclusiveUntilCrash`, a statement about the shared and the
daemon protocols. Exclusion is not inductive by itself. `LockInv` adds that a process
that is about to reclaim saw a dead owner, which cannot be while nobody has died (`NobodyReaps`,
from `DeadOwnersOnly`: processes die only by a crash), and that a process between its exclusive create and
its removal is the creator of the file that is there (`OwnerOnly`). The other three protocols
reclaim what they cannot parse and do not have the property (section 3, other limits).

`StoreProofs!TypeCorrect` and `!Refinement`: `Spec => ImplementsSnapshot` for any set of
snapshots in the environments the code tolerates (`Tolerated`): the removal of the old backup succeeds,
and either the process dies at most once and only the write of the temporary file may fail, or it
never dies, any other call may fail, and the directory sync fails only in a store that had a file
from the start (without a backup there is nothing to restore). The excluded faults are those
listed in section 3. The inductive invariant says where the old value is at each call (`OldValueKept`,
`Restorable`), that the temporary file holds the new one, and that a crash leaves a loadable file.

`SessionsProofs`: `TypeCorrect`, `SerialTurns`, `LockVoided`, `HubShowsSession`,
`ArchivesStayDeleted` — that is, `TypeOK`, `TurnsSerial`, `LockFollowsRunner`, `HubFollows` and
`DeletedStays` for any number of runners, turns and operations. The types alone need to know which
stages an operation of each kind has (`KindAt`) and that an id is read only where there is one
(`Assigned`). The rest is `Undisturbed => Quiet`: at most one operation is under way; what it read
before an await still holds after it (`Window`: the session that is being ended is the current one,
its archive is there, the lock is void); a turn of the current runner has the lock except while its
successor is created (`LockHolds`), and a turn that nothing interrupted has it always
(`RunningHolds`), sessions that were ended during their own turn aside.

`RemoteLinkProofs`: `TypeCorrect`, `ClientsReachTheMachine` (`ClientsFollow`) and
`SnapshotIsTheMachines` (`SnapshotFollows`), for any number of connections, RPCs, peers and session
changes. For the clients the invariant adds that connections are opened in order and that the
gateway has an end of one only after the machine has opened it (`Opened`): else a new connection
could meet clients that are bound to it already. For the snapshot, `SnapInv` follows the frames on
their way to the gateway: the last one that carries the session, and every result of an `open`
behind it, carry the machine's (`Tells`). A `close` clears the snapshot without saying so, and
results find their RPC by an id that an older connection may have used too; therefore a `close` that
the gateway waits for is still to be served, has left the machine without a session, or has a report
behind its result (`Follows`), and the ids of a connection are distinct because they are counted
(`IdsCounted`). What counts is the snapshot as it will be once the resolved results are applied
(`Due`), unless a state frame was handled before them (`overtaken`). Nothing in the argument needs the link to have a single dialling loop.

`ApprovalsProofs`: `TypeCorrect`; `CardsOfRunningTurns` (`NoZombieCard`); `RulesReachDisk`
(`DiskFollows`); `FullAccessStays` (the action property `EscalationHolds`). `TypeInv` contains the
shape of the queues: each chain of requests of a manager holds its waiting calls once each, the one
at its head is the only one past the queue, and a card belongs to a turn that nothing interrupted
(`Chains`, `InTurn`). For the files, `Flushes` and `UpToDate` say what a write that is still in the
chain will bring: as long as a later one is waiting, the file may lag behind, and the last one
carries all rules.

`SubagentProofs`, for any number of dispatch calls and any limit of the registry: `TypeCorrect`;
`AbortCascades` (the action property `AbortReaches`); `OnlyDeadInterrupted` (`InterruptedIsDead`);
`JournalAgrees` (`JournalMatchesRegistry`); `LatestRunsShown`, that the registry shows the latest
runs, each once and in order. The invariant `SubagentInv` has three parts beside the types:

* `DepthInv`: a run that has a session is one level below its parent, which had a session before.
  An abort goes down one level in each round of `Cascade`; three rounds reach everything because
  `MaxDepth` is at most 3 (`Math.min(options.maxDepth ?? 3, 3)`, `subagent/src/index.ts:136`).
* `RegistryInv`: one dispatched event and at most one row for each run (`OneDispatched`, `OneRow`),
  rows in the order of the events (`InOrder`), and `Cut`: if a run was dispatched and has no row, the
  registry is full of later runs. `InterruptedIsDead` needs it: a rebuild takes a live run that the
  registry dropped for an unknown one, and would show it as interrupted. By `Cut` the rows map one
  to one to events behind that of the dropped run, so that it is outside the last `RunHistoryLimit`
  events, which are all that the rebuilt registry keeps (`CutStaysCut`).
* `Story`: as long as no write was rejected, the events of a run are its dispatched event while it
  runs, and that and one settled event once it has ended (`Told`), whose status is the one that the
  row shows (`Shows`).

`RunnerProofs`, for any providers, limits, budgets and number of parallel tools:

* `TypeCorrect`; inside `run()` there is a turn, and the current message asks for finitely many
  tools.
* `TurnsJournaled` (`TurnJournal`), over crashes, resumes and rejected writes. `JournalInv` adds
  that no event is of a later turn and that the open turn has no outcome in the journal yet.
* `IdleSettled` and `ToolsInsideTurns` (`IdleIsSettled`, `NoToolOutlivesTurn`), from `Settled`: only
  the turn in `run()` is open, and tools run while it awaits them.
* `RequestsPaired` (`RequestPaired`). `PairInv` states the pairing of the conversation and, because
  of the resumes, of what replay would rebuild, with the calls of the message that is being answered
  as the exception (`Pending`). The lemmas say what `select()` does to it: the window is an
  order-preserving part of the conversation, closed under the calls of its results.
* `ResumeRebuilds` (`ReplayFollows`): as long as no write was rejected, and up to the first
  compaction, replay rebuilds the live conversation less at most the message that is being written;
  between turns also their statuses, and the usage if no turn was aborted. The three mirrors
  (`TalkMirrored`, `RecordMirrored`, `UsageMirrored`) say at which awaits the journal lags behind
  and by what.

`TaskDaemonProofs`, for any tasks, limits, interval of the schedule and number of ticks that overlap,
over stops, crashes, failed store operations and edits of the task table: `TypeCorrect`;
`RunsDoNotOverlap` (`NoOverlap`); `WindowsRunOnce` (`WindowRunsOnce`); `DueWindowsAreBooked` (the
action property `DueWindowsBooked`). Nothing is assumed about the timer; what overlapping ticks do
break is an exception of the property (`alone`, `shared`, `outdated`). The invariant has these parts
beside the types:

* `SharedInv`: ticks that no other has overlapped are under way one at a time, so that one of them
  finds no other tick's plan in the store (`Sole`).
* `RunInv`: a task with a run of the present daemon, whose runs were all launched by such ticks, is
  in flight, and a tick that nothing has overlapped has no group for it.
* `WindowInv`: what such a tick ran is up to the cursor or, once the cursor is gone with its task,
  up to the creation of a task of that id (`Past`); what any tick still owes, one that is overlapped
  included, is after all of it (`Later`). A definition that was read earlier may be older than what
  ran since, which is why a task written from one is `outdated`.
* `GapInv`: while no ticks overlap, each point of the schedule between the cursor and a window that
  is owed was missed before the boot or is owed too.

What `evaluateTick()` returns is described by lemmas about `Windows` to `Plan`, which need those of
`ListsProofs` about filtered lists.

The inductive invariants, or the conjuncts that could fail, were checked by TLC before the proofs.
The assumptions are the named `ASSUME`s of the modules.

Only model-checked:

* all liveness properties, and what they need of `ENABLED`, which are out of the prover's reach;
* what `WindowStart` adds up for conversations of any length: the proofs hold wherever the window
  starts.

## 6. Not modelled

Inside the modelled components: a rebuild of the subagent registry while it shows a run whose
dispatched event was not written (its place among the sorted rows is in no journal); wall-clock
schedules and DST in `scheduler-domain.ts`; the summarising context policy and token estimation;
legacy and torn journal lines; pid reuse (a dead pid stays dead); Windows sharing violations;
attachments, session lists, line mode and the standalone hub; the line and none
interaction modes, `dangerouslySkip`, batch answers and question cards; pairing, device commands and
event frames of the uplink; the contents of messages, prompts and tool results.

Steps that the models merge, and failures they leave out:

* Subagent: a `runnerFactory` that rejects (`subagent/src/index.ts:420`) after which nothing is
  registered; a `run()` that was aborted always ends with an interrupted result; the rebuilt
  registry is in the order of the journal, while the code sorts by `startedAt` in milliseconds
  (`subagent/src/index.ts:351`) and runs of one millisecond keep their order.
* SnapshotFile: the rename of the backup in the catch block does not fail (`task-store.ts:264`
  ignores it when it does, and the backup stays a backup); the process dies once at most in the
  refinement.
* TaskDaemon: `tasks add --disabled` is an add and a disable; a task is created at the moment it is
  stored, without the wait for the lock in between; the journal's file operations are those of
  `SnapshotFile`.
* Sessions: `runTurnExclusive` takes the lock and `run()` starts in one step, though `run()` is
  called a microtask later (`session-controller.ts:661`) and an interrupt in that gap is lost; the
  check, the detachment and the head of `activate()` of `hub.start` and `hub.resume` are one step
  (`session-hub.ts:250`).
* RemoteLink: `replaced` is set by a close frame of an open connection, and perhaps of one that
  `stop()` is closing (`remote-link/src/index.ts:305`); an `open` detaches the hub's session when it
  is served, also when it is refused before that because a turn is in flight or the directory is not
  allowed (`session-hub.ts:250`, `remote-link/src/index.ts:427`), where the code changes nothing, like
  a query that fails; frames that are handled before the continuations of the results
  before them may be any that have arrived, not only those of one chunk.

Components without a module, listed as `not_modelled` in `PROJECT.json`: providers, tools, plugins, the
MCP client, the HTTP servers, configuration, skills, telemetry, the user interfaces and the native
crates are formats, rendering and I/O around this state, and make up most of the repository's lines.
The router's breaker, the memory review and the evolution store have state of their own, which one
turn or one lock holder at a time edits; `Runner` takes the router's answers nondeterministically, and
`FileLock` and `SnapshotFile` are what the two stores stand on.

## 7. Plan

Done: Runner with ContextPolicy, Subagent, FileLock, SnapshotFile, TaskDaemon, Sessions, Approvals,
RemoteLink; theorems about all of them, for every invariant and action property of the runs.

Left:

1. Models of what section 6 lists with state of its own: the router's breaker, the review of memory
   candidates, the MCP connection domain.
2. Shorter proofs of `TaskDaemon` and `Runner`: the lemmas about steps that touch neither the
   journal nor the schedule can be shared.
