------------------------------ MODULE Sessions ------------------------------
(***************************************************************************)
(* SessionController (packages/app-runtime/src/session-controller.ts): one *)
(* active runner, the turn lock, and the operations that replace the       *)
(* runner, with the SessionHub that projects it to the web                 *)
(* (packages/web-server/src/session-hub.ts).                               *)
(*                                                                         *)
(* A flight is one run() call.  An operation is one call of start, resume, *)
(* delete or end; stage[o] is the await at which it is suspended:          *)
(*   loading    await store.load                                           *)
(*   ending     end() awaits session.ended and onEnd                       *)
(*   removing   delete awaits removeArchive                                *)
(*   creating   activate awaits createRunner                               *)
(*   announcing activate awaits session.started or session.resumed         *)
(* The hub is embedded beside a TUI that uses the controller too, the only *)
(* way the CLI builds it.  A turn's own steps are module Runner.           *)
(***************************************************************************)
EXTENDS Naturals, FiniteSets

CONSTANTS Runners,      \* the runners that createRunner returns
          Ids,          \* session ids
          Flights,      \* run() calls
          Ops,          \* operations
          none,
          MaxFaults,    \* bound: operations that reject
          MaxWrites     \* bound: appends under way that no operation waits for

ASSUME SessionsAssumption ==
    /\ none \notin Runners \cup Ids \cup Flights \cup Ops
    /\ {MaxFaults, MaxWrites} \subseteq Nat

VARIABLES
    runner,       \* this.runner
    lock,         \* this.turnFlight
    id,           \* the session id of each runner
    archive,      \* the ids whose JSONL exists
    deleted,      \* the ids whose archive was removed
    flight, on,   \* each flight's state and its runner
    stage, kind, via, target, born,   \* each operation; born: the runner it creates
    attached,     \* hub.interactive: the runner behind the facade
    subs,         \* the hub's subscriptions to each runner's bus
    waiting,      \* a hub submit waits for the lock
    bus,          \* the session whose bus the registry of background shells reports to
    writes,       \* the sessions with an append under way that no operation waits for
    raced,        \* history: something began inside the window of an operation
    faults

controller == <<runner, lock, id>>
files == <<archive, deleted>>
turns == <<flight, on>>
ops == <<stage, kind, via, target, born>>
hub == <<attached, subs, waiting>>
background == <<bus, writes>>
vars == <<controller, files, turns, ops, hub, background, raced, faults>>

InFlight == {f \in Flights : flight[f] \in {"running", "interrupted", "hung"}}
Pending == {o \in Ops : stage[o] \notin {"unused", "done"}}

\* attachActive has subscribed to activations before there is a session.
Init ==
    /\ runner = none /\ lock = none
    /\ id = [r \in Runners |-> none]
    /\ archive = {} /\ deleted = {}
    /\ flight = [f \in Flights |-> "unused"] /\ on = [f \in Flights |-> none]
    /\ stage = [o \in Ops |-> "unused"]
    /\ kind = [o \in Ops |-> "start"] /\ via = [o \in Ops |-> "hub"]
    /\ target = [o \in Ops |-> none] /\ born = [o \in Ops |-> none]
    /\ attached = none
    /\ subs = [r \in Runners |-> 0]
    /\ waiting = FALSE
    /\ bus = none /\ writes = {}
    /\ raced = FALSE /\ faults = 0

-----------------------------------------------------------------------------
(* Turns *)

\* runTurnExclusive: the flight holds the lock and runs on the runner of this moment, whose
\* session gets turn.started
Launch(f) ==
    /\ flight[f] = "unused"
    /\ flight' = [flight EXCEPT ![f] = "running"]
    /\ on' = [on EXCEPT ![f] = runner]
    /\ lock' = f
    /\ archive' = archive \cup {id[runner]}
    /\ raced' = (raced \/ Pending # {})
    /\ UNCHANGED <<runner, id, deleted, ops, background, faults>>

\* A mutant of Submit: the serial gate is missing.
SubmitUnguarded(f) ==
    /\ runner # none
    /\ Launch(f)
    /\ UNCHANGED hub

\* submit() of the TUI's facade, which is refused while the lock is held
Submit(f) ==
    /\ runner # none /\ lock = none
    /\ Launch(f)
    /\ UNCHANGED hub

\* hub.submit, when no turn is in flight
HubSubmit(f) ==
    /\ attached # none /\ runner # none /\ lock = none
    /\ Launch(f)
    /\ UNCHANGED hub

\* hub.submit while a turn is in flight: it waits for the lock, or the grace timer
HubWait ==
    /\ attached # none /\ lock # none /\ ~waiting
    /\ waiting' = TRUE
    /\ UNCHANGED <<controller, files, turns, ops, attached, subs, background, raced, faults>>

\* The lock is free: the facade of this moment submits.  Without one, or without a runner,
\* the submit fails.
HubWake(f) ==
    /\ waiting /\ lock = none
    /\ waiting' = FALSE
    /\ IF attached # none /\ runner # none
       THEN Launch(f)
       ELSE UNCHANGED <<controller, files, turns, ops, background, raced, faults>>
    /\ UNCHANGED <<attached, subs>>

\* The timer is first: runTurnExclusive refuses.
HubGiveUp ==
    /\ waiting /\ lock # none
    /\ waiting' = FALSE
    /\ UNCHANGED <<controller, files, turns, ops, attached, subs, background, raced, faults>>

\* runner.interrupt(): the flights of this runner
Interrupted(r) ==
    [f \in Flights |-> IF flight[f] = "running" /\ on[f] = r THEN "interrupted" ELSE flight[f]]

\* interrupt() goes to the current runner.
Interrupt ==
    /\ runner # none
    /\ flight' = Interrupted(runner)
    /\ UNCHANGED <<controller, files, on, ops, hub, background, raced, faults>>

\* An interrupted run() waits for something that never settles.
Hang(f) ==
    /\ flight[f] = "interrupted"
    /\ flight' = [flight EXCEPT ![f] = "hung"]
    /\ UNCHANGED <<controller, files, on, ops, hub, background, raced, faults>>

\* run() appends its terminal event and returns; the finally block of runTurnExclusive
Land(f) ==
    /\ flight[f] \in {"running", "interrupted"}
    /\ flight' = [flight EXCEPT ![f] = "done"]
    /\ archive' = archive \cup {id[on[f]]}
    /\ lock' = IF lock = f THEN none ELSE lock
    /\ UNCHANGED <<runner, id, deleted, on, ops, hub, background, raced, faults>>

-----------------------------------------------------------------------------
(* What appends to an archive on its own: nobody waits for the emit of a background shell, and
   no operation for that of setModel. *)

Emit(i) ==
    /\ Cardinality(writes \cup {i}) <= MaxWrites
    /\ writes' = writes \cup {i}

\* A background shell starts, or exits, by itself or some time after killAll() has aborted it:
\* the turns so far may have spawned any number of them.  The event goes to the bus of this
\* moment.
ShellReports ==
    /\ \E f \in Flights : flight[f] # "unused"
    /\ Emit(bus)
    /\ UNCHANGED <<controller, files, turns, ops, hub, bus, raced, faults>>

\* setModel(): session.model_changed
SetModel ==
    /\ runner # none
    /\ Emit(id[runner])
    /\ UNCHANGED <<controller, files, turns, ops, hub, bus, raced, faults>>

\* SessionStore.append opens the archive, or makes it anew
Written(i) ==
    /\ i \in writes
    /\ writes' = writes \ {i}
    /\ archive' = archive \cup {i}
    /\ UNCHANGED <<controller, deleted, turns, ops, hub, bus, raced, faults>>

-----------------------------------------------------------------------------
(* activate() *)

Used == {id[r] : r \in Runners} \cup archive \cup deleted
         \cup {target[o] : o \in Ops}

\* A mutant of Replace: the turn of the runner that is replaced keeps the lock.
ReplaceLocked(o, i) ==
    \E r \in Runners :
        /\ id[r] = none /\ \A p \in Ops : born[p] # r
        /\ born' = [born EXCEPT ![o] = r]
        /\ target' = [target EXCEPT ![o] = i]
        /\ stage' = [stage EXCEPT ![o] = "creating"]
        /\ bus' = i
        /\ flight' = IF runner # none /\ lock # none THEN Interrupted(runner) ELSE flight
        /\ UNCHANGED lock

\* The synchronous head of activate(): the turn of the runner that is replaced is
\* interrupted, not awaited, and its lock is void; the registry of shells is rewired.
Replace(o, i) ==
    \E r \in Runners :
        /\ id[r] = none /\ \A p \in Ops : born[p] # r
        /\ born' = [born EXCEPT ![o] = r]
        /\ target' = [target EXCEPT ![o] = i]
        /\ stage' = [stage EXCEPT ![o] = "creating"]
        /\ bus' = i
        /\ IF runner # none /\ lock # none
           THEN flight' = Interrupted(runner) /\ lock' = none
           ELSE UNCHANGED <<flight, lock>>

\* createRunner has returned: events, runner and model are assigned.
Install(o) ==
    /\ stage[o] = "creating"
    /\ id' = [id EXCEPT ![born[o]] = target[o]]
    /\ runner' = born[o]
    /\ stage' = [stage EXCEPT ![o] = "announcing"]
    /\ UNCHANGED <<lock, files, turns, kind, via, target, born, hub, background, raced, faults>>

\* A call of the operation rejects: it fails there, and what it did stays done.  If it is
\* createRunner, the previous runner stays; if it is the emit of session.started, nobody is
\* told of the new one.
Fails(o) ==
    /\ o \in Pending /\ faults < MaxFaults
    /\ faults' = faults + 1
    /\ stage' = [stage EXCEPT ![o] = "done"]
    /\ UNCHANGED <<controller, files, turns, kind, via, target, born, hub, background, raced>>

\* A mutant of Unsubscribed: the facade is left twice.
UnsubscribedTwice == IF attached = none THEN subs ELSE [subs EXCEPT ![attached] = @ - 2]

\* detach(): one subscription of the attached facade goes
Unsubscribed == IF attached = none THEN subs ELSE [subs EXCEPT ![attached] = @ - 1]

\* A mutant of Publish: the listener keeps the facade it has.
PublishOnce(o) ==
    /\ attached' = IF attached = none THEN runner ELSE attached
    /\ subs' = IF attached = none THEN [subs EXCEPT ![runner] = @ + 1] ELSE subs

\* publishActive: the hub's listener leaves the previous facade and attaches to the new
\* one; hub.start and hub.resume then attach to it once more.
Publish(o) ==
    /\ attached' = runner
    /\ subs' = [Unsubscribed EXCEPT ![runner] = @ + IF via[o] = "hub" THEN 2 ELSE 1]

\* session.started or session.resumed is in the archive; the facade is built from the
\* runner of this moment (a TypeError without one).
Announce(o) ==
    /\ stage[o] = "announcing"
    /\ archive' = archive \cup {id[born[o]]}
    /\ stage' = [stage EXCEPT ![o] = "done"]
    /\ IF runner # none THEN Publish(o) ELSE UNCHANGED <<attached, subs>>
    /\ UNCHANGED <<controller, deleted, turns, kind, via, target, born, waiting, background,
                   raced, faults>>

-----------------------------------------------------------------------------
(* start, resume, delete, end *)

Begin(o, k, v) ==
    /\ stage[o] = "unused"
    /\ kind' = [kind EXCEPT ![o] = k]
    /\ via' = [via EXCEPT ![o] = v]
    /\ raced' = (raced \/ Pending # {})

\* A fresh id (uuidv7) for a cold start
Fresh(o) == \E i \in Ids \ Used : Replace(o, i)

\* startInteractive, called by the TUI
Start(o) ==
    /\ Begin(o, "start", "tui")
    /\ Fresh(o)
    /\ UNCHANGED <<runner, id, files, on, hub, writes, faults>>

\* resume reads the archive first; a session without events is not found
Load(o, i) ==
    /\ i \in archive
    /\ target' = [target EXCEPT ![o] = i]
    /\ stage' = [stage EXCEPT ![o] = "loading"]
    /\ UNCHANGED <<born, flight, lock, bus>>

Resume(o, i) ==
    /\ Begin(o, "resume", "tui")
    /\ Load(o, i)
    /\ UNCHANGED <<runner, id, files, on, hub, writes, faults>>

\* hub.start and hub.resume: refused during a turn; the hub lets go of its session first
HubOpen(o, k, i) ==
    /\ lock = none
    /\ Begin(o, k, "hub")
    /\ IF k = "start" THEN Fresh(o) ELSE Load(o, i)
    /\ attached' = none /\ subs' = Unsubscribed
    /\ UNCHANGED <<runner, id, files, on, waiting, writes, faults>>

\* hub.closeActive: an embedded hub only lets go
HubClose ==
    /\ attached # none
    /\ attached' = none /\ subs' = Unsubscribed
    /\ UNCHANGED <<controller, files, turns, ops, waiting, background, raced, faults>>

\* The archive is read and replayed; delete of another session goes on to remove it.
Loaded(o) ==
    /\ stage[o] = "loading"
    /\ IF kind[o] = "resume" THEN Replace(o, target[o])
       ELSE /\ stage' = [stage EXCEPT ![o] = "removing"]
            /\ UNCHANGED <<born, target, flight, lock, bus>>
    /\ UNCHANGED <<runner, id, files, on, kind, via, hub, writes, raced, faults>>

\* delete(id): the active session only between turns, another one if it exists
Delete(o, i) ==
    IF runner # none /\ id[runner] = i
    THEN /\ lock = none
         /\ Begin(o, "deleteActive", "tui")
         /\ target' = [target EXCEPT ![o] = i]
         /\ stage' = [stage EXCEPT ![o] = "ending"]
         /\ UNCHANGED <<born, flight, lock, bus>>
    ELSE Begin(o, "delete", "tui") /\ Load(o, i)

Remove(o, i) ==
    /\ Delete(o, i)
    /\ UNCHANGED <<runner, id, files, on, hub, writes, faults>>

\* end() of the TUI's facade
End(o) ==
    /\ runner # none
    /\ Begin(o, "end", "tui")
    /\ target' = [target EXCEPT ![o] = id[runner]]
    /\ stage' = [stage EXCEPT ![o] = "ending"]
    /\ UNCHANGED <<controller, files, turns, born, hub, background, faults>>

\* end() is over: session.ended is in the archive, and whatever runner is there is forgotten.
\* killAll() has aborted the shells; none has to have exited.
Ended(o) ==
    /\ stage[o] = "ending"
    /\ archive' = archive \cup {target[o]}
    /\ stage' = [stage EXCEPT ![o] = IF kind[o] = "deleteActive" THEN "removing" ELSE "done"]
    /\ runner' = none
    /\ UNCHANGED <<lock, id, deleted, turns, kind, via, target, born, hub, background, raced,
                   faults>>

\* A mutant of Removed: the deleted session is ended after its archive is removed.
RemovedThenEnded(o) ==
    /\ stage[o] = "removing"
    /\ archive' = archive \ {target[o]}
    /\ deleted' = deleted \cup {target[o]}
    /\ stage' = [stage EXCEPT ![o] = IF kind[o] = "deleteActive" THEN "ending" ELSE "done"]
    /\ kind' = [kind EXCEPT ![o] = "end"]
    /\ UNCHANGED <<controller, turns, via, target, born, hub, background, raced, faults>>

\* removeArchive and onDelete; after the active session, a cold start
Removed(o) ==
    /\ stage[o] = "removing"
    /\ archive' = archive \ {target[o]}
    /\ deleted' = deleted \cup {target[o]}
    /\ IF kind[o] = "deleteActive" THEN Fresh(o)
       ELSE /\ stage' = [stage EXCEPT ![o] = "done"]
            /\ UNCHANGED <<born, target, flight, lock, bus>>
    /\ UNCHANGED <<runner, id, on, kind, via, hub, writes, raced, faults>>

-----------------------------------------------------------------------------
Work ==
    \/ \E f \in Flights : HubWake(f) \/ Land(f)
    \/ HubGiveUp
    \/ \E o \in Ops : Install(o) \/ Announce(o) \/ Loaded(o) \/ Ended(o) \/ Removed(o)
    \/ ShellReports \/ \E i \in Ids : Written(i)

Clients ==
    \/ \E f \in Flights : Submit(f) \/ HubSubmit(f)
    \/ HubWait \/ Interrupt \/ HubClose \/ SetModel
    \/ \E o \in Ops : Start(o) \/ End(o)
    \/ \E o \in Ops, i \in Ids : Resume(o, i) \/ Remove(o, i) \/ HubOpen(o, "resume", i)
    \/ \E o \in Ops : HubOpen(o, "start", none)

Faults == (\E f \in Flights : Hang(f)) \/ (\E o \in Ops : Fails(o))

Next == Work \/ Clients \/ Faults

Spec == Init /\ [][Next]_vars

-----------------------------------------------------------------------------
(* Properties *)

\* The types of the variables.
TypeOK ==
    /\ runner \in Runners \cup {none} /\ lock \in Flights \cup {none}
    /\ id \in [Runners -> Ids \cup {none}]
    /\ archive \subseteq Ids /\ deleted \subseteq Ids
    /\ flight \in [Flights -> {"unused", "running", "interrupted", "hung", "done"}]
    /\ on \in [Flights -> Runners \cup {none}]
    /\ stage \in [Ops -> {"unused", "loading", "ending", "removing", "creating", "announcing",
                           "done"}]
    /\ target \in [Ops -> Ids \cup {none}] /\ born \in [Ops -> Runners \cup {none}]
    /\ attached \in Runners \cup {none}
    /\ subs \in [Runners -> Nat]
    /\ bus \in Ids \cup {none} /\ writes \subseteq Ids

\* session-controller.ts, the serial gate: no two run() calls on one runner
RunsSerial ==
    \A f, g \in InFlight : on[f] = on[g] => f = g

\* Nothing began inside the window of an operation, and none has failed half way, an
\* activation that had interrupted the turn of the runner that then stayed among them.
Undisturbed == ~raced /\ faults = 0

\* The session of this flight was ended and is no longer the current one: nothing interrupts
\* the turn, and a later activation cannot either.
EndedInTurn(f) == on[f] # runner /\ \E o \in Ops : kind[o] = "end" /\ target[o] = id[on[f]]

\* The gate holds as long as operations are undisturbed: a runner has one run() at a time, and
\* in the whole process one turn at most has not been interrupted, those of sessions that were
\* ended during their own turn aside.
TurnsSerial ==
    Undisturbed => /\ RunsSerial
                   /\ \A f, g \in Flights : flight[f] = "running" /\ flight[g] = "running"
                         => f = g \/ EndedInTurn(f) \/ EndedInTurn(g)

\* A turn of a session that was replaced never keeps the next session's submits out, even
\* if it hangs: the lock belongs to the current runner, or to a session that was ended
\* during its own turn.
LockFollowsRunner ==
    Undisturbed /\ lock # none => on[lock] = runner \/ EndedInTurn(lock)

\* When no operation is under way, the hub shows the controller's session or none.
HubFollows ==
    Undisturbed /\ Pending = {} /\ runner # none /\ attached # none
        => attached = runner /\ subs[runner] > 0

\* No operation makes a deleted archive anew, the end of its session, the start of the next one
\* and those of other sessions included.  It comes back only through a turn that was still
\* unwinding (or hung, and then ended) when its session was deleted, and through an append that
\* the deletion did not wait for: of a background shell, which delete() itself makes exit, or of
\* setModel.
DeletedStays ==
    [][\A i \in deleted :
          i \notin archive /\ i \in archive'
              => \/ ~Undisturbed
                 \/ \E f \in InFlight : id[on[f]] = i /\ flight'[f] = "done"
                 \/ i \in writes \ writes']_vars
=============================================================================
