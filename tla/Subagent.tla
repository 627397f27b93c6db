------------------------------ MODULE Subagent ------------------------------
(***************************************************************************)
(* SubagentDispatcher of packages/subagent/src/index.ts: concurrent        *)
(* dispatch() calls of one process, their registry of runs, cancellation   *)
(* from the panel and from an aborted parent, the subagent.* events in the *)
(* parent's journal and the registry rebuilt from them after a crash, and  *)
(* the replacement of the dispatcher on a config reload                    *)
(* (apps/cli/src/runtime.ts).                                              *)
(*                                                                         *)
(* phase[d] is the await at which dispatch call d is suspended:            *)
(*   creating    await runnerFactory                                       *)
(*   announcing  await emit subagent.dispatched                            *)
(*   running     await runner.run                                          *)
(*   settling    await emit subagent.settled                               *)
(*   catching    the catch block, before its own subagent.settled          *)
(*   done        dispatch() has settled; lost: the process died            *)
(* The child's own loop is module Runner: here it ends in some way.        *)
(***************************************************************************)
EXTENDS Integers, Sequences, FiniteSets, Lists

CONSTANTS Dispatches,       \* the dispatch() calls
          root,             \* the root session's turn
          MaxDepth,         \* #maxDepth
          MaxConcurrency,   \* #maxConcurrency
          DefaultBudget,    \* one dimension of options.defaultBudget
          RunHistoryLimit,  \* options.runHistoryLimit
          MaxFaults,        \* bound: rejected journal writes
          MaxCancels,       \* bound: cancel() and cancelAllRunning() calls
          MaxCrashes        \* bound: process crashes

ASSUME SubagentAssumption ==
    /\ root \notin Dispatches
    /\ MaxDepth \in 1..3
    /\ MaxConcurrency \in Nat \ {0}
    /\ DefaultBudget \in Nat
    /\ RunHistoryLimit \in Nat \ {0}
    /\ {MaxFaults, MaxCancels, MaxCrashes} \subseteq Nat

VARIABLES
    phase, parent, depth, budget,
    active,       \* #active and #activeBySession: the same runs
    runs,         \* #runs, oldest first
    marked,       \* #cancelledRuns
    listening,    \* runs whose abort listener is on the parent's signal
    aborted,      \* the runs, or root, whose signal is aborted
    outcome,      \* what dispatch() returned: its status, or why it threw
    stale,        \* dispatch calls that belong to a replaced dispatcher
    journal,      \* the parent's JSONL: subagent.dispatched and subagent.settled
    faults, cancels, crashes

work == <<phase, parent, depth, budget>>
registry == <<active, runs, marked>>
signals == <<listening, aborted>>
counters == <<faults, cancels, crashes>>
vars == <<work, registry, signals, outcome, stale, journal, counters>>

Live == {"creating", "announcing", "running", "settling", "catching"}

Init ==
    /\ phase = [d \in Dispatches |-> "unused"]
    /\ parent = [d \in Dispatches |-> root]
    /\ depth = [d \in Dispatches |-> 0]
    /\ budget = [d \in Dispatches |-> 0]
    /\ active = {} /\ runs = <<>> /\ marked = {}
    /\ listening = {} /\ aborted = {}
    /\ outcome = [d \in Dispatches |-> "none"]
    /\ stale = {}
    /\ journal = <<>>
    /\ faults = 0 /\ cancels = 0 /\ crashes = 0

-----------------------------------------------------------------------------
(* Helpers *)

Entry(d, s) == [id |-> d, status |-> s]
Dispatched(d) == [type |-> "dispatched", id |-> d, status |-> "running"]
Settled(d, s) == [type |-> "settled", id |-> d, status |-> s]

DepthOf(p) == IF p = root THEN 0 ELSE depth[p]

\* A mutant of Limited: the registry is never pruned.
Unlimited(s) == s

\* splice(0, length - limit)
Limited(s) == IF Len(s) > RunHistoryLimit
              THEN SubSeq(s, Len(s) - RunHistoryLimit + 1, Len(s)) ELSE s

\* entry.status = s, on an entry that may have been evicted, or that belongs to the registry of
\* a replaced dispatcher
SetStatus(d, s) ==
    [i \in DOMAIN runs |-> IF runs[i].id = d /\ d \notin stale THEN Entry(d, s) ELSE runs[i]]

\* A mutant of FinalStatus: the cancellation is forgotten.
FinalStatusIgnoringCancel(d, s) == s

\* #finishRun: an explicit cancellation wins
FinalStatus(d, s) == IF d \in marked THEN "cancelled" ELSE s

\* #emitSettled: partial is reported as completed
SettledStatus(s) == IF s \in {"failed", "cancelled"} THEN s ELSE "completed"

(***************************************************************************)
(* runner.interrupt() on each run of S.  A Runner that is inside run()     *)
(* aborts its signal, and that fires the listeners of its own children;    *)
(* one that is not forgets the interrupt when run() starts.  Three rounds  *)
(* reach every depth.                                                      *)
(***************************************************************************)
Heard(S) == {d \in S : phase[d] = "running"}
\* A mutant of Cascade: the listeners of a nested child are not fired.
CascadeOneLevel(S) == Heard(S)
Cascade(S) == Heard(S) \cup Heard({d \in listening : parent[d] \in Heard(S) \ aborted})
InterruptAll(S) ==
    aborted' = aborted \cup Cascade(Cascade(Cascade(S)))

\* parent.events.emit(e), then continue in phase next.  A rejection continues in fail: the
\* storage subscriber could not write the line, or another subscriber rejected.
EmitInto(d, e, next, fail) ==
    \/ /\ journal' = Append(journal, e)
       /\ phase' = [phase EXCEPT ![d] = next]
       /\ UNCHANGED faults
    \/ /\ faults < MaxFaults
       /\ faults' = faults + 1
       /\ phase' = [phase EXCEPT ![d] = fail]
       /\ journal' \in {journal, Append(journal, e)}

-----------------------------------------------------------------------------
(* dispatch() *)

\* #resolveBudget(): a budget can only tighten the default; 0 stands for none
ExceedsDefault(requested) == requested > DefaultBudget
ResolvedBudget(requested) == IF requested = 0 THEN DefaultBudget ELSE requested

\* Depth, concurrency and budget are checked and the parent's signal is read, all before
\* the first await; only then is there a session.
Dispatch(d, p, requested) ==
    LET crowded == DepthOf(p) < MaxDepth /\ Cardinality(active) >= MaxConcurrency
        refused == DepthOf(p) >= MaxDepth \/ crowded \/ ExceedsDefault(requested)
        accepted == ~refused /\ p \notin aborted
    IN  /\ phase[d] = "unused"
        /\ p = root \/ (p \in Dispatches \ {d} /\ phase[p] = "running")
        /\ phase' = [phase EXCEPT ![d] = IF accepted THEN "creating" ELSE "done"]
        /\ outcome' = [outcome EXCEPT ![d] = IF crowded THEN "crowded"
                                             ELSE IF refused THEN "refused"
                                             ELSE IF accepted THEN @ ELSE "cancelled"]
        /\ IF accepted
           THEN /\ parent' = [parent EXCEPT ![d] = p]
                /\ depth' = [depth EXCEPT ![d] = DepthOf(p) + 1]
                /\ budget' = [budget EXCEPT ![d] = ResolvedBudget(requested)]
           ELSE UNCHANGED <<parent, depth, budget>>
        /\ UNCHANGED <<registry, signals, stale, journal, counters>>

\* runnerFactory resolves: the run is registered, then subagent.dispatched.  The emit is
\* outside the try: its rejection leaves the run in #active.
Create(d) ==
    /\ phase[d] = "creating"
    /\ active' = IF d \in stale THEN active ELSE active \cup {d}
    /\ runs' = IF d \in stale THEN runs ELSE Limited(Append(runs, Entry(d, "running")))
    /\ EmitInto(d, Dispatched(d), "announcing", "done")
    /\ outcome' = [outcome EXCEPT ![d] = IF phase'[d] = "done" THEN "throw" ELSE @]
    /\ UNCHANGED <<parent, depth, budget, marked, signals, stale, cancels, crashes>>

\* The listener goes on the parent's signal and run() starts with a fresh controller.
StartRun(d) ==
    /\ phase[d] = "announcing"
    /\ listening' = listening \cup {d}
    /\ phase' = [phase EXCEPT ![d] = "running"]
    /\ UNCHANGED <<parent, depth, budget, registry, aborted, outcome,
                   stale, journal, counters>>

\* A mutant of RunResolves: the journal gets the status that a cancellation overrode.
RunResolvesUnmarked(d, how) ==
    LET status == IF parent[d] \in aborted THEN "cancelled"
                  ELSE IF how = "done" THEN "completed" ELSE "partial"
    IN  /\ phase[d] = "running"
        /\ runs' = SetStatus(d, FinalStatus(d, status))
        /\ marked' = marked \ {d}
        /\ outcome' = [outcome EXCEPT ![d] = status]
        /\ EmitInto(d, Settled(d, SettledStatus(status)), "settling", "catching")
        /\ UNCHANGED <<parent, depth, budget, active, signals, stale, cancels, crashes>>

\* run() resolves: its last turn is done, or aborted by an interrupt, or stopped by its budget or
\* an error.
RunResolves(d, how) ==
    LET status == IF parent[d] \in aborted THEN "cancelled"
                  ELSE IF how = "done" THEN "completed" ELSE "partial"
    IN  /\ phase[d] = "running"
        \* run() awaits its tools, the nested dispatch() calls, unless a write was rejected.
        /\ faults = 0 => \A c \in Dispatches : parent[c] = d => phase[c] \notin Live
        /\ d \in aborted => how = "interrupt"
        /\ d \notin aborted => how # "interrupt"
        /\ runs' = SetStatus(d, FinalStatus(d, status))
        /\ marked' = marked \ {d}
        /\ outcome' = [outcome EXCEPT ![d] = status]
        /\ EmitInto(d, Settled(d, SettledStatus(FinalStatus(d, status))), "settling", "catching")
        /\ UNCHANGED <<parent, depth, budget, active, signals, stale, cancels, crashes>>

\* run() rejects (a bubbled event could not be written).
RunRejects(d) ==
    /\ phase[d] = "running"
    /\ faults < MaxFaults
    /\ faults' = faults + 1
    /\ phase' = [phase EXCEPT ![d] = "catching"]
    /\ UNCHANGED <<parent, depth, budget, registry, signals, outcome, stale, journal, cancels,
                   crashes>>

\* catch: failed, and a second chance for subagent.settled
CatchFailure(d) ==
    /\ phase[d] = "catching"
    /\ runs' = SetStatus(d, FinalStatus(d, "failed"))
    /\ marked' = marked \ {d}
    /\ \/ /\ journal' = Append(journal, Settled(d, SettledStatus(FinalStatus(d, "failed"))))
          /\ outcome' = [outcome EXCEPT ![d] = "failed"]
          /\ UNCHANGED faults
       \/ /\ faults < MaxFaults /\ faults' = faults + 1
          /\ outcome' = [outcome EXCEPT ![d] = "throw"]
          /\ journal' \in {journal, Append(journal, Settled(d, SettledStatus(FinalStatus(d, "failed"))))}
    /\ phase' = [phase EXCEPT ![d] = "settling"]
    /\ UNCHANGED <<parent, depth, budget, active, signals, stale, cancels, crashes>>

\* A mutant of Finally: the slot is kept.
FinallyKeepsSlot(d) ==
    /\ phase[d] = "settling"
    /\ phase' = [phase EXCEPT ![d] = "done"]
    /\ listening' = listening \ {d}
    /\ UNCHANGED <<parent, depth, budget, registry, aborted, outcome, stale, journal,
                   counters>>

\* finally
Finally(d) ==
    /\ phase[d] = "settling"
    /\ phase' = [phase EXCEPT ![d] = "done"]
    /\ listening' = listening \ {d}
    /\ active' = active \ {d}
    /\ UNCHANGED <<parent, depth, budget, runs, marked, aborted, outcome,
                   stale, journal, counters>>

-----------------------------------------------------------------------------
(* Cancellation *)

\* cancel(sessionId), and cancelAllRunning() on every run of #activeBySession
Cancel(S) ==
    /\ cancels < MaxCancels
    /\ S # {} /\ S \subseteq active
    /\ cancels' = cancels + 1
    /\ marked' = marked \cup S
    /\ InterruptAll(S)
    /\ UNCHANGED <<work, active, runs, listening, outcome, stale, journal, faults,
                   crashes>>

\* The root turn is interrupted: its signal fires the listeners of its children.
AbortRoot ==
    /\ root \notin aborted
    /\ aborted' = aborted \cup {root}
                    \cup Cascade(Cascade(Heard({d \in listening : parent[d] = root})))
    /\ UNCHANGED <<work, registry, listening, outcome, stale, journal, counters>>

-----------------------------------------------------------------------------
(* Restart, rebuild and reload *)

\* The events of d in the journal, and the last of them
EventsOf(d) == {i \in DOMAIN journal : journal[i].id = d}
LastEvent(d) == journal[CHOOSE i \in EventsOf(d) : \A j \in EventsOf(d) : j <= i]

\* The last settled event decides, a run without one is interrupted.
Replayed(d) == IF LastEvent(d).type = "settled" THEN LastEvent(d).status ELSE "interrupted"

DispatchedEvents == {i \in DOMAIN journal : journal[i].type = "dispatched"}
DispatchedRuns == {journal[i].id : i \in DispatchedEvents}

\* A mutant of RebuiltFrom: the runs of this process are rebuilt as well.
RebuiltFromAll(known) == [d \in DispatchedRuns |-> Replayed(d)]

\* rebuildFromJournal(): the status of each run that the registry does not know
RebuiltFrom(known) == [d \in DispatchedRuns \ known |-> Replayed(d)]

Known == {runs[i].id : i \in DOMAIN runs}
RowOf(d) == runs[CHOOSE i \in DOMAIN runs : runs[i].id = d]

\* The rows of known and the rebuilt ones, sorted by startedAt: by their dispatched events
Merged(known) ==
    LET rebuilt == RebuiltFrom(known)
        events == Subsequence(journal, DispatchedEvents)
    IN  [k \in DOMAIN events |->
            LET d == events[k].id
            IN  IF d \in DOMAIN rebuilt THEN Entry(d, rebuilt[d]) ELSE RowOf(d)]

\* A session is activated while subagents run: load() is not awaited by the activation.
\* A run whose dispatched event was not written has no place in the order of the journal;
\* the model rebuilds only without one.
Rebuild ==
    /\ Known \subseteq DispatchedRuns
    /\ DOMAIN RebuiltFrom(Known) # {}
    /\ runs' = Limited(Merged(Known))
    /\ UNCHANGED <<work, active, marked, signals, outcome, stale, journal, counters>>

\* The process dies; the next one resumes the session and rebuilds the registry.
Crash ==
    /\ crashes < MaxCrashes
    /\ crashes' = crashes + 1
    /\ phase' = [d \in Dispatches |-> IF phase[d] \in Live THEN "lost" ELSE phase[d]]
    /\ active' = {} /\ marked' = {} /\ listening' = {} /\ aborted' = {} /\ stale' = {}
    /\ runs' = Limited(Merged({}))
    /\ UNCHANGED <<parent, depth, budget, outcome, journal, faults, cancels>>

\* inheritRuns(): the new dispatcher takes over the rows of the old one.
InheritedRuns == Limited(runs)

\* rebuildDispatcherOnConfigReload(): only if #active is empty.  The dispatch calls still
\* awaiting runnerFactory keep the old dispatcher.  (Any number of reloads: nothing counts them.)
Reload ==
    /\ active = {}
    /\ stale' = stale \cup {d \in Dispatches : phase[d] = "creating"}
    /\ marked' = {}
    /\ runs' = InheritedRuns
    /\ UNCHANGED <<work, active, signals, outcome, journal, faults, cancels, crashes>>

\* Every dispatch call was made and has settled.
AllSettled ==
    /\ \A d \in Dispatches : phase[d] \in {"done", "lost"}
    /\ UNCHANGED vars

-----------------------------------------------------------------------------
Endings == {"done", "stopped", "interrupt"}

DispatchStep(d) == \/ Create(d) \/ StartRun(d) \/ RunRejects(d) \/ CatchFailure(d) \/ Finally(d)
                   \/ \E how \in Endings : RunResolves(d, how)

Next ==
    \/ \E d \in Dispatches, p \in Dispatches \cup {root}, requested \in 0..(DefaultBudget + 1) :
          Dispatch(d, p, requested)
    \/ \E d \in Dispatches : DispatchStep(d)
    \/ \E S \in {{d} : d \in Dispatches} \cup {active} : Cancel(S)
    \/ AbortRoot \/ Rebuild \/ Crash \/ Reload \/ AllSettled

(***************************************************************************)
(* Every await of dispatch() settles: the factory, the journal and run()   *)
(* (which ends by module Runner's TurnTerminates).                         *)
(***************************************************************************)
Spec == Init /\ [][Next]_vars /\ \A d \in Dispatches : WF_vars(DispatchStep(d))

-----------------------------------------------------------------------------
(* Properties *)

Phases == Live \cup {"unused", "done", "lost"}
Outcomes == {"none", "refused", "crowded", "throw", "completed", "partial", "cancelled", "failed"}
Statuses == {"running", "completed", "partial", "failed", "cancelled", "interrupted"}

\* The dispatcher's fields and the dispatch calls keep their types; no run is deeper than
\* #maxDepth or has more than the default budget, and the registry stays within its limit.
TypeOK ==
    /\ phase \in [Dispatches -> Phases]
    /\ parent \in [Dispatches -> Dispatches \cup {root}]
    /\ depth \in [Dispatches -> 0..MaxDepth]
    /\ budget \in [Dispatches -> 0..DefaultBudget]
    /\ active \subseteq Dispatches /\ marked \subseteq Dispatches
    /\ runs \in Seq([id : Dispatches, status : Statuses]) /\ Len(runs) <= RunHistoryLimit
    /\ listening \subseteq Dispatches /\ aborted \subseteq Dispatches \cup {root}
    /\ outcome \in [Dispatches -> Outcomes]
    /\ stale \subseteq Dispatches
    /\ journal \in Seq([type : {"dispatched", "settled"}, id : Dispatches, status : Statuses])
    /\ faults \in 0..MaxFaults /\ cancels \in 0..MaxCancels
    /\ crashes \in 0..MaxCrashes

\* The journal and the registry tell the same story of a run that settled while the journal
\* could be written, so a rebuild after a crash shows what the panel showed.  (A replaced
\* dispatcher keeps its own rows: what the new one shows of such a run is a rebuilt row, and
\* that is not told of its end.)
JournalMatchesRegistry ==
    \A i \in DOMAIN runs :
        LET d == runs[i].id
        IN  phase[d] = "done" /\ d \notin stale /\ faults = 0 =>
                /\ LastEvent(d) = Settled(d, SettledStatus(runs[i].status))
                /\ Cardinality(EventsOf(d)) = 2

\* `interrupted', the marker of a run that a crash left without an end, is never shown for a
\* run of this process: not even when the registry overflowed, dropped a live run and a
\* rebuild met its dispatched event.  (The runs of a replaced dispatcher are not known to the
\* new one and may be shown so.)
InterruptedIsDead ==
    \A i \in DOMAIN runs : runs[i].status = "interrupted" =>
        phase[runs[i].id] \notin Live \/ runs[i].id \in stale

\* The step that aborts a parent's signal also aborts every run listening to it, to any
\* depth of nesting.
AbortReaches ==
    [][\A d \in listening :
          phase[d] = "running" /\ parent[d] \notin aborted /\ parent[d] \in aborted'
              => d \in aborted']_vars

\* Every dispatch() call settles, or dies with the process, and gives its slot back, unless a
\* journal write is rejected.
SlotsReleased ==
    \A d \in Dispatches :
        phase[d] \in Live ~>
            faults > 0 \/ (phase[d] \in {"done", "lost"} /\ d \notin active)

\* A run cancelled before it ended is shown as cancelled once it has, however it ended,
\* unless the process died, a journal write was rejected or the registry dropped it.
CancelShown ==
    \A d \in Dispatches :
        d \in marked /\ phase[d] \in {"announcing", "running"} ~>
            faults > 0 \/ phase[d] = "lost" \/ d \notin Known
                \/ \E i \in DOMAIN runs : runs[i] = Entry(d, "cancelled")
=============================================================================
