------------------------------- MODULE Runner -------------------------------
(***************************************************************************)
(* One session's agent loop: Runner.run() of packages/core/src/runner.ts,  *)
(* with interrupt() arriving at any of its awaits, the event bus whose     *)
(* storage subscriber may fail, and the journal that a restarted process   *)
(* replays (packages/core/src/replay.ts, packages/storage/src/index.ts).   *)
(*                                                                         *)
(* pc names the await at which run() is suspended; an action is the code   *)
(* between two awaits.  An emit ends its action: the event is appended to  *)
(* the journal, or the storage subscriber rejects and the rejection goes   *)
(* to run()'s catch block, or to run()'s caller from outside the try.      *)
(* The journal keeps the events that replay or the task daemon reads.      *)
(***************************************************************************)
EXTENDS ContextPolicy, SequencesExt

CONSTANTS Providers,
          MaxToolLoopsPerTurn,
          ToolCallMax,     \* options.budget.toolCallMax
          TokenMax,        \* options.budget.tokenMax
          TaskRun,         \* options.taskRun is set
          MaxTurns,        \* bound: run() calls of the session
          MaxParallel,     \* bound: tool_use blocks in one assistant message
          MaxInterrupts,   \* bound: interrupt() calls
          MaxFaults,       \* bound: rejected journal writes
          MaxThrows,       \* bound: exceptions of router, composer, policy, provider
          MaxCrashes,      \* bound: process crashes followed by a resume
          none             \* an absent provider

ASSUME RunnerAssumption ==
    /\ none \notin Providers
    /\ MaxToolLoopsPerTurn \in Nat
    /\ ToolCallMax \in Nat
    /\ TokenMax \in Nat
    /\ TaskRun \in BOOLEAN
    /\ {MaxTurns, MaxParallel, MaxInterrupts, MaxFaults, MaxThrows, MaxCrashes} \subseteq Nat

VARIABLES
    pc,               \* the await run() is suspended at, "idle" outside run()
    turn,             \* the turn of the latest run() call, 0 before the first
    status,           \* turns[t].status
    activeTurn,       \* state.activeTurn, 0 for null
    pendingInterrupt, \* state.pendingInterrupt
    aborted,          \* signal.aborted of the latest AbortController
    messages,         \* state.messages
    usage,            \* state.cumulativeUsage: one token per assistant message
    local,            \* the local variables of run()
    current,          \* the assistant message being streamed
    running,          \* tools whose execute() has not settled
    lastTurn,         \* #lastTurn: the provider, and was the reply cut off by max_tokens?
                      \* (B7 hands it to the router as a preference; the router chooses freely)
    journal,          \* the session's JSONL file
    nextTool,         \* the next tool_use id
    interrupts, faults, throws, crashes

session == <<status, activeTurn, pendingInterrupt, messages, usage>>
counters == <<interrupts, faults, throws, crashes>>
vars == <<pc, turn, status, activeTurn, pendingInterrupt, aborted, messages, usage,
          local, current, running, lastTurn, journal, nextTool, counters>>

Turns == 1..MaxTurns

-----------------------------------------------------------------------------
(* Messages and events *)

UserMessage      == Message("user", {}, {}, 1, FALSE)
Assistant(tools) == Message("assistant", tools, {}, 1, FALSE)
ToolResult(t)    == Message("user", {}, {t}, 1, FALSE)

TurnStarted        == [type |-> "turn.started", turn |-> turn]
MessageAppended(m) == [type |-> "message.appended", turn |-> turn, message |-> m]
TurnCompleted(n)   == [type |-> "turn.completed", turn |-> turn, usage |-> n]
TurnAborted(r)     == [type |-> "turn.aborted", turn |-> turn, reason |-> r]
TaskEvent(name)    == [type |-> name, turn |-> turn]

FreshLocal == [sticky |-> none, decision |-> none, retry |-> none, loops |-> 0,
               toolCalls |-> 0, failed |-> FALSE, abortReason |-> "none", turnUsage |-> 0,
               truncated |-> FALSE]
FreshCurrent == [tools |-> {}, invalid |-> {}]

(***************************************************************************)
(* EventBus.emit followed by the await on it.  Quiet events are those the  *)
(* journal does not keep; the storage subscriber still writes them and may *)
(* still reject.  A write that fails inside the try of run() resumes in    *)
(* the catch block; outside it run() rejects and its caller is idle again. *)
(***************************************************************************)
Rejected(handler) ==
    /\ faults < MaxFaults
    /\ faults' = faults + 1
    /\ pc' = handler
    /\ UNCHANGED <<interrupts, throws, crashes>>

\* A rejected write may have reached the file: fsync is what failed.
Emit(event, next, handler) ==
    \/ /\ journal' = Append(journal, event)
       /\ pc' = next
       /\ UNCHANGED counters
    \/ Rejected(handler) /\ journal' \in {journal, Append(journal, event)}

EmitQuiet(next, handler) ==
    /\ UNCHANGED journal
    /\ \/ pc' = next /\ UNCHANGED counters
       \/ Rejected(handler)

\* An awaited callee throws.
Throw ==
    /\ throws < MaxThrows
    /\ throws' = throws + 1
    /\ pc' = "catch"
    /\ UNCHANGED <<journal, interrupts, faults, crashes>>

-----------------------------------------------------------------------------
Init ==
    /\ pc = "idle"
    /\ turn = 0
    /\ status = [t \in Turns |-> "none"]
    /\ activeTurn = 0
    /\ pendingInterrupt = FALSE
    /\ aborted = FALSE
    /\ messages = <<>>
    /\ usage = 0
    /\ local = FreshLocal
    /\ current = FreshCurrent
    /\ running = {}
    /\ lastTurn = [provider |-> none, truncated |-> FALSE]
    /\ journal = <<>>
    /\ nextTool = 1
    /\ interrupts = 0 /\ faults = 0 /\ throws = 0 /\ crashes = 0

\* interrupt(): at any await of run(), or while no turn runs.
Interrupt ==
    /\ pc # "end"
    /\ interrupts < MaxInterrupts
    /\ interrupts' = interrupts + 1
    /\ pendingInterrupt' = TRUE
    /\ aborted' = (turn > 0)
    /\ UNCHANGED <<pc, turn, status, activeTurn, messages, usage, local, current,
                   running, lastTurn, journal, nextTool, faults, throws, crashes>>

\* run() up to the await on turn.started: a new controller, a new turn.
Run ==
    /\ pc = "idle" /\ turn < MaxTurns
    /\ turn' = turn + 1
    /\ aborted' = FALSE
    /\ pendingInterrupt' = FALSE
    /\ activeTurn' = turn + 1
    /\ status' = [status EXCEPT ![turn + 1] = "streaming"]
    /\ local' = FreshLocal
    /\ current' = FreshCurrent
    /\ Emit([TurnStarted EXCEPT !.turn = turn + 1], "started", "idle")
    /\ UNCHANGED <<messages, usage, running, lastTurn, nextTool>>

StartTask ==
    /\ pc = "started" /\ TaskRun
    /\ Emit(TaskEvent("task.started"), "tasked", "idle")
    /\ UNCHANGED <<turn, session, aborted, local, current, running, lastTurn,
                   nextTool>>

\* A mutant of AppendUser: the message is not journaled.
AppendUserUnsaved ==
    /\ pc = (IF TaskRun THEN "tasked" ELSE "started")
    /\ messages' = Append(messages, UserMessage)
    /\ EmitQuiet("loop", "idle")
    /\ UNCHANGED <<turn, status, activeTurn, pendingInterrupt, usage, aborted, local,
                   current, running, lastTurn, nextTool>>

AppendUser ==
    /\ pc = (IF TaskRun THEN "tasked" ELSE "started")
    /\ messages' = Append(messages, UserMessage)
    /\ Emit(MessageAppended(UserMessage), "loop", "idle")
    /\ UNCHANGED <<turn, status, activeTurn, pendingInterrupt, usage, aborted, local,
                   current, running, lastTurn, nextTool>>

-----------------------------------------------------------------------------
(* The head of the outer loop *)

\* exhaustedBudget(): tokens of the session, tool calls of the turn
ExhaustedBudget == usage >= TokenMax \/ local.toolCalls >= ToolCallMax

LoopAborted ==
    /\ pc = "loop" /\ aborted
    /\ pc' = "end"
    /\ UNCHANGED <<turn, session, aborted, local, current, running, lastTurn,
                   journal, nextTool, counters>>

RaiseBudget ==
    /\ pc = "loop" /\ ~aborted /\ ExhaustedBudget
    /\ EmitQuiet("budget", "catch")
    /\ UNCHANGED <<turn, session, aborted, local, current, running, lastTurn,
                   nextTool>>

\* A mutant of AbortBudget: a reason the turn.aborted event does not know.
AbortBudgetByName ==
    /\ pc = "budget"
    /\ local' = [local EXCEPT !.abortReason = "budget"]
    /\ aborted' = TRUE
    /\ pc' = "end"
    /\ UNCHANGED <<turn, session, current, running, lastTurn, journal,
                   nextTool, counters>>

AbortBudget ==
    /\ pc = "budget"
    /\ local' = [local EXCEPT !.abortReason = "error"]
    /\ aborted' = TRUE
    /\ pc' = "end"
    /\ UNCHANGED <<turn, session, current, running, lastTurn, journal,
                   nextTool, counters>>

RaiseLoopCap ==
    /\ pc = "loop" /\ ~aborted /\ ~ExhaustedBudget
    /\ local.loops >= MaxToolLoopsPerTurn
    /\ EmitQuiet("capped", "catch")
    /\ UNCHANGED <<turn, session, aborted, local, current, running, lastTurn,
                   nextTool>>

\* A mutant of PickRoute: a retry after a stream interruption does not count as a loop.
PickRouteFreeRetry ==
    /\ pc = "loop" /\ ~aborted /\ ~ExhaustedBudget
    /\ local.loops < MaxToolLoopsPerTurn
    /\ \E p \in Providers :
         /\ local.retry # none => p = local.retry
         /\ local.retry = none /\ local.sticky # none => p = local.sticky
         /\ local' = [local EXCEPT !.loops = IF local.retry = none THEN @ + 1 ELSE @,
                                   !.decision = p, !.retry = none]
    /\ pc' = "compose"
    /\ UNCHANGED <<turn, session, aborted, current, running, lastTurn, nextTool, journal, counters>>

\* loops += 1, then the retry decision, the sticky provider, or router.pick()
PickRoute ==
    /\ pc = "loop" /\ ~aborted /\ ~ExhaustedBudget
    /\ local.loops < MaxToolLoopsPerTurn
    /\ \E p \in Providers :
         /\ local.retry # none => p = local.retry
         /\ local.retry = none /\ local.sticky # none => p = local.sticky
         /\ \/ /\ local' = [local EXCEPT !.loops = @ + 1, !.decision = p, !.retry = none]
               /\ pc' = "compose"
               /\ UNCHANGED <<journal, counters>>
            \/ /\ local' = [local EXCEPT !.loops = @ + 1]
               /\ local.retry = none /\ local.sticky = none
               /\ Throw
    /\ UNCHANGED <<turn, session, aborted, current, running, lastTurn, nextTool>>

\* compose() resolves and the context policy asks for a compaction.
BeginCompact ==
    /\ pc = "compose" /\ ShouldCompact(messages)
    /\ status' = [status EXCEPT ![turn] = "compacting"]
    /\ pc' = "compacting"
    /\ UNCHANGED <<turn, activeTurn, pendingInterrupt, messages, usage, aborted, local,
                   current, running, lastTurn, journal, nextTool, counters>>

\* compact() resolves: the messages are replaced, unless the preCompact hook intercepted it,
\* and context.compacted is emitted.
FinishCompact ==
    /\ pc = "compacting"
    /\ messages' \in {messages, Compact(messages)}
    /\ status' = [status EXCEPT ![turn] = "streaming"]
    /\ EmitQuiet("compacted", "catch")
    /\ UNCHANGED <<turn, activeTurn, pendingInterrupt, usage, aborted, local, current,
                   running, lastTurn, nextTool>>

\* stream.started; provider.stream() is called with BuildPrompt(messages).
StartStream ==
    /\ pc = "compacted" \/ (pc = "compose" /\ ~ShouldCompact(messages))
    /\ current' = FreshCurrent
    /\ EmitQuiet("stream", "catch")
    /\ UNCHANGED <<turn, session, aborted, local, running, lastTurn, nextTool>>

-----------------------------------------------------------------------------
(* The chunks of provider.stream() *)

\* The next chunk finds the signal aborted: break outer.
StreamAborted ==
    /\ pc = "stream" /\ aborted
    /\ pc' = "end"
    /\ UNCHANGED <<turn, session, aborted, local, current, running, lastTurn,
                   journal, nextTool, counters>>

\* tool_use.start .. tool_use.end of one tool; ok iff its arguments parse.
StreamToolUse(ok) ==
    /\ pc = "stream" /\ ~aborted
    /\ Cardinality(current.tools) < MaxParallel
    /\ local' = [local EXCEPT !.sticky = IF @ = none THEN local.decision ELSE @]
    /\ current' = [tools   |-> current.tools \cup {nextTool},
                   invalid |-> IF ok THEN current.invalid ELSE current.invalid \cup {nextTool}]
    /\ nextTool' = nextTool + 1
    /\ UNCHANGED <<pc, turn, session, aborted, running, lastTurn, journal, counters>>

\* message.interrupted after a tool_use: its tools are void and the turn fails.
InterruptedPartial ==
    /\ pc = "stream" /\ ~aborted /\ current.tools # {}
    /\ current' = FreshCurrent
    /\ \/ /\ local' = [local EXCEPT !.failed = TRUE, !.abortReason = "stream_interrupted"]
          /\ EmitQuiet("broken", "catch")
       \/ /\ Rejected("catch")          \* the first of the two error.raised
          /\ UNCHANGED <<local, journal>>
    /\ UNCHANGED <<turn, session, aborted, running, lastTurn, nextTool>>

\* message.interrupted without a tool_use: router.onError() decides.
InterruptedPlain(next) ==
    /\ pc = "stream" /\ ~aborted /\ current.tools = {}
    /\ LET giveUp == next = none
           breaks == local.sticky # none /\ next # local.sticky
       IN  \/ /\ giveUp
              /\ local' = [local EXCEPT !.failed = TRUE, !.abortReason = "stream_interrupted"]
              /\ EmitQuiet("broken", "catch")
           \/ /\ ~giveUp /\ breaks
              /\ local' = [local EXCEPT !.failed = TRUE, !.abortReason = "stream_interrupted"]
              /\ EmitQuiet("broken", "catch")
           \/ /\ ~giveUp /\ ~breaks
              /\ local' = [local EXCEPT !.retry = next]
              /\ EmitQuiet("loop", "catch")
    /\ UNCHANGED <<turn, session, aborted, current, running, lastTurn, nextTool>>

\* The stream ends; router.onSuccess() is awaited.
StreamEnds(truncated) ==
    /\ pc = "stream" /\ ~aborted
    /\ local' = [local EXCEPT !.truncated = truncated]
    /\ pc' = "success"
    /\ UNCHANGED <<turn, session, aborted, current, running, lastTurn, journal,
                   nextTool, counters>>

\* compose(), compact(), provider.stream() or router.onSuccess() throws.
CalleeThrows ==
    /\ pc \in {"compose", "compacting", "stream", "success"}
    /\ Throw
    /\ UNCHANGED <<turn, session, aborted, local, current, running, lastTurn,
                   nextTool>>

-----------------------------------------------------------------------------
(* The assistant message and its tools *)

\* finish() and append(), the usage, then stream.completed
AppendAssistant ==
    /\ pc = "success"
    /\ messages' = Append(messages, Assistant(current.tools))
    /\ usage' = usage + 1
    /\ local' = [local EXCEPT !.turnUsage = @ + 1]
    /\ EmitQuiet("completed", "catch")
    /\ UNCHANGED <<turn, status, activeTurn, pendingInterrupt, aborted, current, running,
                   lastTurn, nextTool>>

AnnounceAssistant ==
    /\ pc = "completed"
    /\ Emit(MessageAppended(Assistant(current.tools)), "assistant", "catch")
    /\ UNCHANGED <<turn, session, aborted, local, current, running, lastTurn,
                   nextTool>>

\* toolCalls += n and tool.requested for each tool
RequestTools ==
    /\ pc = "assistant" /\ current.tools # {}
    /\ local' = [local EXCEPT !.toolCalls = @ + Cardinality(current.tools)]
    /\ EmitQuiet("requested", "catch")
    /\ UNCHANGED <<turn, session, aborted, current, running, lastTurn, nextTool>>

\* Promise.all over the tools: each valid one emits tool.started and is executed.
\* If one tool.started is rejected the others still start.
StartTools ==
    /\ pc = "requested"
    /\ LET valid == current.tools \ current.invalid
       IN  \/ /\ running' = valid
              /\ pc' = "executing"
              /\ UNCHANGED <<journal, counters>>
           \/ /\ \E t \in valid : running' = valid \ {t}
              /\ Rejected("catch")
              /\ UNCHANGED journal
    /\ UNCHANGED <<turn, session, aborted, local, current, lastTurn, nextTool>>

\* execute() settles, with a result or an error result, also after the turn is over.
ToolSettles(t) ==
    /\ t \in running
    /\ running' = running \ {t}
    /\ UNCHANGED <<pc, turn, session, aborted, local, current, lastTurn, journal,
                   nextTool, counters>>

\* Mutants of AppendResult: a call with invalid arguments gets no result; the results are
\* read before every tool settled.
AppendResultOfValid ==
    LET todo == (current.tools \ current.invalid) \ Results(messages)
    IN  /\ pc = "collect" \/ (pc = "executing" /\ running = {})
        /\ IF todo = {} THEN EmitQuiet("loop", "catch") /\ UNCHANGED messages
           ELSE /\ messages' = Append(messages, ToolResult(Min(todo)))
                /\ Emit(MessageAppended(ToolResult(Min(todo))), "collect", "catch")
        /\ UNCHANGED <<turn, status, activeTurn, pendingInterrupt, usage, aborted, local,
                       current, running, lastTurn, nextTool>>

AppendResultEarly ==
    LET todo == current.tools \ Results(messages)
        t    == Min(todo)
    IN  /\ pc \in {"collect", "executing"}
        /\ todo # {}
        /\ messages' = Append(messages, ToolResult(t))
        /\ Emit(MessageAppended(ToolResult(t)),
                IF todo = {t} THEN "loop" ELSE "collect", "catch")
        /\ UNCHANGED <<turn, status, activeTurn, pendingInterrupt, usage, aborted, local,
                       current, running, lastTurn, nextTool>>

\* One iteration of the loop over the results: append, tool.completed, message.appended.
\* The tools still to be recorded are those of current that messages does not answer.
AppendResult ==
    LET todo == current.tools \ Results(messages)
        t    == Min(todo)
    IN  /\ pc = "collect" \/ (pc = "executing" /\ running = {})
        /\ todo # {}
        /\ messages' = Append(messages, ToolResult(t))
        /\ Emit(MessageAppended(ToolResult(t)),
                IF todo = {t} THEN "loop" ELSE "collect", "catch")
        /\ UNCHANGED <<turn, status, activeTurn, pendingInterrupt, usage, aborted, local,
                       current, running, lastTurn, nextTool>>

-----------------------------------------------------------------------------
(* The end of the turn *)

\* catch: runner_error
Catch ==
    /\ pc = "catch"
    /\ local' = [local EXCEPT !.failed = TRUE, !.abortReason = "error"]
    /\ EmitQuiet("caught", "idle")
    /\ UNCHANGED <<turn, session, aborted, current, running, lastTurn, nextTool>>

\* A mutant of Aborts: only failures count.
AbortsOnFailure == local.failed

\* const aborted = failed || signal.aborted || pendingInterrupt
Aborts == local.failed \/ aborted \/ pendingInterrupt

Reason == IF local.abortReason = "stream_interrupted" THEN "stream_interrupted"
          ELSE IF local.failed THEN "error" ELSE "user_interrupt"

\* A mutant of EndTurn: the turn stays the active one.
EndTurnActive ==
    /\ \/ pc \in {"end", "capped", "broken", "caught"}
       \/ pc = "assistant" /\ current.tools = {}
    /\ status' = [status EXCEPT ![turn] = IF Aborts THEN "aborted" ELSE "done"]
    /\ Emit(IF Aborts THEN TurnAborted(Reason) ELSE TurnCompleted(local.turnUsage),
            IF TaskRun THEN "ended" ELSE "idle", "idle")
    /\ local' = FreshLocal /\ current' = FreshCurrent
    /\ UNCHANGED <<turn, activeTurn, pendingInterrupt, messages, usage, aborted, running,
                   lastTurn, nextTool>>

\* The turn's record, then turn.aborted or turn.completed
EndTurn ==
    /\ \/ pc \in {"end", "capped", "broken", "caught"}
       \/ pc = "assistant" /\ current.tools = {}
    /\ activeTurn' = 0
    /\ status' = [status EXCEPT ![turn] = IF Aborts THEN "aborted" ELSE "done"]
    /\ lastTurn' = IF Aborts \/ local.decision = none THEN lastTurn
                   ELSE [provider |-> local.decision, truncated |-> local.truncated]
    /\ Emit(IF Aborts THEN TurnAborted(Reason) ELSE TurnCompleted(local.turnUsage),
            IF TaskRun THEN "ended" ELSE "idle", "idle")
    /\ local' = FreshLocal          \* the local variables are not read again
    /\ current' = FreshCurrent
    /\ UNCHANGED <<turn, pendingInterrupt, messages, usage, aborted, running,
                   nextTool>>

\* A mutant of EndTask: the outcome of the task ignores that of its turn.
EndTaskCompleted ==
    /\ pc = "ended"
    /\ Emit(TaskEvent("task.completed"), "idle", "idle")
    /\ UNCHANGED <<turn, session, aborted, local, current, running, lastTurn,
                   nextTool>>

\* task.failed or task.completed.  `aborted' was computed before turn.aborted: the
\* turn's status tells it.
EndTask ==
    /\ pc = "ended"
    /\ Emit(TaskEvent(IF status[turn] = "aborted" THEN "task.failed" ELSE "task.completed"),
            "idle", "idle")
    /\ UNCHANGED <<turn, session, aborted, local, current, running, lastTurn,
                   nextTool>>

-----------------------------------------------------------------------------
(* Restart: replaySessionState() over the journal *)

ReplayedMessages ==
    LET appended == Subsequence(journal,
                                {i \in DOMAIN journal : journal[i].type = "message.appended"})
    IN  [i \in DOMAIN appended |-> appended[i].message]

JournalTypes(t) == {journal[i].type : i \in {j \in DOMAIN journal : journal[j].turn = t}}

\* settleTurn(), and non-terminal turns become aborted
ReplayedStatus(t) ==
    CASE "turn.started" \notin JournalTypes(t)  -> "none"
      [] "turn.completed" \in JournalTypes(t)   -> "done"
      [] OTHER                                  -> "aborted"

ReplayedUsage ==
    SumOf([i \in DOMAIN journal |->
              IF journal[i].type = "turn.completed" THEN journal[i].usage ELSE 0])

\* The process dies at any point and `volund resume' builds a new Runner.
CrashAndResume ==
    /\ crashes < MaxCrashes
    /\ crashes' = crashes + 1
    /\ pc' = "idle"
    /\ status' = [t \in Turns |-> ReplayedStatus(t)]
    /\ activeTurn' = 0
    /\ pendingInterrupt' = FALSE
    /\ aborted' = FALSE
    /\ messages' = ReplayedMessages
    /\ usage' = ReplayedUsage
    /\ local' = FreshLocal
    /\ current' = FreshCurrent
    /\ running' = {}
    /\ lastTurn' = [provider |-> none, truncated |-> FALSE]
    /\ UNCHANGED <<turn, journal, nextTool, interrupts, faults, throws>>

\* The session is over: every allowed turn ran.
SessionOver ==
    /\ pc = "idle" /\ turn = MaxTurns /\ running = {}
    /\ UNCHANGED vars

-----------------------------------------------------------------------------
LoopHead == LoopAborted \/ RaiseBudget \/ AbortBudget \/ RaiseLoopCap \/ PickRoute
            \/ BeginCompact \/ FinishCompact \/ StartStream

Stream == \/ StreamAborted
          \/ \E ok \in BOOLEAN : StreamToolUse(ok) \/ StreamEnds(ok)
          \/ InterruptedPartial
          \/ \E next \in Providers \cup {none} : InterruptedPlain(next)
          \/ CalleeThrows

Tools == \/ AppendAssistant \/ AnnounceAssistant \/ RequestTools \/ StartTools
         \/ \E t \in running : ToolSettles(t)
         \/ AppendResult

Step == StartTask \/ AppendUser \/ LoopHead \/ Stream \/ Tools \/ Catch \/ EndTurn \/ EndTask

Next == Run \/ Step \/ Interrupt \/ CrashAndResume \/ SessionOver

(***************************************************************************)
(* A settled promise is continued by the event loop, and the awaited       *)
(* callees (provider, tools, storage) settle: weak fairness of the steps   *)
(* of run().  Nothing makes a user start a turn or interrupt one.          *)
(***************************************************************************)
Spec == Init /\ [][Next]_vars /\ WF_vars(Step)

-----------------------------------------------------------------------------
(* Properties *)

PCs == {"idle", "started", "tasked", "loop", "budget", "capped", "compose", "compacting",
        "compacted", "stream", "broken", "success", "completed", "assistant", "requested",
        "executing", "collect", "catch", "caught", "end", "ended"}

Messages == [role : {"user", "assistant"}, uses : SUBSET Nat, results : SUBSET Nat,
             tokens : {1}, pinned : {FALSE}]
Events == [type : {"turn.started", "task.started", "task.failed", "task.completed"}, turn : Turns]
          \cup [type : {"message.appended"}, turn : Turns, message : Messages]
          \cup [type : {"turn.completed"}, turn : Turns, usage : Nat]
          \cup [type : {"turn.aborted"}, turn : Turns,
                reason : {"user_interrupt", "error", "stream_interrupted"}]
Locals == [sticky : Providers \cup {none}, decision : Providers \cup {none},
           retry : Providers \cup {none}, loops : Nat, toolCalls : Nat, failed : BOOLEAN,
           abortReason : {"none", "error", "stream_interrupted"}, turnUsage : Nat,
           truncated : BOOLEAN]

\* The variables of Runner and of the state that run() replaces keep their types.
TypeOK ==
    /\ pc \in PCs
    /\ turn \in 0..MaxTurns
    /\ status \in [Turns -> {"none", "streaming", "compacting", "done", "aborted"}]
    /\ activeTurn \in 0..MaxTurns
    /\ pendingInterrupt \in BOOLEAN
    /\ aborted \in BOOLEAN
    /\ messages \in Seq(Messages)
    /\ usage \in Nat
    /\ local \in Locals
    /\ current \in [tools : SUBSET Nat, invalid : SUBSET Nat]
    /\ running \in SUBSET Nat
    /\ lastTurn \in [provider : Providers \cup {none}, truncated : BOOLEAN]
    /\ journal \in Seq(Events)
    /\ nextTool \in Nat
    /\ interrupts \in 0..MaxInterrupts
    /\ faults \in 0..MaxFaults
    /\ throws \in 0..MaxThrows
    /\ crashes \in 0..MaxCrashes

\* A message that asks for one tool at most.
Serial(m) == \A x, y \in m.uses : x = y

\* What a provider is sent never holds a tool_result without its tool_use.  While journal
\* writes succeed and nothing crashes, each tool_use in it is answered too, whatever
\* interrupts, exceptions and stream interruptions came before, if its message asks for no
\* other tool or nothing was dropped from the conversation.  (select() may keep a message
\* with several tool_uses for the sake of one of its results and drop the others.)
RequestPaired ==
    LET sent == BuildPrompt(messages)
    IN  pc = "stream" =>
            /\ Results(sent) \subseteq Uses(sent)
            /\ faults = 0 /\ crashes = 0 =>
                   \A i \in DOMAIN sent :
                       Serial(sent[i]) \/ sent = ReplayedMessages => sent[i].uses \subseteq Results(sent)

\* A tool never outlives the turn that started it while journal writes succeed: the catch
\* block of run() does not abort the signal, so only Promise.all keeps tools inside the turn.
NoToolOutlivesTurn ==
    activeTurn = 0 /\ faults = 0 => running = {}

\* The live conversation is one message.appended ahead of the journal at most: while journal
\* writes succeed, what a resume rebuilds is the live conversation less the message whose
\* event is being written, until the context policy asks for a compaction (which is not
\* replayed); between turns it also rebuilds their statuses, and the usage unless a turn was
\* aborted.
ReplayFollows ==
    faults = 0 =>
        /\ ~ShouldCompact(ReplayedMessages) =>
               /\ IsPrefix(ReplayedMessages, messages)
               /\ pc \in {"loop", "stream", "idle"} => ReplayedMessages = messages
        /\ pc = "idle" =>
               /\ \A t \in Turns : status[t] = ReplayedStatus(t)
               /\ "aborted" \notin {status[t] : t \in Turns} => ReplayedUsage = usage

Terminal == {"turn.completed", "turn.aborted"}

\* Among a turn's events in the journal turn.started comes first or not at all, there is at
\* most one of turn.completed and turn.aborted, and only the task's outcome follows that one.
TurnJournal ==
    \A i, j \in DOMAIN journal :
        i < j /\ journal[i].turn = journal[j].turn =>
            /\ journal[j].type # "turn.started"
            /\ journal[i].type \in Terminal =>
                   journal[j].type = (IF journal[i].type = "turn.aborted" THEN "task.failed"
                                      ELSE "task.completed")

\* Between two turns no turn is left open, after a crash and a replay neither; only a
\* rejected journal write makes run() return with its turn still active.
IdleIsSettled ==
    pc = "idle" /\ faults = 0 =>
        activeTurn = 0 /\ \A t \in Turns : status[t] \notin {"streaming", "compacting"}

\* Every turn reaches a terminal status while journal writes succeed, however its streams and
\* tools end.
TurnTerminates ==
    \A t \in Turns : status[t] # "none" ~> status[t] \in {"done", "aborted"} \/ faults > 0

\* An interrupt received while a turn is active makes that turn end as aborted, unless a
\* journal write is rejected.
InterruptSettles ==
    \A t \in Turns : (pendingInterrupt /\ activeTurn = t) ~> status[t] = "aborted" \/ faults > 0
=============================================================================
