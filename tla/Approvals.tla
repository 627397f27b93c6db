----------------------------- MODULE Approvals -----------------------------
(***************************************************************************)
(* The permission chain in front of every tool call: PermissionManager     *)
(* (packages/permission/src/index.ts), one per runner, the session policy  *)
(* and the prompt handler around it (packages/app-runtime/src/             *)
(* permission.ts), the queue of cards that all managers share              *)
(* (PermissionPromptController, packages/app-runtime/src/contracts.ts) and *)
(* the stored rules (apps/cli/src/permissions-store.ts).                   *)
(*                                                                         *)
(* phase[c] is the await at which tool call c is suspended:                *)
(*   queued    behind another request of its manager                       *)
(*   asking    await events.emit(tool.permission_asked)                    *)
(*   carded    its card is displayed                                       *)
(*   lost      waits on a promise that nothing resolves                    *)
(*   storing   await rules.persist                                         *)
(*   running   operation(); ended: the result is back in the turn          *)
(***************************************************************************)
EXTENDS Naturals, Sequences, FiniteSets, SequencesExt

CONSTANTS Runners,        \* createRunner calls, each with its PermissionManager
          Sessions,       \* top-level session ids
          Calls,          \* tool calls
          Keys,           \* permissionKey values: tool and spec
          Gen,            \* generalizePermissionSpec: the pattern of each key
          FileKeys,       \* keys that are pure file writes inside cwd
          McpKeys,        \* keys of the tools of one MCP server
          HiddenKeys,     \* keys whose card cannot show the details (not approvable)
          LoadedDenies,   \* project deny rules that the file may hold at the start
          Answers,        \* the decisions the user may take on a card
          none,
          MaxTurns,       \* bound: turns
          ModeChoices,    \* bound: the modes that /mode switches to
          MaxAsides,      \* bound: /mode switches and skill grants
          MaxFaults       \* bound: failed emits and failed writes

ASSUME ApprovalsAssumption ==
    /\ none \notin Runners \cup Sessions \cup Calls \cup Keys
    /\ FileKeys \cup McpKeys \cup HiddenKeys \cup LoadedDenies \subseteq Keys
    /\ DOMAIN Gen = Keys
    /\ \A k \in Keys : Gen[k] \notin Keys
    /\ Answers \subseteq {"once", "session", "allSession", "project", "forever",
                          "deny", "denyForever", "mcpServer"}
    /\ ModeChoices \subseteq {"ask", "auto", "full"}
    /\ {MaxTurns, MaxAsides, MaxFaults} \subseteq Nat

Modes == {"ask", "auto", "full"}
Scopes == {"project", "global"}
Patterns == Keys \cup {Gen[k] : k \in Keys}
Rules == [scope : Scopes, allow : BOOLEAN, pattern : Patterns]

VARIABLES
    \* ProductionPermissionSessionPolicy and the active chain
    nextMode,     \* #nextMode
    escalated,    \* #sessionModeEscalations
    snapshot,     \* #snapshots of the top-level sessions: a mode, or none
    control,      \* activePermissionControl: the runner it points to
    \* a runner: its session or its parent runner, its state and its turn
    status, session, parent, turn,
    \* its PermissionManager
    mode, cache, servers, ephemeral, queue,
    \* a tool call
    phase, owner, key,
    verdict,      \* what record() will return for a storing call
    \* PermissionRuleStore
    rules,        \* #entries
    disk,         \* the two files
    writes,       \* #writes: the calls whose flush is chained, per scope
    flushing,     \* the document being written, or none
    turns, asides, faults

policy == <<nextMode, escalated, snapshot, control>>
runner == <<status, session, parent, turn>>
manager == <<mode, cache, servers, ephemeral, queue>>
call == <<phase, owner, key, verdict>>
store == <<rules, disk, writes, flushing>>
counters == <<turns, asides, faults>>
vars == <<policy, runner, manager, call, store, counters>>

Denied(s, k) == [scope |-> s, allow |-> FALSE, pattern |-> k]

Init ==
    /\ nextMode = "ask" /\ escalated = {} /\ control = none
    /\ snapshot = [s \in Sessions |-> none]
    /\ status = [r \in Runners |-> "unused"]
    /\ session = [r \in Runners |-> none] /\ parent = [r \in Runners |-> none]
    /\ turn = [r \in Runners |-> "none"]
    /\ mode = [r \in Runners |-> "ask"]
    /\ cache = [r \in Runners |-> [k \in Keys |-> "none"]]
    /\ servers = [r \in Runners |-> FALSE]
    /\ ephemeral = [r \in Runners |-> {}]
    /\ queue = [r \in Runners |-> <<>>]
    /\ phase = [c \in Calls |-> "unused"]
    /\ owner = [c \in Calls |-> none] /\ key = [c \in Calls |-> none]
    /\ verdict = [c \in Calls |-> "deny"]
    /\ \E S \in SUBSET LoadedDenies : rules = {Denied("project", k) : k \in S}
    /\ disk = rules
    /\ writes = [s \in Scopes |-> <<>>]
    /\ flushing = [s \in Scopes |-> none]
    /\ turns = 0 /\ asides = 0 /\ faults = 0

-----------------------------------------------------------------------------
(* Runners, turns and the session mode *)

Kid(r) == parent[r] # none
Lineage(r) == {r} \cup {x \in Runners : parent[x] = r}
CallsOf(R) == {c \in Calls : owner[c] \in R}
Waiting == {"queued", "asking", "carded", "lost", "storing"}

\* A mutant of Withdrawn: the cards of an aborted turn stay.
WithdrawnNone(R) == {}

\* The onAbort listener that each card puts on its turn's signal.
Withdrawn(R) == {c \in CallsOf(R) : phase[c] = "carded"}

\* A mutant of Dropped: a settled request keeps its place in the chain.
DroppedNone(D) == queue

\* The requests of D end; each is the one its manager is busy with, and the next one is at the
\* head of the chain.
Dropped(D) == [r \in Runners |-> IF queue[r] # <<>> /\ Head(queue[r]) \in D THEN Tail(queue[r])
                                 ELSE queue[r]]
Ended(D) == [c \in Calls |-> IF c \in D THEN "ended" ELSE phase[c]]

\* runner.interrupt(): the turn's signal, and the signals of its children
Interrupt(r) ==
    LET R == {x \in Lineage(r) : turn[x] = "running"}
    IN /\ turn' = [x \in Runners |-> IF x \in R THEN "aborted" ELSE turn[x]]
       /\ phase' = Ended(Withdrawn(R))
       /\ queue' = Dropped(Withdrawn(R))

\* A mutant of FrozenMode: the escalation of an ended session is forgotten.
FrozenModeForgetful(s) == IF snapshot[s] # none THEN snapshot[s] ELSE nextMode

\* snapshotFor of a top-level session
FrozenMode(s) ==
    IF snapshot[s] # none THEN snapshot[s]
    ELSE IF s \in escalated THEN "full" ELSE nextMode

\* createRunner for a top-level session, up to its first await (permissionRules.ready);
\* activate() has interrupted the runner it replaces
BeginRunner(r, s) ==
    /\ status[r] = "unused"
    /\ \A x \in Runners : status[x] # "creating"
    /\ status' = [status EXCEPT ![r] = "creating"]
    /\ session' = [session EXCEPT ![r] = s]
    /\ mode' = [mode EXCEPT ![r] = FrozenMode(s)]
    /\ snapshot' = [snapshot EXCEPT ![s] = FrozenMode(s)]
    /\ IF control # none THEN Interrupt(control) ELSE UNCHANGED <<turn, phase, queue>>
    /\ UNCHANGED <<nextMode, escalated, control, parent, cache, servers, ephemeral, owner, key,
                   verdict, store, counters>>

\* The rest of createRunner: /mode and the skill grants now reach this chain.
InstallRunner(r) ==
    /\ status[r] = "creating"
    /\ status' = [x \in Runners |-> CASE x = r -> "ready"
                                      [] x = control /\ status[x] = "ready" -> "replaced"
                                      [] OTHER -> status[x]]
    /\ control' = r
    /\ UNCHANGED <<nextMode, escalated, snapshot, session, parent, turn, manager, call, store,
                   counters>>

\* createRunner for a child session: the parent's snapshot, or an invariant error
StartChild(r, p) ==
    /\ status[r] = "unused" /\ turn[p] = "running" /\ ~Kid(p)
    /\ snapshot[session[p]] # none
    /\ status' = [status EXCEPT ![r] = "ready"]
    /\ parent' = [parent EXCEPT ![r] = p]
    /\ mode' = [mode EXCEPT ![r] = snapshot[session[p]]]
    /\ turn' = [turn EXCEPT ![r] = "running"]
    /\ UNCHANGED <<policy, session, cache, servers, ephemeral, queue, call, store, counters>>

StartTurn(r) ==
    /\ status[r] = "ready" /\ ~Kid(r) /\ turn[r] = "none" /\ turns < MaxTurns
    /\ turn' = [turn EXCEPT ![r] = "running"]
    /\ turns' = turns + 1
    /\ UNCHANGED <<policy, status, session, parent, manager, call, store, asides, faults>>

InterruptTurn(r) ==
    /\ turn[r] = "running"
    /\ Interrupt(r)
    /\ UNCHANGED <<policy, status, session, parent, mode, cache, servers, ephemeral, owner, key,
                   verdict, store, counters>>

\* turn.completed or turn.aborted, once every tool call has its result; clearEphemeral()
EndTurn(r) ==
    /\ turn[r] # "none"
    /\ \A c \in CallsOf({r}) : phase[c] = "ended"
    /\ \A x \in Lineage(r) \ {r} : turn[x] = "none"
    /\ turn' = [turn EXCEPT ![r] = "none"]
    /\ ephemeral' = [ephemeral EXCEPT ![r] = {}]
    /\ status' = IF Kid(r) THEN [status EXCEPT ![r] = "replaced"] ELSE status
    /\ UNCHANGED <<policy, session, parent, mode, cache, servers, queue, call, store, counters>>

\* SessionController.end(): releaseLineage forgets the snapshot
EndSession(r) ==
    /\ status[r] = "ready" /\ control = r
    /\ status' = [status EXCEPT ![r] = "replaced"]
    /\ snapshot' = [snapshot EXCEPT ![session[r]] = none]
    /\ UNCHANGED <<nextMode, escalated, control, session, parent, turn, manager, call, store,
                   counters>>

\* permissionMode.set: configureMode, then the active chain
SetMode(m) ==
    /\ asides < MaxAsides
    /\ asides' = asides + 1
    /\ nextMode' = m
    /\ escalated' = {}
    /\ mode' = IF control = none THEN mode ELSE [mode EXCEPT ![control] = m]
    /\ UNCHANGED <<snapshot, control, runner, cache, servers, ephemeral, queue, call, store,
                   turns, faults>>

\* grantEphemeral: a skill's allowed-tools
Grant(k) ==
    /\ control # none /\ asides < MaxAsides
    /\ asides' = asides + 1
    /\ ephemeral' = [ephemeral EXCEPT ![control] = @ \cup {k}]
    /\ UNCHANGED <<policy, runner, mode, cache, servers, queue, call, store, turns, faults>>

-----------------------------------------------------------------------------
(* PermissionManager.request *)

Matches(rule, k) == rule.pattern \in {k, Gen[k]}
Ruled(allow, k) == \E rule \in rules : rule.allow = allow /\ Matches(rule, k)

AutoAllowed(r, k) == mode[r] = "auto" /\ k \in FileKeys

Silent(r, k) ==
    \/ k \in McpKeys /\ servers[r]
    \/ mode[r] = "full"
    \/ k \in ephemeral[r]
    \/ Ruled(TRUE, k)
    \/ AutoAllowed(r, k)

\* The decision chain, first match first
Resolution(r, k) ==
    CASE Ruled(FALSE, k) -> "deny"
      [] cache[r][k] # "none" -> cache[r][k]
      [] Silent(r, k) -> "allow"
      [] turn[r] = "aborted" -> "deny"
      [] OTHER -> "ask"

\* ToolExecutor.execute reaches requestAndExecute
Request(c, r, k) ==
    /\ phase[c] = "unused" /\ turn[r] # "none"
    /\ owner' = [owner EXCEPT ![c] = r]
    /\ key' = [key EXCEPT ![c] = k]
    /\ phase' = [phase EXCEPT ![c] = CASE Resolution(r, k) = "deny" -> "ended"
                                       [] Resolution(r, k) = "allow" -> "running"
                                       [] OTHER -> "queued"]
    /\ queue' = IF Resolution(r, k) = "ask" THEN [queue EXCEPT ![r] = Append(@, c)] ELSE queue
    /\ cache' = IF /\ ~Ruled(FALSE, k) /\ cache[r][k] = "none" /\ AutoAllowed(r, k)
                   /\ ~(k \in McpKeys /\ servers[r]) /\ k \notin ephemeral[r] /\ ~Ruled(TRUE, k)
                THEN [cache EXCEPT ![r][k] = "allow"] ELSE cache
    /\ UNCHANGED <<policy, runner, mode, servers, ephemeral, verdict, store, counters>>

\* The queued task starts: it looks at the signal again, and at nothing else.
TakeUp(c) ==
    LET r == owner[c]
    IN /\ phase[c] = "queued" /\ Head(queue[r]) = c
       /\ IF turn[r] = "aborted"
          THEN phase' = Ended({c}) /\ queue' = Dropped({c})
          ELSE phase' = [phase EXCEPT ![c] = "asking"] /\ UNCHANGED queue
       /\ UNCHANGED <<policy, runner, mode, cache, servers, ephemeral, owner, key, verdict, store,
                      counters>>

\* PermissionPromptController.request.  settle() does nothing for an entry that is not in
\* pending yet, so a signal that is already aborted leaves the promise unresolved.
Show(c) ==
    /\ phase' = [phase EXCEPT ![c] = IF turn[owner[c]] = "aborted" THEN "lost" ELSE "carded"]
    /\ UNCHANGED queue

\* The emit of tool.permission_asked is over; a rejection becomes the tool's error result.
Asked(c) ==
    /\ phase[c] = "asking"
    /\ \/ Show(c) /\ UNCHANGED faults
       \/ /\ faults < MaxFaults
          /\ faults' = faults + 1
          /\ phase' = Ended({c}) /\ queue' = Dropped({c})
    /\ UNCHANGED <<policy, runner, mode, cache, servers, ephemeral, owner, key, verdict, store,
                   turns, asides>>

-----------------------------------------------------------------------------
(* The answer to a card, and record() *)

\* What reaches record(): a card without details is denied, and a child session has only
\* the answers that end with it.
Granted(c, a) ==
    IF \/ key[c] \in HiddenKeys
       \/ Kid(owner[c]) /\ a \notin {"once", "session", "deny"}
    THEN "deny" ELSE a

Remember(r, k, a) ==
    cache' = CASE a \in {"session", "project", "forever"} -> [cache EXCEPT ![r][k] = "allow"]
               [] a = "denyForever" -> [cache EXCEPT ![r][k] = "deny"]
               [] OTHER -> cache

\* onFullAccessGranted
Escalate(r) ==
    /\ mode' = [mode EXCEPT ![r] = "full"]
    /\ escalated' = escalated \cup {session[r]}
    /\ snapshot' = [snapshot EXCEPT ![session[r]] = IF @ = none THEN none ELSE "full"]

ScopeOf(a) == IF a = "project" THEN "project" ELSE "global"

\* persist() drops the rules of both patterns on both sides before it adds its own.
Replaced(s, k) == {rule \in rules : rule.scope = s /\ Matches(rule, k)}
Stored(s, k, allow) ==
    [scope |-> s, allow |-> allow, pattern |-> IF allow THEN Gen[k] ELSE k]

\* A mutant of Persist: a write that is under way is trusted to take the new rule along.
PersistCoalesced(c, a) ==
    LET s == ScopeOf(a) allow == a # "denyForever"
    IN /\ rules' = (rules \ Replaced(s, key[c])) \cup {Stored(s, key[c], allow)}
       /\ writes' = IF writes[s] = <<>> THEN [writes EXCEPT ![s] = <<c>>] ELSE writes
       /\ verdict' = [verdict EXCEPT ![c] = IF allow THEN "allow" ELSE "deny"]
       /\ phase' = [phase EXCEPT ![c] = "storing"]

\* persist: the rule in memory (ready() has resolved before the runner was built), and its
\* flush at the end of the scope's chain
Persist(c, a) ==
    LET s == ScopeOf(a) allow == a # "denyForever"
    IN /\ rules' = (rules \ Replaced(s, key[c])) \cup {Stored(s, key[c], allow)}
       /\ writes' = [writes EXCEPT ![s] = Append(@, c)]
       /\ verdict' = [verdict EXCEPT ![c] = IF allow THEN "allow" ELSE "deny"]
       /\ phase' = [phase EXCEPT ![c] = "storing"]

\* record() for an answer that nothing stores
Settle(c, a) ==
    /\ phase' = [phase EXCEPT ![c] = IF a = "deny" THEN "ended" ELSE "running"]
    /\ queue' = Dropped({c})

\* decide(): the card goes, and the request goes on with the answer
Decide(c, a) ==
    LET r == owner[c] g == Granted(c, a)
    IN /\ phase[c] = "carded"
       /\ Remember(r, key[c], g)
       /\ servers' = IF g = "mcpServer" /\ key[c] \in McpKeys
                     THEN [servers EXCEPT ![r] = TRUE] ELSE servers
       /\ IF g = "allSession" THEN Escalate(r) ELSE UNCHANGED <<mode, escalated, snapshot>>
       /\ IF g \in {"project", "forever", "denyForever"}
          THEN Persist(c, g) /\ UNCHANGED queue
          ELSE Settle(c, g) /\ UNCHANGED <<rules, writes, verdict>>
       /\ UNCHANGED <<nextMode, control, runner, ephemeral, owner, key, disk, flushing, counters>>

\* A mutant of Expire: no timer is armed.
ExpireNever(c) == FALSE /\ UNCHANGED vars

\* The card's timer: deny with reason timeout
Expire(c) ==
    /\ phase[c] = "carded"
    /\ Settle(c, "deny")
    /\ UNCHANGED <<policy, runner, mode, cache, servers, ephemeral, owner, key, verdict, store,
                   counters>>

Finish(c) ==
    /\ phase[c] = "running"
    /\ phase' = Ended({c})
    /\ UNCHANGED <<policy, runner, manager, owner, key, verdict, store, counters>>

-----------------------------------------------------------------------------
(* PermissionRuleStore.#flush *)

OfScope(S, s) == {rule \in S : rule.scope = s}

\* The existing file could be parsed; the document is built from memory before the write.
FlushProbe(s) ==
    /\ writes[s] # <<>> /\ flushing[s] = none
    /\ flushing' = [flushing EXCEPT ![s] = OfScope(rules, s)]
    /\ UNCHANGED <<policy, runner, manager, call, rules, disk, writes, counters>>

\* persist() returns to record(), and the decision to requestAndExecute.
Return(s) ==
    LET c == Head(writes[s])
    IN /\ writes' = [writes EXCEPT ![s] = Tail(@)]
       /\ flushing' = [flushing EXCEPT ![s] = none]
       /\ Settle(c, verdict[c])

\* write and rename, or a warning: the file cannot be parsed, or cannot be written
FlushWrite(s) ==
    /\ \/ /\ flushing[s] # none
          /\ disk' = (disk \ OfScope(disk, s)) \cup flushing[s]
          /\ UNCHANGED faults
       \/ /\ writes[s] # <<>> /\ faults < MaxFaults
          /\ faults' = faults + 1
          /\ UNCHANGED disk
    /\ Return(s)
    /\ UNCHANGED <<policy, runner, mode, cache, servers, ephemeral, owner, key, verdict, rules,
                   turns, asides>>

-----------------------------------------------------------------------------
Work ==
    \/ \E r \in Runners : InstallRunner(r) \/ EndTurn(r)
    \/ \E c \in Calls : TakeUp(c) \/ Asked(c) \/ Expire(c) \/ Finish(c)
    \/ \E s \in Scopes : FlushProbe(s) \/ FlushWrite(s)

User ==
    \/ \E r \in Runners, s \in Sessions : BeginRunner(r, s)
    \/ \E r \in Runners : StartTurn(r) \/ InterruptTurn(r) \/ EndSession(r)
    \/ \E m \in ModeChoices : SetMode(m)
    \/ \E k \in Keys : Grant(k)
    \/ \E c \in Calls, a \in Answers : Decide(c, a)

Model ==
    \/ \E c \in Calls, r \in Runners, k \in Keys : Request(c, r, k)
    \/ \E r, p \in Runners : StartChild(r, p)

Next == Work \/ User \/ Model

(***************************************************************************)
(* Fairness: microtasks, emits, file writes and timers happen, and a tool  *)
(* that runs returns.  The user and the model owe nothing.                 *)
(***************************************************************************)
Fairness ==
    /\ \A r \in Runners : WF_vars(InstallRunner(r)) /\ WF_vars(EndTurn(r))
    /\ \A c \in Calls :
          WF_vars(TakeUp(c)) /\ WF_vars(Asked(c)) /\ WF_vars(Expire(c)) /\ WF_vars(Finish(c))
    /\ \A s \in Scopes : WF_vars(FlushProbe(s)) /\ WF_vars(FlushWrite(s))

Spec == Init /\ [][Next]_vars /\ Fairness

-----------------------------------------------------------------------------
(* Properties *)

\* The types of the variables, and that only a waiting call is in a queue.
TypeOK ==
    /\ nextMode \in Modes /\ escalated \subseteq Sessions /\ control \in Runners \cup {none}
    /\ snapshot \in [Sessions -> Modes \cup {none}]
    /\ status \in [Runners -> {"unused", "creating", "ready", "replaced"}]
    /\ session \in [Runners -> Sessions \cup {none}]
    /\ parent \in [Runners -> Runners \cup {none}]
    /\ turn \in [Runners -> {"none", "running", "aborted"}]
    /\ mode \in [Runners -> Modes]
    /\ cache \in [Runners -> [Keys -> {"none", "allow", "deny"}]]
    /\ servers \in [Runners -> BOOLEAN]
    /\ ephemeral \in [Runners -> SUBSET Keys]
    /\ \A r \in Runners : ToSet(queue[r]) = {c \in CallsOf({r}) : phase[c] \in Waiting}
    /\ phase \in [Calls -> Waiting \cup {"unused", "running", "ended"}]
    /\ owner \in [Calls -> Runners \cup {none}] /\ key \in [Calls -> Keys \cup {none}]
    /\ verdict \in [Calls -> {"allow", "deny"}]
    /\ rules \subseteq Rules /\ disk \subseteq Rules
    /\ \A s \in Scopes : ToSet(writes[s]) \subseteq {c \in Calls : phase[c] = "storing"}

\* A displayed card belongs to a turn that is still running, and a manager has at most one
\* request past its queue: an answer is never given to a turn that has been interrupted.
NoZombieCard ==
    \A c, d \in Calls :
        /\ phase[c] = "carded" => turn[owner[c]] = "running"
        /\ phase[c] \in Waiting \ {"queued"} /\ phase[d] \in Waiting \ {"queued"}
               /\ owner[c] = owner[d] => c = d

\* "Allow everything in this session" outlives the runner that asked: until /mode is used,
\* every chain that a later start or resume of that session builds, ended or not in
\* between, does not ask.
EscalationHolds ==
    [][\A r \in Runners :
          status[r] = "unused" /\ status'[r] = "creating" /\ session'[r] \in escalated
              => mode'[r] = "full"]_vars

\* Once every chained write is over, the files hold exactly the rules in memory, unless
\* a write failed: no decision taken while another was being written is lost.
DiskFollows ==
    (\A s \in Scopes : writes[s] = <<>>) /\ faults = 0 => disk = rules

\* A request that waits is decided, or waits behind the request of its manager whose
\* promise was lost.
RequestSettles ==
    \A c \in Calls :
        phase[c] \in {"queued", "asking", "carded", "storing"}
            ~> \/ phase[c] \in {"running", "ended"}
               \/ \E d \in Calls : owner[d] = owner[c] /\ phase[d] = "lost"

\* contracts.ts: an interrupted turn withdraws its cards and is not held up by them.
AbortSettles == \A r \in Runners : turn[r] = "aborted" ~> turn[r] # "aborted"
=============================================================================
