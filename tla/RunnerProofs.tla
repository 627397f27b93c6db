---------------------------- MODULE RunnerProofs ----------------------------
(***************************************************************************)
(* Proofs about Runner for any bounds, any providers and any context       *)
(* policy: what run() leaves behind when it returns, the shape of the      *)
(* journal of a turn, what a resume rebuilds and what a provider is sent.  *)
(***************************************************************************)
EXTENDS Runner, ListsProofs

-----------------------------------------------------------------------------
(* The context policy *)

LEMMA SelectedInDomain ==
  ASSUME NEW s, NEW t
  PROVE  SelectedIndices(s, t) \in SUBSET (DOMAIN s)
BY DEF SelectedIndices

\* Select() keeps messages of the conversation, each with what it is tied to by a tool id.
LEMMA SelectKeeps ==
  ASSUME NEW S, NEW s \in Seq(S), NEW t
  PROVE  /\ Select(s, t) \in Seq(S)
         /\ \A k \in DOMAIN Select(s, t) : \E i \in SelectedIndices(s, t) : Select(s, t)[k] = s[i]
         /\ \A i \in SelectedIndices(s, t) : \E k \in DOMAIN Select(s, t) : Select(s, t)[k] = s[i]
<1> DEFINE K == SelectedIndices(s, t)
           v == Subsequence(s, K)
<1>1. K \in SUBSET (1..Len(s))
  BY SelectedInDomain
<1>2. /\ v \in Seq(S) /\ DOMAIN v = 1..Cardinality(K)
      /\ \A k \in 1..Cardinality(K) : Position(K, k) \in K /\ v[k] = s[Position(K, k)]
      /\ \A i \in K : Rank(K, i) \in 1..Cardinality(K) /\ v[Rank(K, i)] = s[i]
  <2> HIDE DEF K
  <2> QED
    BY <1>1, SubsequenceOf, LenProperties
<1> HIDE DEF K
<1>3. Select(s, t) = v
  BY DEF Select, K
<1> HIDE DEF v
<1> QED
  BY <1>2, <1>3 DEF K

\* What a message with one tool id is tied to is kept with it.
LEMMA SelectedTogether ==
  ASSUME NEW s, NEW t, NEW i \in SelectedIndices(s, t), NEW j \in DOMAIN s,
         NEW x \in ToolIds(s[i]), x \in ToolIds(s[j]), \A y \in ToolIds(s[i]) : y = x
  PROVE  j \in SelectedIndices(s, t)
BY DEF SelectedIndices

\* A message asks for tools or answers one of them.
Plain(m) == (m.uses = {} \/ m.results = {}) /\ \A x, y \in m.results : x = y

\* No tool_result without its tool_use.
NoOrphans(s) == Results(s) \subseteq Uses(s)

\* A tool_use that is alone in its message is answered, or is one of pending.
Answered(s, pending) ==
    \A i \in DOMAIN s : Serial(s[i]) => s[i].uses \subseteq Results(s) \cup pending

LEMMA SelectPlain ==
  ASSUME NEW S, NEW s \in Seq(S), NEW t, \A i \in DOMAIN s : Plain(s[i])
  PROVE  \A k \in DOMAIN Select(s, t) : Plain(Select(s, t)[k])
BY SelectKeeps, SelectedInDomain

LEMMA SelectNoOrphans ==
  ASSUME NEW S, NEW s \in Seq(S), NEW t, \A i \in DOMAIN s : Plain(s[i]), NoOrphans(s)
  PROVE  NoOrphans(Select(s, t))
<1> DEFINE v == Select(s, t)
<1>1. SUFFICES ASSUME NEW k \in DOMAIN v, NEW x \in v[k].results PROVE x \in Uses(v)
  BY DEF NoOrphans, Results
<1>2. PICK i \in SelectedIndices(s, t) : v[k] = s[i]
  BY SelectKeeps
<1>3. i \in DOMAIN s /\ x \in s[i].results
  BY <1>2, SelectedInDomain
<1>4. PICK j \in DOMAIN s : x \in s[j].uses
  BY <1>3 DEF NoOrphans, Results, Uses
<1>5. x \in ToolIds(s[i]) /\ x \in ToolIds(s[j]) /\ \A y \in ToolIds(s[i]) : y = x
  BY <1>3, <1>4 DEF ToolIds, Plain
<1>6. j \in SelectedIndices(s, t)
  BY <1>3, <1>4, <1>5, SelectedTogether
<1>7. PICK l \in DOMAIN v : v[l] = s[j]
  BY <1>6, SelectKeeps
<1> QED
  BY <1>4, <1>7 DEF Uses

LEMMA SelectAnswered ==
  ASSUME NEW S, NEW s \in Seq(S), NEW t, \A i \in DOMAIN s : Plain(s[i]), Answered(s, {})
  PROVE  Answered(Select(s, t), {})
<1> DEFINE v == Select(s, t)
<1>1. SUFFICES ASSUME NEW k \in DOMAIN v, Serial(v[k]), NEW x \in v[k].uses PROVE x \in Results(v)
  BY DEF Answered
<1>2. PICK i \in SelectedIndices(s, t) : v[k] = s[i]
  BY SelectKeeps
<1>3. i \in DOMAIN s /\ Serial(s[i]) /\ x \in s[i].uses
  BY <1>1, <1>2, SelectedInDomain
<1>4. PICK j \in DOMAIN s : x \in s[j].results
  BY <1>3 DEF Answered, Results
<1>5. x \in ToolIds(s[i]) /\ x \in ToolIds(s[j]) /\ \A y \in ToolIds(s[i]) : y = x
  BY <1>3, <1>4 DEF ToolIds, Plain, Serial
<1>6. j \in SelectedIndices(s, t)
  BY <1>3, <1>4, <1>5, SelectedTogether
<1>7. PICK l \in DOMAIN v : v[l] = s[j]
  BY <1>6, SelectKeeps
<1> QED
  BY <1>4, <1>7 DEF Results

LEMMA MinOfNat ==
  ASSUME NEW S \in SUBSET Nat, S # {}
  PROVE  Min(S) \in S
BY LeastNat DEF Min

-----------------------------------------------------------------------------
(* What a resume rebuilds from a journal *)

Appended(j) == {i \in DOMAIN j : j[i].type = "message.appended"}
Replayed(j) == [i \in DOMAIN Subsequence(j, Appended(j)) |-> Subsequence(j, Appended(j))[i].message]

Spent(e) == IF e.type = "turn.completed" THEN e.usage ELSE 0
Usage(j) == SumOf([i \in DOMAIN j |-> Spent(j[i])])

LEMMA Rebuilt ==
  /\ ReplayedMessages = Replayed(journal) /\ ReplayedUsage = Usage(journal)
  /\ ReplayedMessages' = Replayed(journal') /\ ReplayedUsage' = Usage(journal')
BY DEF ReplayedMessages, Replayed, Appended, ReplayedUsage, Usage, Spent

LEMMA EventFields ==
  ASSUME NEW e \in Events
  PROVE  /\ e.turn \in Turns
         /\ e.type = "message.appended" => e.message \in Messages
         /\ Spent(e) \in Nat
BY DEF Events, Spent

LEMMA ReplayedOf ==
  ASSUME NEW j \in Seq(Events)
  PROVE  /\ Replayed(j) \in Seq(Messages)
         /\ \A k \in DOMAIN Replayed(j) : \E i \in Appended(j) : Replayed(j)[k] = j[i].message
         /\ \A i \in Appended(j) : \E k \in DOMAIN Replayed(j) : Replayed(j)[k] = j[i].message
         /\ Len(Replayed(j)) = Len(Subsequence(j, Appended(j)))
<1> DEFINE K == Appended(j)
           v == Subsequence(j, K)
           c == Cardinality(K)
<1>1. K \in SUBSET (1..Len(j)) /\ \A i \in K : j[i] \in Events /\ j[i].type = "message.appended"
  BY ElementOfSeq DEF Appended
<1>2. /\ v \in Seq(Events) /\ Len(v) = c /\ c \in Nat
      /\ \A k \in 1..c : Position(K, k) \in K /\ v[k] = j[Position(K, k)]
      /\ \A i \in K : Rank(K, i) \in 1..c /\ v[Rank(K, i)] = j[i]
  <2> HIDE DEF K
  <2> QED
    BY <1>1, SubsequenceOf
<1>3. Replayed(j) = [k \in 1..c |-> v[k].message]
  <2> HIDE DEF c
  <2>1. DOMAIN v = 1..c
    BY <1>2, LenProperties
  <2> QED
    BY <2>1 DEF Replayed
<1>4. \A k \in 1..c : v[k].message \in Messages
  <2> HIDE DEF K, v, c
  <2> QED
    BY <1>1, <1>2, EventFields
<1>5. Replayed(j) \in Seq(Messages) /\ Len(Replayed(j)) = c /\ DOMAIN Replayed(j) = 1..c
  <2> HIDE DEF K, v, c
  <2>1. Replayed(j) \in [1..c -> Messages]
    BY <1>3, <1>4
  <2> QED
    BY <1>2, <2>1, SeqDef, LenProperties
<1>6. \A k \in DOMAIN Replayed(j) : \E i \in Appended(j) : Replayed(j)[k] = j[i].message
  <2> HIDE DEF v, c
  <2> QED
    BY <1>2, <1>3, <1>5
<1>7. \A i \in Appended(j) : \E k \in DOMAIN Replayed(j) : Replayed(j)[k] = j[i].message
  <2> HIDE DEF v, c
  <2> QED
    BY SMTT(40), <1>2, <1>3, <1>5
<1>8. Len(Replayed(j)) = Len(v)
  <2> HIDE DEF v, c
  <2> QED
    BY <1>2, <1>5
<1> QED
  BY <1>5, <1>6, <1>7, <1>8

LEMMA ReplayedAppend ==
  ASSUME NEW j \in Seq(Events), NEW e \in Events
  PROVE  Replayed(Append(j, e)) = IF e.type = "message.appended" THEN Append(Replayed(j), e.message)
                                  ELSE Replayed(j)
<1> DEFINE n == Len(j)
           t == Append(j, e)
           K == Appended(j)
           v == Subsequence(j, K)
<1>1. /\ n \in Nat /\ DOMAIN j = 1..n /\ t \in Seq(Events) /\ DOMAIN t = 1..(n + 1)
      /\ t[n + 1] = e /\ \A i \in 1..n : t[i] = j[i]
  OBVIOUS
<1>2. K \in SUBSET (1..Len(j))
  BY DEF Appended
<1>3. v \in Seq(Events) /\ Subsequence(t, K) = v /\ Subsequence(t, K \cup {n + 1}) = Append(v, e)
  <2> HIDE DEF K
  <2>1. v \in Seq(Events)
    BY <1>2, SubsequenceOf
  <2>2. Subsequence(t, K) = v
    BY ZenonT(60), <1>2, SubsequenceOfAppend
  <2>3. Subsequence(t, K \cup {n + 1}) = Append(v, e)
    BY <1>2, SubsequenceOfAppend
  <2> QED
    BY <2>1, <2>2, <2>3
<1>4. CASE e.type = "message.appended"
  <2>1. Appended(t) = K \cup {n + 1}
    BY <1>1, <1>4 DEF Appended
  <2>2. Replayed(t) = [k \in DOMAIN Append(v, e) |-> Append(v, e)[k].message]
    BY <1>3, <2>1 DEF Replayed
  <2>3. Replayed(j) \in Seq(Messages) /\ e.message \in Messages /\ Replayed(t) \in Seq(Messages)
    BY <1>1, <1>4, EventFields, ReplayedOf
  <2>4. Replayed(j) = [k \in DOMAIN v |-> v[k].message]
    BY DEF Replayed
  <2> DEFINE a == Replayed(t)
             b == Append(Replayed(j), e.message)
             c == Len(v)
  <2>5. /\ c \in Nat /\ DOMAIN v = 1..c /\ DOMAIN Append(v, e) = 1..(c + 1)
        /\ Append(v, e)[c + 1] = e /\ \A k \in 1..c : Append(v, e)[k] = v[k]
    <3> HIDE DEF v
    <3> QED
      BY <1>3
  <2>6. Len(Replayed(j)) = c /\ Len(b) = c + 1 /\ b \in Seq(Messages) /\ b[c + 1] = e.message
        /\ \A k \in 1..c : b[k] = v[k].message
    <3>1. Len(Replayed(j)) = c
      BY ReplayedOf
    <3> HIDE DEF c, v
    <3> QED
      BY <2>3, <2>4, <2>5, <3>1, AppendProperties
  <2>7. DOMAIN a = 1..(c + 1) /\ Len(a) = c + 1
    <3> HIDE DEF c, v
    <3>1. DOMAIN a = 1..(c + 1)
      BY <2>2, <2>5
    <3> QED
      BY <2>3, <2>5, <3>1, LenProperties
  <2>8. ASSUME NEW k \in 1..(c + 1) PROVE a[k] = b[k]
    <3> HIDE DEF b, c, v
    <3>1. a[k] = Append(v, e)[k].message
      BY <2>2, <2>5
    <3>2. CASE k = c + 1
      BY <2>5, <2>6, <3>1, <3>2
    <3>3. CASE k # c + 1
      <4>1. k \in 1..c
        BY <2>5, <3>3
      <4> QED
        BY <2>5, <2>6, <3>1, <4>1
    <3> QED
      BY <3>2, <3>3
  <2>9. a = b
    <3> HIDE DEF a, b, c, v
    <3> QED
      BY <2>3, <2>6, <2>7, <2>8, SeqEqual DEF a
  <2> QED
    BY <1>4, <2>9
<1>5. CASE e.type # "message.appended"
  <2>1. Appended(t) = K
    BY <1>1, <1>5 DEF Appended
  <2> QED
    BY <1>3, <1>5, <2>1 DEF Replayed
<1> QED
  BY <1>4, <1>5

LEMMA UsageNat ==
  ASSUME NEW j \in Seq(Events)
  PROVE  Usage(j) \in Nat
<1> DEFINE n == Len(j)
           u == [i \in DOMAIN j |-> Spent(j[i])]
<1>1. n \in Nat /\ DOMAIN j = 1..n /\ \A i \in 1..n : j[i] \in Events
  OBVIOUS
<1>2. u \in [1..n -> Nat]
  <2> HIDE DEF n
  <2> QED
    BY <1>1, EventFields
<1>3. u \in Seq(Nat)
  <2> HIDE DEF n, u
  <2> QED
    BY <1>1, <1>2, SeqDef
<1> QED
  BY <1>3, SumOfNat DEF Usage

LEMMA UsageAppend ==
  ASSUME NEW j \in Seq(Events), NEW e \in Events
  PROVE  Usage(Append(j, e)) = Usage(j) + Spent(e)
<1> DEFINE n == Len(j)
           t == Append(j, e)
           u == [i \in DOMAIN j |-> Spent(j[i])]
           w == [i \in DOMAIN t |-> Spent(t[i])]
<1>1. /\ n \in Nat /\ DOMAIN j = 1..n /\ DOMAIN t = 1..(n + 1)
      /\ t[n + 1] = e /\ \A i \in 1..n : t[i] = j[i] /\ j[i] \in Events
  OBVIOUS
<1>2. /\ u \in [1..n -> Nat] /\ w \in [1..(n + 1) -> Nat] /\ Spent(e) \in Nat
      /\ w[n + 1] = Spent(e) /\ \A i \in 1..n : w[i] = u[i]
  <2> HIDE DEF t, n
  <2> QED
    BY <1>1, EventFields
<1> HIDE DEF u, w
<1>3. u \in Seq(Nat) /\ Len(u) = n /\ w \in Seq(Nat) /\ Len(w) = n + 1
  BY SMTT(40), <1>1, <1>2, SeqDef, LenProperties
<1>4. w = Append(u, Spent(e))
  <2>1. /\ Append(u, Spent(e)) \in Seq(Nat) /\ Len(Append(u, Spent(e))) = n + 1
        /\ Append(u, Spent(e))[n + 1] = Spent(e)
        /\ \A i \in 1..n : Append(u, Spent(e))[i] = u[i]
    BY <1>2, <1>3, AppendProperties
  <2>2. \A i \in 1..(n + 1) : w[i] = Append(u, Spent(e))[i]
    <3> TAKE i \in 1..(n + 1)
    <3>1. i \in 1..n \/ i = n + 1
      BY <1>1
    <3> QED
      BY <1>2, <2>1, <3>1
  <2> QED
    BY <1>3, <2>1, <2>2, SeqEqual
<1> QED
  BY <1>2, <1>3, <1>4, SumOfNat, SumOfAppend DEF Usage, u, w

-----------------------------------------------------------------------------
(* Types *)

Bounds ==
    /\ interrupts \in 0..MaxInterrupts
    /\ faults \in 0..MaxFaults
    /\ throws \in 0..MaxThrows
    /\ crashes \in 0..MaxCrashes

\* Inside run() there is a turn; an assistant message asks for finitely many tools.
TypeInv == TypeOK /\ (pc # "idle" => turn \in Turns) /\ IsFiniteSet(current.tools)

\* What an emit does: the event may be written although the write is rejected.
LEMMA EmitStep ==
  ASSUME NEW event, NEW next, NEW handler, Emit(event, next, handler)
  PROVE  /\ crashes' = crashes
         /\ \/ pc' = next /\ journal' = Append(journal, event) /\ faults' = faults
            \/ /\ pc' = handler /\ journal' \in {journal, Append(journal, event)}
               /\ faults' = faults + 1 /\ faults < MaxFaults
BY DEF Emit, Rejected, counters

LEMMA EmitQuietStep ==
  ASSUME NEW next, NEW handler, EmitQuiet(next, handler)
  PROVE  /\ crashes' = crashes /\ journal' = journal
         /\ \/ pc' = next /\ faults' = faults
            \/ pc' = handler /\ faults' = faults + 1 /\ faults < MaxFaults
BY DEF EmitQuiet, Rejected, counters

LEMMA EmitTypes ==
  ASSUME NEW event \in Events, NEW next \in PCs, NEW handler \in PCs,
         Emit(event, next, handler), Bounds, journal \in Seq(Events), RunnerAssumption
  PROVE  /\ pc' \in {next, handler} /\ pc' \in PCs
         /\ journal' \in Seq(Events)
         /\ Bounds'
<1> USE DEF Bounds
<1>1. journal' \in {journal, Append(journal, event)} /\ pc' \in {next, handler}
  BY DEF Emit, Rejected
<1>2. Bounds'
  <2>1. interrupts' = interrupts /\ throws' = throws /\ crashes' = crashes
    BY DEF Emit, Rejected, counters
  <2>2. faults' \in 0..MaxFaults
    BY EmitStep, RunnerAssumption
  <2> QED
    BY <2>1, <2>2
<1>3. Append(journal, event) \in Seq(Events)
  BY AppendProperties
<1> QED
  BY <1>1, <1>2, <1>3

LEMMA EmitQuietTypes ==
  ASSUME NEW next \in PCs, NEW handler \in PCs,
         EmitQuiet(next, handler), Bounds, RunnerAssumption
  PROVE  /\ pc' \in {next, handler} /\ pc' \in PCs
         /\ journal' = journal
         /\ Bounds'
<1> USE DEF Bounds
<1>1. journal' = journal /\ pc' \in {next, handler}
  BY DEF EmitQuiet, Rejected
<1>2. Bounds'
  BY DEF EmitQuiet, Rejected, counters, RunnerAssumption
<1> QED
  BY <1>1, <1>2

LEMMA ThrowTypes ==
  ASSUME Throw, Bounds, RunnerAssumption
  PROVE  pc' = "catch" /\ journal' = journal /\ faults' = faults /\ Bounds'
BY DEF Throw, Bounds, RunnerAssumption

LEMMA MessageTypes ==
  ASSUME NEW tools \in SUBSET Nat, NEW t \in Nat
  PROVE  UserMessage \in Messages /\ Assistant(tools) \in Messages /\ ToolResult(t) \in Messages
BY DEF UserMessage, Assistant, ToolResult, Message, Messages

LEMMA EventTypes ==
  ASSUME turn \in Turns
  PROVE  /\ TurnStarted \in Events
         /\ \A m \in Messages : MessageAppended(m) \in Events
         /\ \A n \in Nat : TurnCompleted(n) \in Events
         /\ TurnAborted(Reason) \in Events
         /\ \A k \in {"task.started", "task.failed", "task.completed"} : TaskEvent(k) \in Events
BY DEF TurnStarted, MessageAppended, TurnCompleted, TurnAborted, TaskEvent, Reason, Events

LEMMA CompactTypes ==
  ASSUME messages \in Seq(Messages)
  PROVE  Compact(messages) \in Seq(Messages)
BY SelectKeeps DEF Compact

LEMMA ReplayTypes ==
  ASSUME journal \in Seq(Events)
  PROVE  ReplayedMessages \in Seq(Messages) /\ ReplayedUsage \in Nat
BY Rebuilt, ReplayedOf, UsageNat

\* Assignments to the local variables of run()
LEMMA LocalTypes ==
  ASSUME local \in Locals
  PROVE  /\ \A p \in Providers \cup {none} : [local EXCEPT !.sticky = p] \in Locals
         /\ \A p \in Providers \cup {none} : [local EXCEPT !.retry = p] \in Locals
         /\ [local EXCEPT !.loops = @ + 1] \in Locals
         /\ \A p \in Providers : [local EXCEPT !.loops = @ + 1, !.decision = p, !.retry = none] \in Locals
         /\ \A b \in BOOLEAN : [local EXCEPT !.truncated = b] \in Locals
         /\ \A r \in {"error", "stream_interrupted"} :
                /\ [local EXCEPT !.abortReason = r] \in Locals
                /\ [local EXCEPT !.failed = TRUE, !.abortReason = r] \in Locals
         /\ [local EXCEPT !.turnUsage = @ + 1] \in Locals
         /\ \A n \in Nat : [local EXCEPT !.toolCalls = @ + n] \in Locals
         /\ local.decision \in Providers \cup {none} /\ local.sticky \in Providers \cup {none}
         /\ local.turnUsage \in Nat /\ local.truncated \in BOOLEAN
<1>1. \A p \in Providers \cup {none} : [local EXCEPT !.sticky = p] \in Locals
  BY DEF Locals
<1>2. \A p \in Providers \cup {none} : [local EXCEPT !.retry = p] \in Locals
  BY DEF Locals
<1>3. [local EXCEPT !.loops = @ + 1] \in Locals
  BY DEF Locals
<1>4. \A p \in Providers : [local EXCEPT !.loops = @ + 1, !.decision = p, !.retry = none] \in Locals
  <2> TAKE p \in Providers
  <2>1. [[local EXCEPT !.loops = @ + 1] EXCEPT !.decision = p] \in Locals
    BY <1>3 DEF Locals
  <2>2. [[[local EXCEPT !.loops = @ + 1] EXCEPT !.decision = p] EXCEPT !.retry = none] \in Locals
    BY <2>1 DEF Locals
  <2> QED
    BY <2>2
<1>5. \A b \in BOOLEAN : [local EXCEPT !.truncated = b] \in Locals
  BY DEF Locals
<1>6. \A r \in {"error", "stream_interrupted"} : [local EXCEPT !.abortReason = r] \in Locals
  BY DEF Locals
<1>7. \A r \in {"error", "stream_interrupted"} :
          [local EXCEPT !.failed = TRUE, !.abortReason = r] \in Locals
  BY DEF Locals
<1>8. [local EXCEPT !.turnUsage = @ + 1] \in Locals
  BY DEF Locals
<1>9. \A n \in Nat : [local EXCEPT !.toolCalls = @ + n] \in Locals
  BY DEF Locals
<1>10. /\ local.decision \in Providers \cup {none} /\ local.sticky \in Providers \cup {none}
       /\ local.turnUsage \in Nat /\ local.truncated \in BOOLEAN
  BY DEF Locals
<1> QED
  BY <1>1, <1>2, <1>3, <1>4, <1>5, <1>6, <1>7, <1>8, <1>9, <1>10

LEMMA FreshTypes == FreshLocal \in Locals
BY DEF FreshLocal, Locals

LEMMA InitTypes ==
  ASSUME RunnerAssumption, Init
  PROVE  TypeInv
<1>1. Bounds
  BY DEF RunnerAssumption, Init, Bounds
<1>2. turn \in 0..MaxTurns /\ activeTurn \in 0..MaxTurns
  BY DEF RunnerAssumption, Init
<1>3. messages \in Seq(Messages) /\ journal \in Seq(Events)
  BY DEF Init
<1>4. local \in Locals
  BY FreshTypes DEF Init
<1>5. TypeOK
  BY <1>1, <1>2, <1>3, <1>4 DEF Bounds, TypeOK, Init, FreshCurrent, PCs
<1> QED
  BY <1>5, FS_EmptySet DEF TypeInv, Init, FreshCurrent

LEMMA StepTypes ==
  ASSUME RunnerAssumption, TypeInv, [Next]_vars
  PROVE  TypeInv'
<1> USE DEF TypeInv, TypeOK, Bounds
<1>0. CASE UNCHANGED vars
  BY <1>0 DEF vars, counters
<1>1. CASE StartTask
  <2>1. pc # "idle" /\ pc' \in PCs /\ journal' \in Seq(Events) /\ Bounds'
    <3>1. pc # "idle" /\ Emit(TaskEvent("task.started"), "tasked", "idle")
      BY <1>1 DEF StartTask
    <3>2. TaskEvent("task.started") \in Events
      BY <3>1, EventTypes
    <3>3. "tasked" \in PCs /\ "idle" \in PCs
      BY DEF PCs
    <3> QED
      BY <3>1, <3>2, <3>3, EmitTypes
  <2>2. UNCHANGED <<turn, status, activeTurn, pendingInterrupt, aborted, messages, usage, local, current, running, lastTurn, nextTool>>
    BY <1>1 DEF StartTask, session
  <2> QED
    BY <2>1, <2>2
<1>2. CASE AppendUser
  <2>0. pc # "idle" /\ MessageAppended(UserMessage) \in Events
    BY <1>2, MessageTypes, EventTypes DEF AppendUser
  <2>1. pc # "idle" /\ pc' \in PCs /\ journal' \in Seq(Events) /\ Bounds'
    <3>1. Emit(MessageAppended(UserMessage), "loop", "idle")
      BY <1>2 DEF AppendUser
    <3>2. "loop" \in PCs /\ "idle" \in PCs
      BY DEF PCs
    <3> QED
      BY <2>0, <3>1, <3>2, EmitTypes
  <2>2. UNCHANGED <<turn, status, activeTurn, pendingInterrupt, aborted, usage, local, current, running, lastTurn, nextTool>>
    BY <1>2 DEF AppendUser, session
  <2>3. messages' \in Seq(Messages)
    BY <1>2, MessageTypes, AppendProperties DEF AppendUser
  <2> QED
    BY <2>1, <2>2, <2>3
<1>3. CASE LoopAborted
  <2>1. pc # "idle" /\ pc' \in PCs /\ journal' \in Seq(Events) /\ Bounds'
    BY <1>3 DEF LoopAborted, PCs, counters, RunnerAssumption
  <2>2. UNCHANGED <<turn, status, activeTurn, pendingInterrupt, aborted, messages, usage, local, current, running, lastTurn, nextTool>>
    BY <1>3 DEF LoopAborted, session
  <2> QED
    BY <2>1, <2>2
<1>4. CASE RaiseBudget
  <2>1. pc # "idle" /\ pc' \in PCs /\ journal' \in Seq(Events) /\ Bounds'
    BY <1>4, EmitQuietTypes DEF RaiseBudget, PCs
  <2>2. UNCHANGED <<turn, status, activeTurn, pendingInterrupt, aborted, messages, usage, local, current, running, lastTurn, nextTool>>
    BY <1>4 DEF RaiseBudget, session
  <2> QED
    BY <2>1, <2>2
<1>5. CASE AbortBudget
  <2>1. pc # "idle" /\ pc' \in PCs /\ journal' \in Seq(Events) /\ Bounds'
    BY <1>5 DEF AbortBudget, PCs, counters, RunnerAssumption
  <2>2. UNCHANGED <<turn, status, activeTurn, pendingInterrupt, messages, usage, current, running, lastTurn, nextTool>>
    BY <1>5 DEF AbortBudget, session
  <2>3. local' \in Locals /\ aborted' \in BOOLEAN
    BY <1>5, LocalTypes DEF AbortBudget
  <2> QED
    BY <2>1, <2>2, <2>3
<1>6. CASE RaiseLoopCap
  <2>1. pc # "idle" /\ pc' \in PCs /\ journal' \in Seq(Events) /\ Bounds'
    BY <1>6, EmitQuietTypes DEF RaiseLoopCap, PCs
  <2>2. UNCHANGED <<turn, status, activeTurn, pendingInterrupt, aborted, messages, usage, local, current, running, lastTurn, nextTool>>
    BY <1>6 DEF RaiseLoopCap, session
  <2> QED
    BY <2>1, <2>2
<1>7. CASE PickRoute
  <2>1. pc # "idle" /\ pc' \in PCs /\ journal' \in Seq(Events) /\ Bounds'
    BY <1>7, ThrowTypes DEF PickRoute, PCs, counters
  <2>2. UNCHANGED <<turn, status, activeTurn, pendingInterrupt, aborted, messages, usage, current, running, lastTurn, nextTool>>
    BY <1>7 DEF PickRoute, session
  <2>3. local' \in Locals
    <3>1. PICK p \in Providers :
             \/ local' = [local EXCEPT !.loops = @ + 1, !.decision = p, !.retry = none]
             \/ local' = [local EXCEPT !.loops = @ + 1]
      BY <1>7 DEF PickRoute
    <3>2. local \in Locals
      OBVIOUS
    <3> QED
      BY ONLY <3>1, <3>2, LocalTypes
  <2> QED
    BY <2>1, <2>2, <2>3
<1>8. CASE BeginCompact
  <2>1. pc # "idle" /\ pc' \in PCs /\ journal' \in Seq(Events) /\ Bounds'
    BY <1>8 DEF BeginCompact, PCs, counters, RunnerAssumption
  <2>2. UNCHANGED <<turn, activeTurn, pendingInterrupt, aborted, messages, usage, local, current, running, lastTurn, nextTool>>
    BY <1>8 DEF BeginCompact, session
  <2>3. status' \in [Turns -> {"none", "streaming", "compacting", "done", "aborted"}]
    BY <1>8 DEF BeginCompact
  <2> QED
    BY <2>1, <2>2, <2>3
<1>9. CASE FinishCompact
  <2>1. pc # "idle" /\ pc' \in PCs /\ journal' \in Seq(Events) /\ Bounds'
    BY <1>9, EmitQuietTypes DEF FinishCompact, PCs
  <2>2. UNCHANGED <<turn, activeTurn, pendingInterrupt, aborted, usage, local, current, running, lastTurn, nextTool>>
    BY <1>9 DEF FinishCompact, session
  <2>3. status' \in [Turns -> {"none", "streaming", "compacting", "done", "aborted"}]
    BY <1>9 DEF FinishCompact
  <2>4. messages' \in Seq(Messages)
    BY <1>9, CompactTypes DEF FinishCompact
  <2> QED
    BY <2>1, <2>2, <2>3, <2>4
<1>10. CASE StartStream
  <2>1. pc # "idle" /\ pc' \in PCs /\ journal' \in Seq(Events) /\ Bounds'
    BY <1>10, EmitQuietTypes DEF StartStream, PCs
  <2>2. UNCHANGED <<turn, status, activeTurn, pendingInterrupt, aborted, messages, usage, local, running, lastTurn, nextTool>>
    BY <1>10 DEF StartStream, session
  <2>3. current' \in [tools : SUBSET Nat, invalid : SUBSET Nat]
    BY <1>10 DEF StartStream, FreshCurrent
  <2>f. IsFiniteSet(current'.tools)
    BY <1>10, FS_EmptySet DEF StartStream, FreshCurrent
  <2> QED
    BY <2>1, <2>2, <2>3, <2>f
<1>11. CASE StreamAborted
  <2>1. pc # "idle" /\ pc' \in PCs /\ journal' \in Seq(Events) /\ Bounds'
    BY <1>11 DEF StreamAborted, PCs, counters, RunnerAssumption
  <2>2. UNCHANGED <<turn, status, activeTurn, pendingInterrupt, aborted, messages, usage, local, current, running, lastTurn, nextTool>>
    BY <1>11 DEF StreamAborted, session
  <2> QED
    BY <2>1, <2>2
<1>12. CASE \E ok \in BOOLEAN : StreamToolUse(ok)
  <2>1. pc # "idle" /\ pc' \in PCs /\ journal' \in Seq(Events) /\ Bounds'
    BY <1>12 DEF StreamToolUse, PCs, counters, RunnerAssumption
  <2>2. UNCHANGED <<turn, status, activeTurn, pendingInterrupt, aborted, messages, usage, running, lastTurn>>
    BY <1>12 DEF StreamToolUse, session
  <2>3. local' \in Locals
    <3>1. local' = [local EXCEPT !.sticky = IF local.sticky = none THEN local.decision ELSE local.sticky]
      BY <1>12 DEF StreamToolUse, Locals
    <3>2. (IF local.sticky = none THEN local.decision ELSE local.sticky) \in Providers \cup {none}
      BY LocalTypes
    <3> QED
      BY <3>1, <3>2, LocalTypes
  <2>4. current' \in [tools : SUBSET Nat, invalid : SUBSET Nat] /\ nextTool' \in Nat
    <3>1. PICK ok \in BOOLEAN : StreamToolUse(ok)
      BY <1>12
    <3>2. current.tools \in SUBSET Nat /\ current.invalid \in SUBSET Nat
      OBVIOUS
    <3>3. current.tools \cup {nextTool} \in SUBSET Nat /\ current.invalid \cup {nextTool} \in SUBSET Nat
      BY <3>2
    <3>4. current' = [tools |-> current.tools \cup {nextTool},
                      invalid |-> IF ok THEN current.invalid ELSE current.invalid \cup {nextTool}]
      BY <3>1 DEF StreamToolUse
    <3>5. nextTool' = nextTool + 1
      BY <3>1 DEF StreamToolUse
    <3>6. nextTool' \in Nat
      BY <3>5
    <3> QED
      BY <3>2, <3>3, <3>4, <3>6
  <2>5. IsFiniteSet(current'.tools)
    <3>1. current'.tools = current.tools \cup {nextTool}
      BY <1>12 DEF StreamToolUse
    <3>2. IsFiniteSet(current.tools \cup {nextTool})
      BY FS_AddElement
    <3> QED
      BY <3>1, <3>2
  <2> QED
    BY <2>1, <2>2, <2>3, <2>4, <2>5
<1>13. CASE \E ok \in BOOLEAN : StreamEnds(ok)
  <2>1. pc # "idle" /\ pc' \in PCs /\ journal' \in Seq(Events) /\ Bounds'
    BY <1>13 DEF StreamEnds, PCs, counters, RunnerAssumption
  <2>2. UNCHANGED <<turn, status, activeTurn, pendingInterrupt, aborted, messages, usage, current, running, lastTurn, nextTool>>
    BY <1>13 DEF StreamEnds, session
  <2>3. local' \in Locals
    <3>1. PICK b \in BOOLEAN : local' = [local EXCEPT !.truncated = b]
      BY <1>13 DEF StreamEnds
    <3> QED
      BY <3>1, LocalTypes
  <2> QED
    BY <2>1, <2>2, <2>3
<1>14. CASE InterruptedPartial
  <2>1. pc # "idle" /\ pc' \in PCs /\ journal' \in Seq(Events) /\ Bounds'
    <3>1. pc # "idle" /\ EmitQuiet("broken", "catch")
      BY <1>14 DEF InterruptedPartial, EmitQuiet
    <3>2. "broken" \in PCs /\ "catch" \in PCs
      BY DEF PCs
    <3> QED
      BY <3>1, <3>2, EmitQuietTypes
  <2>2. UNCHANGED <<turn, status, activeTurn, pendingInterrupt, aborted, messages, usage, running, lastTurn, nextTool>>
    BY <1>14 DEF InterruptedPartial, Rejected, session
  <2>3. local' \in Locals
    BY <1>14, LocalTypes DEF InterruptedPartial, Rejected
  <2>4. current' \in [tools : SUBSET Nat, invalid : SUBSET Nat]
    BY <1>14 DEF InterruptedPartial, Rejected, FreshCurrent
  <2>f. IsFiniteSet(current'.tools)
    BY SMTT(40), <1>14, FS_EmptySet DEF InterruptedPartial, FreshCurrent
  <2> QED
    BY <2>1, <2>2, <2>3, <2>4, <2>f
<1>15. CASE \E p \in Providers \cup {none} : InterruptedPlain(p)
  <2>1. pc # "idle" /\ pc' \in PCs /\ journal' \in Seq(Events) /\ Bounds'
    BY ZenonT(60), <1>15, EmitQuietTypes DEF InterruptedPlain, PCs
  <2>2. UNCHANGED <<turn, status, activeTurn, pendingInterrupt, aborted, messages, usage, current, running, lastTurn, nextTool>>
    BY <1>15 DEF InterruptedPlain, session
  <2>3. local' \in Locals
    <3>1. PICK p \in Providers \cup {none} :
             \/ local' = [local EXCEPT !.failed = TRUE, !.abortReason = "stream_interrupted"]
             \/ local' = [local EXCEPT !.retry = p]
      BY <1>15 DEF InterruptedPlain
    <3>2. local \in Locals
      OBVIOUS
    <3> QED
      BY ONLY <3>1, <3>2, LocalTypes
  <2> QED
    BY <2>1, <2>2, <2>3
<1>16. CASE CalleeThrows
  <2>1. pc # "idle" /\ pc' \in PCs /\ journal' \in Seq(Events) /\ Bounds'
    BY <1>16, ThrowTypes DEF CalleeThrows, PCs, counters
  <2>2. UNCHANGED <<turn, status, activeTurn, pendingInterrupt, aborted, messages, usage, local, current, running, lastTurn, nextTool>>
    BY <1>16 DEF CalleeThrows, session
  <2> QED
    BY <2>1, <2>2
<1>17. CASE AppendAssistant
  <2>1. pc # "idle" /\ pc' \in PCs /\ journal' \in Seq(Events) /\ Bounds'
    BY ZenonT(60), <1>17, EmitQuietTypes DEF AppendAssistant, PCs
  <2>2. UNCHANGED <<turn, status, activeTurn, pendingInterrupt, aborted, current, running, lastTurn, nextTool>>
    BY <1>17 DEF AppendAssistant, session
  <2>3. local' \in Locals /\ usage' \in Nat
    <3>1. local' = [local EXCEPT !.turnUsage = @ + 1] /\ usage' = usage + 1
      BY <1>17 DEF AppendAssistant
    <3>2. local \in Locals /\ usage \in Nat
      OBVIOUS
    <3>3. local' \in Locals
      BY ONLY <3>1, <3>2, LocalTypes
    <3> QED
      BY ONLY <3>1, <3>2, <3>3
  <2>4. messages' \in Seq(Messages)
    BY <1>17, MessageTypes, AppendProperties DEF AppendAssistant
  <2> QED
    BY <2>1, <2>2, <2>3, <2>4
<1>18. CASE AnnounceAssistant
  <2>0. pc # "idle" /\ MessageAppended(Assistant(current.tools)) \in Events
    BY <1>18, MessageTypes, EventTypes DEF AnnounceAssistant
  <2>1. pc # "idle" /\ pc' \in PCs /\ journal' \in Seq(Events) /\ Bounds'
    <3>1. Emit(MessageAppended(Assistant(current.tools)), "assistant", "catch")
      BY <1>18 DEF AnnounceAssistant
    <3>2. "assistant" \in PCs /\ "catch" \in PCs
      BY DEF PCs
    <3> QED
      BY <2>0, <3>1, <3>2, EmitTypes
  <2>2. UNCHANGED <<turn, status, activeTurn, pendingInterrupt, aborted, messages, usage, local, current, running, lastTurn, nextTool>>
    BY SMTT(40), <1>18 DEF AnnounceAssistant, session
  <2> QED
    BY <2>1, <2>2
<1>19. CASE RequestTools
  <2>1. pc # "idle" /\ pc' \in PCs /\ journal' \in Seq(Events) /\ Bounds'
    BY <1>19, EmitQuietTypes DEF RequestTools, PCs
  <2>2. UNCHANGED <<turn, status, activeTurn, pendingInterrupt, aborted, messages, usage, current, running, lastTurn, nextTool>>
    BY <1>19 DEF RequestTools, session
  <2>3. Cardinality(current.tools) \in Nat
    BY FS_CardinalityType
  <2>4. local' \in Locals
    BY <1>19, <2>3, LocalTypes DEF RequestTools
  <2> QED
    BY <2>1, <2>2, <2>4
<1>20. CASE StartTools
  <2>1. pc # "idle" /\ pc' \in PCs /\ journal' \in Seq(Events) /\ Bounds'
    <3>1. pc # "idle" /\ journal' = journal
      BY <1>20 DEF StartTools
    <3>2. (pc' = "executing" /\ UNCHANGED counters) \/ Rejected("catch")
      BY <1>20 DEF StartTools
    <3>3. pc' \in PCs
      BY <3>2 DEF Rejected, PCs
    <3>4. Bounds'
      <4>1. /\ Bounds /\ crashes' = crashes /\ UNCHANGED <<interrupts, throws>>
            /\ faults' = faults \/ (faults' = faults + 1 /\ faults < MaxFaults)
        BY <3>2 DEF Rejected, Bounds, counters, TypeInv, TypeOK
      <4> QED
        BY SMTT(40), <4>1, RunnerAssumption DEF Bounds
    <3>5. journal' \in Seq(Events)
      BY <3>1 DEF TypeInv, TypeOK
    <3> QED
      BY <3>1, <3>3, <3>4, <3>5
  <2>2. UNCHANGED <<turn, status, activeTurn, pendingInterrupt, aborted, messages, usage, local, current, lastTurn, nextTool>>
    BY <1>20 DEF StartTools, Rejected, session
  <2>3. running' \in SUBSET Nat
    BY <1>20 DEF StartTools, Rejected
  <2> QED
    BY <2>1, <2>2, <2>3
<1>21. CASE \E t \in running : ToolSettles(t)
  <2>1. pc' = pc /\ journal' = journal /\ Bounds'
    BY <1>21 DEF ToolSettles, counters
  <2>2. UNCHANGED <<turn, status, activeTurn, pendingInterrupt, aborted, messages, usage, local, current, lastTurn, nextTool>>
    BY <1>21 DEF ToolSettles, session
  <2>3. running' \in SUBSET Nat
    BY <1>21 DEF ToolSettles
  <2> QED
    BY <2>1, <2>2, <2>3
<1>22. CASE AppendResult
  <2>0. /\ Min(current.tools \ Results(messages)) \in Nat
        /\ ToolResult(Min(current.tools \ Results(messages))) \in Messages
    <3>1. Min(current.tools \ Results(messages)) \in Nat
      <4> DEFINE T == current.tools \ Results(messages)
      <4>1. T # {}
        BY <1>22 DEF AppendResult
      <4>2. T \in SUBSET Nat
        OBVIOUS
      <4> HIDE DEF T
      <4>3. Min(T) \in Nat
        BY <4>1, <4>2, MinOfNat
      <4> QED
        BY <4>3 DEF T
    <3> QED
      BY <3>1, MessageTypes
  <2>1. pc # "idle" /\ pc' \in PCs /\ journal' \in Seq(Events) /\ Bounds'
    <3> DEFINE T == current.tools \ Results(messages)
               t == Min(T)
               next == IF T = {t} THEN "loop" ELSE "collect"
    <3>1. pc # "idle" /\ Emit(MessageAppended(ToolResult(t)), next, "catch")
      BY <1>22 DEF AppendResult
    <3>2. "catch" \in PCs /\ next \in PCs
      BY DEF PCs
    <3>3. MessageAppended(ToolResult(t)) \in Events
      BY <2>0, <3>1, EventTypes
    <3> HIDE DEF T, t, next
    <3> QED
      BY <3>1, <3>2, <3>3, EmitTypes
  <2>2. UNCHANGED <<turn, status, activeTurn, pendingInterrupt, aborted, usage, local, current, running, lastTurn, nextTool>>
    BY <1>22 DEF AppendResult, session
  <2>3. messages' \in Seq(Messages)
    BY SMTT(40), <1>22, <2>0, MessageTypes, AppendProperties DEF AppendResult
  <2> QED
    BY <2>1, <2>2, <2>3
<1>23. CASE Catch
  <2>1. pc # "idle" /\ pc' \in PCs /\ journal' \in Seq(Events) /\ Bounds'
    BY <1>23, EmitQuietTypes DEF Catch, PCs
  <2>2. UNCHANGED <<turn, status, activeTurn, pendingInterrupt, aborted, messages, usage, current, running, lastTurn, nextTool>>
    BY <1>23 DEF Catch, session
  <2>3. local' \in Locals
    BY <1>23, LocalTypes DEF Catch
  <2> QED
    BY <2>1, <2>2, <2>3
<1>24. CASE EndTurn
  <2>1. pc # "idle" /\ pc' \in PCs /\ journal' \in Seq(Events) /\ Bounds'
    <3> DEFINE e == IF Aborts THEN TurnAborted(Reason) ELSE TurnCompleted(local.turnUsage)
    <3>1. pc # "idle"
      BY <1>24 DEF EndTurn
    <3>2. e \in Events
      BY <3>1, EventTypes, LocalTypes
    <3>3. Emit(e, IF TaskRun THEN "ended" ELSE "idle", "idle")
      BY <1>24 DEF EndTurn
    <3>4. "idle" \in PCs /\ (IF TaskRun THEN "ended" ELSE "idle") \in PCs
      BY DEF PCs
    <3> HIDE DEF e
    <3> QED
      BY <3>1, <3>2, <3>3, <3>4, EmitTypes
  <2>2. UNCHANGED <<turn, pendingInterrupt, aborted, messages, usage, running, nextTool>>
    BY <1>24 DEF EndTurn, session
  <2>3. local' \in Locals /\ current' \in [tools : SUBSET Nat, invalid : SUBSET Nat]
    BY <1>24, FreshTypes DEF EndTurn, FreshCurrent
  <2>4. status' \in [Turns -> {"none", "streaming", "compacting", "done", "aborted"}]
    BY <1>24 DEF EndTurn
  <2>5. activeTurn' \in 0..MaxTurns /\ lastTurn' \in [provider : Providers \cup {none}, truncated : BOOLEAN]
    <3>1. local.decision \in Providers \cup {none} /\ local.truncated \in BOOLEAN
      BY LocalTypes
    <3>2. 0 \in 0..MaxTurns
      BY DEF RunnerAssumption
    <3> QED
      BY <1>24, <3>1, <3>2 DEF EndTurn
  <2>f. IsFiniteSet(current'.tools)
    BY <1>24, FS_EmptySet DEF EndTurn, FreshCurrent
  <2> QED
    BY <2>1, <2>2, <2>3, <2>4, <2>5, <2>f
<1>25. CASE EndTask
  <2>0. pc # "idle" /\ TaskEvent(IF status[turn] = "aborted" THEN "task.failed" ELSE "task.completed") \in Events
    BY <1>25, EventTypes DEF EndTask
  <2>1. pc # "idle" /\ pc' \in PCs /\ journal' \in Seq(Events) /\ Bounds'
    <3>1. Emit(TaskEvent(IF status[turn] = "aborted" THEN "task.failed" ELSE "task.completed"),
               "idle", "idle")
      BY <1>25 DEF EndTask
    <3>2. "idle" \in PCs
      BY DEF PCs
    <3> QED
      BY <2>0, <3>1, <3>2, EmitTypes
  <2>2. UNCHANGED <<turn, status, activeTurn, pendingInterrupt, aborted, messages, usage, local, current, running, lastTurn, nextTool>>
    BY <1>25 DEF EndTask, session
  <2> QED
    BY <2>1, <2>2
<1>26. CASE Run
  <2>0. turn' \in Turns /\ [TurnStarted EXCEPT !.turn = turn + 1] \in Events
    <3>1. turn' \in Turns /\ turn' = turn + 1
      <4>1. turn < MaxTurns /\ turn' = turn + 1
        BY <1>26 DEF Run
      <4> QED
        BY SMTT(40), <4>1 DEF Turns, RunnerAssumption
    <3>2. [TurnStarted EXCEPT !.turn = turn + 1] = [type |-> "turn.started", turn |-> turn']
      BY <3>1 DEF TurnStarted
    <3> QED
      BY <3>1, <3>2 DEF Events
  <2>1. pc' \in PCs /\ journal' \in Seq(Events) /\ Bounds'
    <3>1. Emit([TurnStarted EXCEPT !.turn = turn + 1], "started", "idle")
      BY <1>26 DEF Run
    <3>2. "idle" \in PCs /\ "started" \in PCs
      BY DEF PCs
    <3> QED
      BY <2>0, <3>1, <3>2, EmitTypes
  <2>2. UNCHANGED <<messages, usage, running, lastTurn, nextTool>>
    BY <1>26 DEF Run, session
  <2>3. local' \in Locals /\ current' \in [tools : SUBSET Nat, invalid : SUBSET Nat]
    BY <1>26, FreshTypes DEF Run, FreshCurrent
  <2>4. status' \in [Turns -> {"none", "streaming", "compacting", "done", "aborted"}]
    BY <1>26 DEF Run
  <2>5. turn' \in Turns /\ turn' \in 0..MaxTurns /\ activeTurn' \in 0..MaxTurns /\ aborted' \in BOOLEAN /\ pendingInterrupt' \in BOOLEAN
    <3>1. turn < MaxTurns /\ turn' = turn + 1 /\ activeTurn' = turn + 1 /\ aborted' = FALSE
          /\ pendingInterrupt' = FALSE
      BY <1>26 DEF Run
    <3>2. turn' \in 0..MaxTurns
      <4>1. MaxTurns \in Nat
        BY DEF RunnerAssumption
      <4>2. turn' \in 1..MaxTurns
        BY <2>0 DEF Turns
      <4> QED
        BY ONLY <4>1, <4>2
    <3>3. activeTurn' = turn'
      BY <3>1
    <3> QED
      BY <2>0, <3>1, <3>2, <3>3
  <2>f. IsFiniteSet(current'.tools)
    BY <1>26, FS_EmptySet DEF Run, FreshCurrent
  <2> QED
    BY <2>1, <2>2, <2>3, <2>4, <2>5, <2>f
<1>27. CASE Interrupt
  <2>1. pc' = pc /\ journal' = journal /\ Bounds'
    BY <1>27 DEF Interrupt, RunnerAssumption
  <2>2. UNCHANGED <<turn, status, activeTurn, messages, usage, local, current, running, lastTurn, nextTool>>
    BY <1>27 DEF Interrupt, session
  <2>3. pendingInterrupt' \in BOOLEAN /\ aborted' \in BOOLEAN
    BY <1>27 DEF Interrupt
  <2> QED
    BY <2>1, <2>2, <2>3
<1>28. CASE CrashAndResume
  <2>1. pc' \in PCs /\ journal' \in Seq(Events) /\ Bounds'
    BY <1>28 DEF CrashAndResume, PCs, RunnerAssumption
  <2>2. UNCHANGED <<turn, nextTool>> /\ local' \in Locals
    BY <1>28, FreshTypes DEF CrashAndResume
  <2>3. messages' \in Seq(Messages) /\ usage' \in Nat
    BY <1>28, ReplayTypes DEF CrashAndResume
  <2>4. status' \in [Turns -> {"none", "streaming", "compacting", "done", "aborted"}]
    BY <1>28 DEF CrashAndResume, ReplayedStatus
  <2>5. /\ activeTurn' \in 0..MaxTurns /\ pendingInterrupt' \in BOOLEAN /\ aborted' \in BOOLEAN
        /\ current' \in [tools : SUBSET Nat, invalid : SUBSET Nat] /\ running' \in SUBSET Nat
        /\ lastTurn' \in [provider : Providers \cup {none}, truncated : BOOLEAN]
        /\ pc' = "idle" /\ IsFiniteSet(current'.tools)
    <3>1. 0 \in 0..MaxTurns
      BY DEF RunnerAssumption
    <3> QED
      BY <1>28, <3>1, FS_EmptySet DEF CrashAndResume, FreshCurrent
  <2> QED
    BY <2>1, <2>2, <2>3, <2>4, <2>5
<1>29. CASE SessionOver
  BY <1>0, <1>29 DEF SessionOver
<1> QED
  BY <1>0, <1>1, <1>2, <1>3, <1>4, <1>5, <1>6, <1>7, <1>8, <1>9, <1>10, <1>11, <1>12, <1>13, <1>14, <1>15, <1>16, <1>17, <1>18, <1>19, <1>20, <1>21, <1>22, <1>23, <1>24, <1>25, <1>26, <1>27, <1>28, <1>29 DEF Next, Step, LoopHead, Stream, Tools

\* Runner keeps the types of its state, for any bounds, providers and context policy.
THEOREM TypeCorrect == Spec => []TypeOK
<1>1. Init => TypeInv
  BY InitTypes, RunnerAssumption
<1>2. TypeInv /\ [Next]_vars => TypeInv'
  BY StepTypes, RunnerAssumption
<1>3. TypeInv => TypeOK
  BY DEF TypeInv
<1> QED
  BY <1>1, <1>2, <1>3, PTL DEF Spec

-----------------------------------------------------------------------------
(* The journal of a turn *)

\* run() has no turn open at these awaits.
Outside == {"idle", "ended"}

OpenTypes == {"turn.started", "task.started", "message.appended"}

Outcome == IF status[turn] = "aborted" THEN "turn.aborted" ELSE "turn.completed"

\* The journal knows no later turn, and the current one has its outcome there after EndTurn only.
JournalInv ==
    /\ \A i \in DOMAIN journal : journal[i].turn <= turn
    /\ pc \notin Outside =>
           \A i \in DOMAIN journal : journal[i].turn = turn => journal[i].type \in OpenTypes
    /\ pc = "ended" =>
           \A i \in DOMAIN journal :
               journal[i].turn = turn => journal[i].type \in OpenTypes \cup {Outcome}
    /\ TurnJournal

\* The steps that write nothing of the turn to the journal.
Quiet ==
    \/ LoopAborted \/ RaiseBudget \/ AbortBudget \/ RaiseLoopCap \/ PickRoute
    \/ BeginCompact \/ FinishCompact \/ StartStream
    \/ Stream
    \/ AppendAssistant \/ RequestTools \/ StartTools \/ (\E t \in running : ToolSettles(t))
    \/ Catch \/ Interrupt \/ CrashAndResume \/ SessionOver \/ UNCHANGED vars

Journaling ==
    \/ StartTask \/ AppendUser \/ AnnounceAssistant \/ AppendResult
    \/ EndTurn \/ EndTask \/ Run

LEMMA QuietOrJournaling ==
  ASSUME [Next]_vars
  PROVE  Quiet \/ Journaling
BY DEF Quiet, Journaling, Next, Step, LoopHead, Stream, Tools

LEMMA QuietSteps ==
  ASSUME Quiet
  PROVE  /\ journal' = journal /\ turn' = turn
         /\ \/ pc' = "idle"
            \/ pc \notin Outside /\ pc' \notin Outside
            \/ pc' = pc /\ status' = status
<1> USE DEF Outside
<1>1. CASE LoopAborted
  BY <1>1 DEF LoopAborted, session
<1>2. CASE RaiseBudget
  BY <1>2, EmitQuietStep DEF RaiseBudget, session
<1>3. CASE AbortBudget
  BY <1>3 DEF AbortBudget, session
<1>4. CASE RaiseLoopCap
  BY <1>4, EmitQuietStep DEF RaiseLoopCap, session
<1>5. CASE PickRoute
  BY <1>5 DEF PickRoute, session, Throw
<1>6. CASE BeginCompact
  BY <1>6 DEF BeginCompact, session
<1>7. CASE FinishCompact
  BY <1>7, EmitQuietStep DEF FinishCompact, session
<1>8. CASE StartStream
  BY <1>8, EmitQuietStep DEF StartStream, session
<1>9. CASE StreamAborted
  BY <1>9 DEF StreamAborted, session
<1>10. CASE \E ok \in BOOLEAN : StreamToolUse(ok)
  BY <1>10 DEF StreamToolUse, session
<1>11. CASE \E ok \in BOOLEAN : StreamEnds(ok)
  BY <1>11 DEF StreamEnds, session
<1>12. CASE InterruptedPartial
  BY <1>12, EmitQuietStep DEF InterruptedPartial, session, Rejected
<1>13. CASE \E p \in Providers \cup {none} : InterruptedPlain(p)
  BY <1>13, EmitQuietStep DEF InterruptedPlain, session
<1>14. CASE CalleeThrows
  BY <1>14 DEF CalleeThrows, session, Throw
<1>15. CASE AppendAssistant
  BY <1>15, EmitQuietStep DEF AppendAssistant, session
<1>16. CASE RequestTools
  BY <1>16, EmitQuietStep DEF RequestTools, session
<1>17. CASE StartTools
  BY <1>17 DEF StartTools, session, Rejected
<1>18. CASE \E t \in running : ToolSettles(t)
  BY <1>18 DEF ToolSettles, session
<1>19. CASE Catch
  BY <1>19, EmitQuietStep DEF Catch, session
<1>20. CASE Interrupt
  BY <1>20 DEF Interrupt, session
<1>21. CASE CrashAndResume
  BY <1>21 DEF CrashAndResume, session
<1>22. CASE SessionOver
  BY <1>22 DEF SessionOver, session, vars
<1>23. CASE UNCHANGED vars
  BY <1>23 DEF vars
<1> QED
  BY <1>1, <1>2, <1>3, <1>4, <1>5, <1>6, <1>7, <1>8, <1>9, <1>10, <1>11, <1>12, <1>13, <1>14, <1>15, <1>16, <1>17, <1>18, <1>19, <1>20, <1>21, <1>22, <1>23 DEF Quiet, Stream

LEMMA JournalAppend ==
  ASSUME journal \in Seq(Events), TurnJournal, NEW e, journal' = Append(journal, e),
         \A i \in DOMAIN journal : journal[i].turn = e.turn =>
             /\ e.type # "turn.started"
             /\ journal[i].type \in Terminal =>
                    e.type = (IF journal[i].type = "turn.aborted" THEN "task.failed"
                              ELSE "task.completed")
  PROVE  TurnJournal'
<1> DEFINE n == Len(journal)
<1>1. /\ n \in Nat /\ DOMAIN journal = 1..n /\ DOMAIN journal' = 1..(n + 1)
      /\ journal'[n + 1] = e /\ \A i \in 1..n : journal'[i] = journal[i]
  OBVIOUS
<1> HIDE DEF n
<1>2. SUFFICES ASSUME NEW i \in DOMAIN journal', NEW j \in DOMAIN journal', i < j,
                      journal'[i].turn = journal'[j].turn
               PROVE  /\ journal'[j].type # "turn.started"
                      /\ journal'[i].type \in Terminal =>
                             journal'[j].type = (IF journal'[i].type = "turn.aborted" THEN "task.failed"
                                                 ELSE "task.completed")
  BY DEF TurnJournal, Terminal
<1>3. i \in 1..n
  BY <1>1, <1>2
<1>4. CASE j = n + 1
  BY <1>1, <1>2, <1>3, <1>4
<1>5. CASE j # n + 1
  <2>1. j \in 1..n
    BY <1>1, <1>5
  <2> QED
    BY <1>1, <1>2, <1>3, <2>1 DEF TurnJournal
<1> QED
  BY <1>4, <1>5

\* One more event, written or not.
LEMMA Grown ==
  ASSUME journal \in Seq(Events), NEW e, journal' \in {journal, Append(journal, e)}
  PROVE  \A i \in DOMAIN journal' :
             (i \in DOMAIN journal /\ journal'[i] = journal[i]) \/ journal'[i] = e
<1>1. CASE journal' = journal
  BY <1>1
<1>2. CASE journal' = Append(journal, e)
  BY <1>2
<1> QED
  BY <1>1, <1>2

LEMMA JournalGrows ==
  ASSUME TypeInv, JournalInv, NEW e, journal' \in {journal, Append(journal, e)},
         e.turn = turn', turn' \in {turn, turn + 1},
         \A i \in DOMAIN journal : journal[i].turn = e.turn =>
             /\ e.type # "turn.started"
             /\ journal[i].type \in Terminal =>
                    e.type = (IF journal[i].type = "turn.aborted" THEN "task.failed"
                              ELSE "task.completed")
  PROVE  TurnJournal' /\ \A i \in DOMAIN journal' : journal'[i].turn <= turn'
<1>1. journal \in Seq(Events) /\ turn \in Nat
  BY DEF TypeInv, TypeOK
<1>2. TurnJournal'
  <2>1. CASE journal' = journal
    BY <2>1 DEF JournalInv, TurnJournal
  <2>2. CASE journal' = Append(journal, e)
    BY <1>1, <2>2, JournalAppend DEF JournalInv
  <2> QED
    BY <2>1, <2>2
<1>3. ASSUME NEW i \in DOMAIN journal' PROVE journal'[i].turn <= turn'
  <2>1. (i \in DOMAIN journal /\ journal'[i] = journal[i]) \/ journal'[i] = e
    BY <1>1, Grown
  <2>2. CASE journal'[i] = e
    BY <1>1, <2>2
  <2>3. CASE i \in DOMAIN journal /\ journal'[i] = journal[i]
    <3>1. journal[i].turn <= turn /\ journal[i].turn \in Nat
      BY <1>1, <2>3, EventFields, ElementOfSeq DEF JournalInv, Turns
    <3> QED
      BY <1>1, <2>3, <3>1
  <2> QED
    BY <2>1, <2>2, <2>3
<1> QED
  BY <1>2, <1>3

\* The events of a turn that is open.
LEMMA OpenAppend ==
  ASSUME TypeInv, JournalInv, NEW e, journal' \in {journal, Append(journal, e)},
         pc \notin Outside, turn' = turn, pc' # "ended",
         e.turn = turn, e.type \in OpenTypes, e.type # "turn.started"
  PROVE  JournalInv'
<1>1. journal \in Seq(Events) /\ turn \in Nat
  BY DEF TypeInv, TypeOK
<1>2. TurnJournal' /\ \A i \in DOMAIN journal' : journal'[i].turn <= turn'
  <2>1. \A i \in DOMAIN journal : journal[i].turn = e.turn => journal[i].type \notin Terminal
    BY DEF JournalInv, OpenTypes, Terminal
  <2> QED
    BY <1>1, <2>1, JournalGrows
<1>3. \A i \in DOMAIN journal' : journal'[i].turn = turn' => journal'[i].type \in OpenTypes
  BY <1>1, Grown DEF JournalInv
<1> QED
  BY <1>2, <1>3 DEF JournalInv, Outside

LEMMA JournalRun ==
  ASSUME RunnerAssumption, TypeInv, JournalInv, Run
  PROVE  JournalInv'
<1> DEFINE e == [TurnStarted EXCEPT !.turn = turn + 1]
<1>1. /\ turn \in Nat /\ turn' = turn + 1 /\ journal \in Seq(Events)
      /\ Emit(e, "started", "idle")
  BY DEF Run, TypeInv, TypeOK
<1>2. e.turn = turn + 1 /\ e.type = "turn.started"
  BY DEF TurnStarted
<1> HIDE DEF e
<1>3. journal' \in {journal, Append(journal, e)} /\ pc' \in {"started", "idle"}
  BY <1>1, EmitStep
<1>4. \A i \in DOMAIN journal : journal[i].turn # e.turn
  <2> TAKE i \in DOMAIN journal
  <2>1. journal[i].turn <= turn /\ journal[i].turn \in Nat
    BY SMTT(40), <1>1, EventFields, ElementOfSeq DEF JournalInv, Turns
  <2> QED
    BY <1>1, <1>2, <2>1
<1>5. TurnJournal' /\ \A i \in DOMAIN journal' : journal'[i].turn <= turn'
  BY <1>1, <1>2, <1>3, <1>4, JournalGrows
<1>6. \A i \in DOMAIN journal' : journal'[i].turn = turn' => journal'[i].type \in OpenTypes
  <2> TAKE i \in DOMAIN journal'
  <2>1. (i \in DOMAIN journal /\ journal'[i] = journal[i]) \/ journal'[i] = e
    BY <1>1, <1>3, Grown
  <2> QED
    BY <1>1, <1>2, <1>4, <2>1 DEF OpenTypes
<1> QED
  BY <1>3, <1>5, <1>6 DEF JournalInv, Outside

LEMMA JournalEndTurn ==
  ASSUME TypeInv, JournalInv, EndTurn
  PROVE  JournalInv'
<1> DEFINE e == IF Aborts THEN TurnAborted(Reason) ELSE TurnCompleted(local.turnUsage)
           next == IF TaskRun THEN "ended" ELSE "idle"
<1>1. /\ turn \in Turns /\ turn' = turn /\ journal \in Seq(Events) /\ pc \notin Outside
      /\ Emit(e, next, "idle") /\ next \in Outside
      /\ status' = [status EXCEPT ![turn] = IF Aborts THEN "aborted" ELSE "done"]
      /\ status \in [Turns -> {"none", "streaming", "compacting", "done", "aborted"}]
  BY DEF EndTurn, TypeInv, TypeOK, Outside
<1>2. e.turn = turn /\ e.type \in Terminal /\ e.type = Outcome'
  BY <1>1 DEF TurnAborted, TurnCompleted, Terminal, Outcome
<1> HIDE DEF e, next
<1>3. journal' \in {journal, Append(journal, e)} /\ pc' \in Outside
  BY <1>1, EmitStep DEF Outside
<1>4. \A i \in DOMAIN journal : journal[i].turn = e.turn => journal[i].type \notin Terminal
  BY <1>1, <1>2 DEF JournalInv, OpenTypes, Terminal
<1>5. TurnJournal' /\ \A i \in DOMAIN journal' : journal'[i].turn <= turn'
  <2>1. e.type # "turn.started"
    BY <1>2 DEF Terminal
  <2> QED
    BY <1>1, <1>2, <1>3, <1>4, <2>1, JournalGrows
<1>6. \A i \in DOMAIN journal' :
          journal'[i].turn = turn' => journal'[i].type \in OpenTypes \cup {Outcome'}
  BY <1>1, <1>2, <1>3, Grown DEF JournalInv
<1> QED
  BY <1>3, <1>5, <1>6 DEF JournalInv, Outside

LEMMA JournalEndTask ==
  ASSUME TypeInv, JournalInv, EndTask
  PROVE  JournalInv'
<1> DEFINE e == TaskEvent(IF status[turn] = "aborted" THEN "task.failed" ELSE "task.completed")
<1>1. /\ turn \in Nat /\ turn' = turn /\ journal \in Seq(Events) /\ pc = "ended"
      /\ Emit(e, "idle", "idle")
  BY DEF EndTask, TypeInv, TypeOK
<1>2. e.turn = turn /\ e.type = (IF Outcome = "turn.aborted" THEN "task.failed" ELSE "task.completed")
  BY DEF TaskEvent, Outcome
<1> HIDE DEF e
<1>3. journal' \in {journal, Append(journal, e)} /\ pc' = "idle"
  BY <1>1, EmitStep
<1>4. \A i \in DOMAIN journal :
          journal[i].turn = e.turn /\ journal[i].type \in Terminal => journal[i].type = Outcome
  BY <1>1, <1>2 DEF JournalInv, OpenTypes, Terminal
<1>5. e.type # "turn.started"
  BY <1>2
<1>6. TurnJournal' /\ \A i \in DOMAIN journal' : journal'[i].turn <= turn'
  BY <1>1, <1>2, <1>3, <1>4, <1>5, JournalGrows
<1> QED
  BY <1>3, <1>6 DEF JournalInv, Outside

LEMMA JournalStep ==
  ASSUME RunnerAssumption, TypeInv, JournalInv, [Next]_vars
  PROVE  JournalInv'
<1>1. CASE Quiet
  BY <1>1, QuietSteps DEF JournalInv, TurnJournal, Outcome, Outside
<1>2. CASE StartTask
  <2>1. /\ pc \notin Outside /\ turn' = turn
        /\ Emit(TaskEvent("task.started"), "tasked", "idle")
    BY <1>2 DEF StartTask, Outside
  <2>2. TaskEvent("task.started").turn = turn /\ TaskEvent("task.started").type = "task.started"
    BY DEF TaskEvent
  <2>3. pc' # "ended" /\ journal' \in {journal, Append(journal, TaskEvent("task.started"))}
    BY <2>1, EmitStep
  <2> QED
    BY <2>1, <2>2, <2>3, OpenAppend DEF OpenTypes
<1>3. ASSUME NEW m, NEW next, next # "ended", pc \notin Outside, turn' = turn,
             Emit(MessageAppended(m), next, "catch") \/ Emit(MessageAppended(m), next, "idle")
      PROVE  JournalInv'
  <2>1. MessageAppended(m).turn = turn /\ MessageAppended(m).type = "message.appended"
    BY DEF MessageAppended
  <2>2. pc' # "ended" /\ journal' \in {journal, Append(journal, MessageAppended(m))}
    BY <1>3, EmitStep
  <2> QED
    BY <1>3, <2>1, <2>2, OpenAppend DEF OpenTypes
<1>4. CASE AppendUser
  BY <1>3, <1>4 DEF AppendUser, Outside
<1>5. CASE AnnounceAssistant
  BY <1>3, <1>5 DEF AnnounceAssistant, Outside
<1>6. CASE AppendResult
  BY <1>3, <1>6 DEF AppendResult, Outside
<1> QED
  BY <1>1, <1>2, <1>4, <1>5, <1>6, JournalRun, JournalEndTurn, JournalEndTask, QuietOrJournaling
     DEF Journaling

\* For any bounds and any interleaving of interrupts, failures and crashes, turn.started comes
\* first in the journal of a turn or not at all, there is at most one outcome, and only the
\* task's outcome that belongs to it follows: what replay and the task daemon rely on.
THEOREM TurnsJournaled == Spec => []TurnJournal
<1>1. Init => JournalInv
  BY DEF Init, JournalInv, TurnJournal, Outside
<1>2. TypeInv /\ JournalInv /\ [Next]_vars => JournalInv'
  BY JournalStep, RunnerAssumption
<1>3. Init => TypeInv
  BY InitTypes, RunnerAssumption
<1>4. TypeInv /\ [Next]_vars => TypeInv'
  BY StepTypes, RunnerAssumption
<1>5. JournalInv => TurnJournal
  BY DEF JournalInv
<1> QED
  BY <1>1, <1>2, <1>3, <1>4, <1>5, PTL DEF Spec

-----------------------------------------------------------------------------
(* What run() leaves behind *)

Open == {"streaming", "compacting"}

\* While journal writes succeed: exactly the turn of run() is active, no other is open, and
\* tools run at the await on Promise.all only.
Settled ==
    faults = 0 =>
        /\ pc \in Outside => activeTurn = 0
        /\ pc \notin Outside => activeTurn = turn
        /\ \A t \in Turns : t # turn \/ pc \in Outside => status[t] \notin Open
        /\ running # {} => pc = "executing"

Keeping ==
    \/ StartTask \/ AppendUser \/ LoopAborted \/ RaiseBudget \/ AbortBudget \/ RaiseLoopCap
    \/ PickRoute \/ StartStream \/ Stream \/ AppendAssistant \/ AnnounceAssistant
    \/ RequestTools \/ Catch

\* The steps inside a turn that touch neither its record nor its tools.
LEMMA KeepingSteps ==
  ASSUME Keeping
  PROVE  /\ UNCHANGED <<turn, status, activeTurn, running, crashes>>
         /\ pc \notin Outside /\ pc # "executing"
         /\ (faults' = faults /\ pc' \notin Outside) \/ faults' = faults + 1
<1> USE DEF Outside
<1>1. CASE StartTask
  BY <1>1, EmitStep DEF StartTask, session, counters
<1>2. CASE AppendUser
  BY <1>2, EmitStep DEF AppendUser, session, counters
<1>3. CASE LoopAborted
  BY <1>3 DEF LoopAborted, session, counters
<1>4. CASE RaiseBudget
  BY <1>4, EmitQuietStep DEF RaiseBudget, session, counters
<1>5. CASE AbortBudget
  BY <1>5 DEF AbortBudget, session, counters
<1>6. CASE RaiseLoopCap
  BY <1>6, EmitQuietStep DEF RaiseLoopCap, session, counters
<1>7. CASE PickRoute
  BY <1>7 DEF PickRoute, session, counters, Throw
<1>8. CASE StartStream
  BY <1>8, EmitQuietStep DEF StartStream, session, counters
<1>9. CASE StreamAborted
  BY <1>9 DEF StreamAborted, session, counters
<1>10. CASE \E ok \in BOOLEAN : StreamToolUse(ok)
  BY <1>10 DEF StreamToolUse, session, counters
<1>11. CASE \E ok \in BOOLEAN : StreamEnds(ok)
  BY <1>11 DEF StreamEnds, session, counters
<1>12. CASE InterruptedPartial
  BY <1>12, EmitQuietStep DEF InterruptedPartial, session, counters, Rejected
<1>13. CASE \E p \in Providers \cup {none} : InterruptedPlain(p)
  BY <1>13, EmitQuietStep DEF InterruptedPlain, session, counters
<1>14. CASE CalleeThrows
  BY <1>14 DEF CalleeThrows, session, counters, Throw
<1>15. CASE AppendAssistant
  BY <1>15, EmitQuietStep DEF AppendAssistant, session, counters
<1>16. CASE AnnounceAssistant
  BY <1>16, EmitStep DEF AnnounceAssistant, session, counters
<1>17. CASE RequestTools
  BY <1>17, EmitQuietStep DEF RequestTools, session, counters
<1>18. CASE Catch
  BY <1>18, EmitQuietStep DEF Catch, session, counters
<1> QED
  BY <1>1, <1>2, <1>3, <1>4, <1>5, <1>6, <1>7, <1>8, <1>9, <1>10, <1>11, <1>12, <1>13, <1>14, <1>15, <1>16, <1>17, <1>18 DEF Keeping, Stream

LEMMA FaultsCount ==
  ASSUME [Next]_vars
  PROVE  faults' \in {faults, faults + 1}
<1>1. CASE Keeping
  BY <1>1, KeepingSteps
<1>2. ASSUME NEW e, NEW next, NEW handler, Emit(e, next, handler) PROVE faults' \in {faults, faults + 1}
  BY <1>2, EmitStep
<1>3. CASE AppendResult \/ EndTurn \/ EndTask \/ Run
  BY <1>2, <1>3 DEF AppendResult, EndTurn, EndTask, Run
<1>4. CASE BeginCompact \/ FinishCompact \/ StartTools \/ \E t \in running : ToolSettles(t)
  BY <1>4, EmitQuietStep DEF BeginCompact, FinishCompact, StartTools, ToolSettles, counters, Rejected
<1>5. CASE Interrupt \/ CrashAndResume \/ SessionOver \/ UNCHANGED vars
  BY <1>5 DEF Interrupt, CrashAndResume, SessionOver, vars, counters
<1> QED
  BY <1>1, <1>3, <1>4, <1>5 DEF Keeping, Next, Step, LoopHead, Tools

LEMMA SettledStep ==
  ASSUME TypeInv, Settled, [Next]_vars
  PROVE  Settled'
<1>0. SUFFICES ASSUME faults' = 0 PROVE Settled'
  BY DEF Settled
<1>1. faults = 0 /\ faults' = faults
  BY <1>0, FaultsCount DEF TypeInv, TypeOK
<1>2. turn \in 0..MaxTurns /\ MaxTurns \in Nat
  BY RunnerAssumption DEF TypeInv, TypeOK, RunnerAssumption
<1>3. status \in [Turns -> {"none", "streaming", "compacting", "done", "aborted"}]
  BY DEF TypeInv, TypeOK
<1> USE DEF Settled, Outside, Open
<1>4. CASE Keeping
  BY <1>1, <1>4, KeepingSteps
<1>5. CASE AppendResult
  <2>1. PICK e, next : Emit(e, next, "catch") /\ next \in {"loop", "collect"}
    BY <1>5 DEF AppendResult
  <2>2. pc' \in {"loop", "collect"}
    BY <1>1, <2>1, EmitStep
  <2> QED
    BY <1>1, <1>5, <2>2 DEF AppendResult
<1>6. CASE EndTurn
  <2>1. PICK e, next : Emit(e, next, "idle") /\ next \in Outside
    BY <1>6 DEF EndTurn
  <2>2. pc' \in Outside
    BY <1>1, <2>1, EmitStep
  <2>3. \A t \in Turns : status'[t] \notin Open
    BY <1>1, <1>3, <1>6 DEF EndTurn
  <2> QED
    BY <1>1, <1>6, <2>2, <2>3 DEF EndTurn
<1>7. CASE EndTask
  <2>1. PICK e : Emit(e, "idle", "idle")
    BY <1>7 DEF EndTask
  <2>2. pc' = "idle"
    BY <2>1, EmitStep
  <2> QED
    BY <1>1, <1>7, <2>2 DEF EndTask, session
<1>8. CASE Run
  <2>1. PICK e : Emit(e, "started", "idle")
    BY <1>8 DEF Run
  <2>2. pc' = "started"
    BY <1>1, <2>1, EmitStep
  <2>3. \A t \in Turns : t # turn' => status'[t] = status[t]
    BY <1>3, <1>8 DEF Run
  <2> QED
    BY <1>1, <1>8, <2>2, <2>3 DEF Run
<1>9. CASE BeginCompact
  BY <1>1, <1>3, <1>9 DEF BeginCompact
<1>10. CASE FinishCompact
  <2>1. pc' = "compacted"
    BY <1>1, <1>10, EmitQuietStep DEF FinishCompact
  <2> QED
    BY <1>1, <1>3, <1>10, <2>1 DEF FinishCompact
<1>11. CASE StartTools
  BY <1>1, <1>11 DEF StartTools, session, Rejected
<1>12. CASE \E t \in running : ToolSettles(t)
  BY <1>1, <1>12 DEF ToolSettles, session
<1>13. CASE Interrupt \/ SessionOver \/ UNCHANGED vars
  BY <1>1, <1>13 DEF Interrupt, SessionOver, vars
<1>14. CASE CrashAndResume
  <2>1. \A t \in Turns : status'[t] \notin Open
    BY <1>14 DEF CrashAndResume, ReplayedStatus
  <2> QED
    BY <1>1, <1>14, <2>1 DEF CrashAndResume
<1> QED
  BY <1>4, <1>5, <1>6, <1>7, <1>8, <1>9, <1>10, <1>11, <1>12, <1>13, <1>14
     DEF Keeping, Next, Step, LoopHead, Tools

LEMMA InvSettled == Spec => [](TypeInv /\ Settled)
<1>1. Init => TypeInv
  BY InitTypes, RunnerAssumption
<1>2. TypeInv /\ [Next]_vars => TypeInv'
  BY StepTypes, RunnerAssumption
<1>3. Init => Settled
  BY DEF Init, Settled, Outside, Open
<1>4. TypeInv /\ Settled /\ [Next]_vars => Settled'
  BY SettledStep
<1> QED
  BY <1>1, <1>2, <1>3, <1>4, PTL DEF Spec

\* When run() has returned, no turn is active and none is left open, through interrupts,
\* exceptions, crashes and replays, as long as journal writes succeed.
THEOREM IdleSettled == Spec => []IdleIsSettled
<1>1. TypeInv /\ Settled => IdleIsSettled
  BY DEF Settled, IdleIsSettled, Outside, Open
<1> QED
  BY <1>1, InvSettled, PTL

\* No tool runs outside the turn that started it as long as journal writes succeed.
THEOREM ToolsInsideTurns == Spec => []NoToolOutlivesTurn
<1>1. TypeInv /\ Settled => NoToolOutlivesTurn
  BY DEF Settled, NoToolOutlivesTurn, Outside, TypeInv, Turns
<1> QED
  BY <1>1, InvSettled, PTL

-----------------------------------------------------------------------------
(* Tool calls and their results *)

\* An assistant message is in the conversation and not all of its results are.
Tooling == {"completed", "assistant", "requested", "executing", "collect"}

Pending == IF pc \in Tooling THEN current.tools ELSE {}

\* Live conversation and journal alike hold no result without its call; while nothing failed,
\* the calls that are not answered are those of the current message.
PairInv ==
    /\ \A i \in DOMAIN messages : Plain(messages[i])
    /\ \A i \in DOMAIN ReplayedMessages : Plain(ReplayedMessages[i])
    /\ NoOrphans(messages)
    /\ NoOrphans(ReplayedMessages)
    /\ pc \in Tooling => current.tools \subseteq Uses(messages)
    /\ pc \in Tooling \ {"completed"} => current.tools \subseteq Uses(ReplayedMessages)
    /\ faults = 0 /\ crashes = 0 =>
           /\ Results(messages) \subseteq Results(ReplayedMessages)
           /\ Uses(ReplayedMessages) \subseteq Results(ReplayedMessages) \cup Pending
           /\ Answered(messages, Pending)

LEMMA UsesAdded ==
  ASSUME NEW S, NEW s \in Seq(S), NEW m \in S
  PROVE  /\ Uses(Append(s, m)) = Uses(s) \cup m.uses
         /\ Results(Append(s, m)) = Results(s) \cup m.results
<1> DEFINE n == Len(s)
           t == Append(s, m)
<1>1. /\ DOMAIN t = DOMAIN s \cup {n + 1}
      /\ t[n + 1] = m /\ \A i \in DOMAIN s : t[i] = s[i]
  OBVIOUS
<1> HIDE DEF n, t
<1> QED
  BY <1>1 DEF Uses, Results, t

LEMMA PlainAdded ==
  ASSUME NEW S, NEW s \in Seq(S), NEW m \in S, \A i \in DOMAIN s : Plain(s[i]), Plain(m)
  PROVE  \A i \in DOMAIN Append(s, m) : Plain(Append(s, m)[i])
<1> DEFINE n == Len(s)
           t == Append(s, m)
<1>1. /\ DOMAIN t = DOMAIN s \cup {n + 1}
      /\ t[n + 1] = m /\ \A i \in DOMAIN s : t[i] = s[i]
  OBVIOUS
<1> HIDE DEF n, t
<1>2. \A i \in DOMAIN t : Plain(t[i])
  BY <1>1
<1> QED
  BY <1>2 DEF t

LEMMA AnsweredAdded ==
  ASSUME NEW S, NEW s \in Seq(S), NEW m \in S, NEW X, NEW Y, Answered(s, X),
         Serial(m) => m.uses \subseteq Y, X \subseteq Results(s) \cup m.results \cup Y
  PROVE  Answered(Append(s, m), Y)
<1> DEFINE n == Len(s)
           t == Append(s, m)
<1>1. /\ DOMAIN t = DOMAIN s \cup {n + 1}
      /\ t[n + 1] = m /\ \A i \in DOMAIN s : t[i] = s[i]
  OBVIOUS
<1>2. Results(t) = Results(s) \cup m.results
  BY UsesAdded
<1> HIDE DEF n, t
<1>3. SUFFICES ASSUME NEW i \in DOMAIN t, Serial(t[i])
               PROVE  t[i].uses \subseteq Results(t) \cup Y
  BY DEF Answered, t
<1>4. CASE i \in DOMAIN s
  BY <1>1, <1>2, <1>3, <1>4 DEF Answered
<1>5. CASE i = n + 1
  BY <1>1, <1>3, <1>5
<1> QED
  BY <1>1, <1>4, <1>5

\* What the journal says of the conversation after one more event.
LEMMA ReplayGrows ==
  ASSUME journal \in Seq(Events), NEW e \in Events, journal' \in {journal, Append(journal, e)}
  PROVE  /\ ReplayedMessages \in Seq(Messages)
         /\ e.type # "message.appended" => ReplayedMessages' = ReplayedMessages
         /\ e.type = "message.appended" /\ journal' = Append(journal, e) =>
                ReplayedMessages' = Append(ReplayedMessages, e.message)
         /\ journal' = journal => ReplayedMessages' = ReplayedMessages
BY Rebuilt, ReplayedOf, ReplayedAppend

LEMMA PlainMessages ==
  ASSUME NEW tools, NEW t
  PROVE  /\ Plain(UserMessage) /\ UserMessage.uses = {} /\ UserMessage.results = {}
         /\ Plain(Assistant(tools)) /\ Assistant(tools).uses = tools /\ Assistant(tools).results = {}
         /\ Plain(ToolResult(t)) /\ ToolResult(t).uses = {} /\ ToolResult(t).results = {t}
BY DEF UserMessage, Assistant, ToolResult, Message, Plain

LEMMA PairSame ==
  ASSUME PairInv, messages' = messages, ReplayedMessages' = ReplayedMessages,
         crashes' = crashes, faults' \in {faults, faults + 1}, faults \in Nat,
         \/ pc' \notin Tooling /\ (faults' = faults => Pending = {})
         \/ pc' = pc /\ current' = current
         \/ pc \in Tooling \ {"completed"} /\ pc' \in Tooling \ {"completed"} /\ current' = current
  PROVE  PairInv'
<1>1. faults' = 0 => faults = 0 /\ faults' = faults
  OBVIOUS
<1>2. faults' = 0 => Pending' = Pending
  BY <1>1 DEF Pending
<1>3. pc' \in Tooling => pc \in Tooling /\ current' = current
  OBVIOUS
<1>4. pc' \in Tooling \ {"completed"} => pc \in Tooling \ {"completed"}
  OBVIOUS
<1> QED
  BY <1>1, <1>2, <1>3, <1>4 DEF PairInv, NoOrphans, Answered, Uses, Results

\* An event that is no message leaves the replayed conversation as it is.
LEMMA OtherEvent ==
  ASSUME TypeInv, NEW e \in Events, e.type # "message.appended", NEW next, NEW handler,
         Emit(e, next, handler)
  PROVE  /\ ReplayedMessages' = ReplayedMessages
         /\ crashes' = crashes /\ faults' \in {faults, faults + 1} /\ pc' \in {next, handler}
<1>1. journal \in Seq(Events)
  BY DEF TypeInv, TypeOK
<1>2. journal' \in {journal, Append(journal, e)}
  BY EmitStep
<1> QED
  BY <1>1, <1>2, EmitStep, ReplayGrows

\* The steps that add no message and start outside the handling of an assistant message.
Talkless ==
    \/ LoopAborted \/ RaiseBudget \/ AbortBudget \/ RaiseLoopCap \/ PickRoute
    \/ BeginCompact \/ StartStream \/ Stream \/ Catch

LEMMA TalklessSteps ==
  ASSUME Talkless
  PROVE  /\ UNCHANGED <<messages, journal, crashes>> /\ faults' \in {faults, faults + 1}
         /\ pc \notin Tooling /\ pc' \notin Tooling
         /\ pc' = "compacting" => ShouldCompact(messages)
<1> USE DEF Tooling
<1>1. CASE LoopAborted
  BY <1>1 DEF LoopAborted, session, counters
<1>2. CASE RaiseBudget
  BY <1>2, EmitQuietStep DEF RaiseBudget, session, counters
<1>3. CASE AbortBudget
  BY <1>3 DEF AbortBudget, session, counters
<1>4. CASE RaiseLoopCap
  BY <1>4, EmitQuietStep DEF RaiseLoopCap, session, counters
<1>5. CASE PickRoute
  BY <1>5 DEF PickRoute, session, counters, Throw
<1>6. CASE BeginCompact
  BY <1>6 DEF BeginCompact, session, counters
<1>7. CASE StartStream
  BY <1>7, EmitQuietStep DEF StartStream, session, counters
<1>8. CASE StreamAborted
  BY <1>8 DEF StreamAborted, session, counters
<1>9. CASE \E ok \in BOOLEAN : StreamToolUse(ok)
  BY <1>9 DEF StreamToolUse, session, counters
<1>10. CASE \E ok \in BOOLEAN : StreamEnds(ok)
  BY <1>10 DEF StreamEnds, session, counters
<1>11. CASE InterruptedPartial
  BY <1>11, EmitQuietStep DEF InterruptedPartial, session, counters, Rejected
<1>12. CASE \E p \in Providers \cup {none} : InterruptedPlain(p)
  BY <1>12, EmitQuietStep DEF InterruptedPlain, session, counters
<1>13. CASE CalleeThrows
  BY <1>13 DEF CalleeThrows, session, counters, Throw
<1>14. CASE Catch
  BY <1>14, EmitQuietStep DEF Catch, session, counters
<1> QED
  BY <1>1, <1>2, <1>3, <1>4, <1>5, <1>6, <1>7, <1>8, <1>9, <1>10, <1>11, <1>12, <1>13, <1>14 DEF Talkless, Stream

LEMMA PairEndTurn ==
  ASSUME TypeInv, PairInv, EndTurn
  PROVE  PairInv'
<1> DEFINE e == IF Aborts THEN TurnAborted(Reason) ELSE TurnCompleted(local.turnUsage)
           next == IF TaskRun THEN "ended" ELSE "idle"
<1>1. /\ turn \in Turns /\ local \in Locals /\ faults \in Nat
      /\ Emit(e, next, "idle") /\ next \in Outside
      /\ messages' = messages /\ Pending = {}
  BY DEF EndTurn, TypeInv, TypeOK, Outside, Pending, Tooling
<1>2. e \in Events /\ e.type # "message.appended"
  <2>1. e \in Events
    BY <1>1, EventTypes, LocalTypes
  <2> QED
    BY <2>1 DEF TurnAborted, TurnCompleted
<1> HIDE DEF e, next
<1>3. /\ ReplayedMessages' = ReplayedMessages /\ crashes' = crashes
      /\ faults' \in {faults, faults + 1} /\ pc' \notin Tooling
  BY <1>1, <1>2, OtherEvent DEF Outside, Tooling
<1> QED
  BY <1>1, <1>3, PairSame

LEMMA PairAppendUser ==
  ASSUME TypeInv, PairInv, AppendUser
  PROVE  PairInv'
<1> DEFINE m == UserMessage
           e == MessageAppended(m)
<1>1. /\ pc \notin Tooling /\ messages' = Append(messages, m) /\ Emit(e, "loop", "idle")
      /\ turn \in Turns /\ messages \in Seq(Messages) /\ journal \in Seq(Events) /\ faults \in Nat
  BY DEF AppendUser, Tooling, TypeInv, TypeOK
<1>2. m \in Messages /\ e \in Events /\ e.type = "message.appended" /\ e.message = m
  BY <1>1, MessageTypes, EventTypes DEF MessageAppended
<1>3. Plain(m) /\ m.uses = {} /\ m.results = {}
  BY PlainMessages
<1> HIDE DEF m, e
<1>4. /\ crashes' = crashes /\ pc' \notin Tooling /\ faults' \in {faults, faults + 1}
      /\ journal' \in {journal, Append(journal, e)}
      /\ faults' = 0 => faults = 0 /\ journal' = Append(journal, e)
  BY <1>1, EmitStep DEF Tooling
<1>5. /\ ReplayedMessages \in Seq(Messages)
      /\ ReplayedMessages' \in {ReplayedMessages, Append(ReplayedMessages, m)}
      /\ faults' = 0 => ReplayedMessages' = Append(ReplayedMessages, m)
  BY <1>1, <1>2, <1>4, ReplayGrows
<1>6. /\ Uses(messages') = Uses(messages) /\ Results(messages') = Results(messages)
      /\ Uses(ReplayedMessages') = Uses(ReplayedMessages)
      /\ Results(ReplayedMessages') = Results(ReplayedMessages)
  <2>1. Uses(messages') = Uses(messages) /\ Results(messages') = Results(messages)
    <3>1. /\ Uses(Append(messages, m)) = Uses(messages) \cup m.uses
          /\ Results(Append(messages, m)) = Results(messages) \cup m.results
      BY <1>1, <1>2, UsesAdded
    <3> QED
      BY <1>1, <1>3, <3>1
  <2>2. /\ Uses(Append(ReplayedMessages, m)) = Uses(ReplayedMessages)
        /\ Results(Append(ReplayedMessages, m)) = Results(ReplayedMessages)
    <3>1. /\ Uses(Append(ReplayedMessages, m)) = Uses(ReplayedMessages) \cup m.uses
          /\ Results(Append(ReplayedMessages, m)) = Results(ReplayedMessages) \cup m.results
      BY <1>2, <1>5, UsesAdded
    <3> QED
      BY <1>3, <3>1
  <2> QED
    BY <1>5, <2>1, <2>2
<1>7. /\ \A i \in DOMAIN messages' : Plain(messages'[i])
      /\ \A i \in DOMAIN ReplayedMessages' : Plain(ReplayedMessages'[i])
  <2>1. \A i \in DOMAIN messages' : Plain(messages'[i])
    BY <1>1, <1>2, <1>3, PlainAdded DEF PairInv
  <2>2. \A i \in DOMAIN Append(ReplayedMessages, m) : Plain(Append(ReplayedMessages, m)[i])
    BY <1>2, <1>3, <1>5, PlainAdded DEF PairInv
  <2> QED
    BY <1>5, <2>1, <2>2 DEF PairInv
<1>8. Answered(messages, {}) => Answered(messages', {})
  BY <1>1, <1>2, <1>3, AnsweredAdded
<1>9. Pending = {} /\ Pending' = {}
  BY <1>1, <1>4 DEF Pending
<1> QED
  BY <1>4, <1>6, <1>7, <1>8, <1>9 DEF PairInv, NoOrphans

LEMMA PairAppendAssistant ==
  ASSUME TypeInv, PairInv, AppendAssistant
  PROVE  PairInv'
<1> DEFINE m == Assistant(current.tools)
<1>1. /\ pc \notin Tooling /\ messages' = Append(messages, m) /\ current' = current
      /\ EmitQuiet("completed", "catch")
      /\ messages \in Seq(Messages) /\ faults \in Nat /\ current.tools \in SUBSET Nat
  BY DEF AppendAssistant, Tooling, TypeInv, TypeOK
<1>2. m \in Messages /\ Plain(m) /\ m.uses = current.tools /\ m.results = {}
  BY <1>1, MessageTypes, PlainMessages
<1> HIDE DEF m
<1>3. /\ crashes' = crashes /\ journal' = journal
      /\ \/ pc' = "completed" /\ faults' = faults
         \/ pc' = "catch" /\ faults' = faults + 1
  BY <1>1, EmitQuietStep
<1>4. ReplayedMessages' = ReplayedMessages
  BY <1>3, Rebuilt
<1>5. Uses(messages') = Uses(messages) \cup current.tools /\ Results(messages') = Results(messages)
  <2>0. m \in Messages /\ messages \in Seq(Messages)
    BY <1>1, <1>2
  <2>1. /\ Uses(Append(messages, m)) = Uses(messages) \cup m.uses
        /\ Results(Append(messages, m)) = Results(messages) \cup m.results
    BY <2>0, UsesAdded
  <2> QED
    BY <1>1, <1>2, <2>1
<1>6. \A i \in DOMAIN messages' : Plain(messages'[i])
  BY <1>1, <1>2, PlainAdded DEF PairInv
<1>7. Answered(messages, {}) => Answered(messages', current.tools)
  <2> DEFINE T == current.tools
  <2>1. m.uses = T
    BY <1>2
  <2> HIDE DEF T
  <2>2. Answered(messages, {}) => Answered(messages', T)
    BY <1>1, <1>2, <2>1, AnsweredAdded
  <2> QED
    BY <2>2 DEF T
<1>8. Pending = {} /\ (faults' = 0 => Pending' = current.tools)
  BY <1>1, <1>3 DEF Pending, Tooling
<1> QED
  BY <1>1, <1>3, <1>4, <1>5, <1>6, <1>7, <1>8 DEF PairInv, NoOrphans, Tooling

LEMMA PairAnnounce ==
  ASSUME TypeInv, PairInv, AnnounceAssistant
  PROVE  PairInv'
<1> DEFINE m == Assistant(current.tools)
           e == MessageAppended(m)
<1>1. /\ pc = "completed" /\ messages' = messages /\ current' = current
      /\ Emit(e, "assistant", "catch")
      /\ turn \in Turns /\ journal \in Seq(Events) /\ faults \in Nat /\ current.tools \in SUBSET Nat
  BY DEF AnnounceAssistant, session, TypeInv, TypeOK
<1>2. m \in Messages /\ e \in Events /\ e.type = "message.appended" /\ e.message = m
  BY <1>1, MessageTypes, EventTypes DEF MessageAppended
<1>3. Plain(m) /\ m.uses = current.tools /\ m.results = {}
  BY PlainMessages
<1> HIDE DEF m, e
<1>4. /\ crashes' = crashes /\ journal' \in {journal, Append(journal, e)}
      /\ \/ pc' = "assistant" /\ faults' = faults /\ journal' = Append(journal, e)
         \/ pc' = "catch" /\ faults' = faults + 1
  BY <1>1, EmitStep
<1>5. /\ ReplayedMessages \in Seq(Messages)
      /\ ReplayedMessages' \in {ReplayedMessages, Append(ReplayedMessages, m)}
      /\ pc' = "assistant" => ReplayedMessages' = Append(ReplayedMessages, m)
  BY <1>1, <1>2, <1>4, ReplayGrows
<1>6. /\ Results(ReplayedMessages') = Results(ReplayedMessages)
      /\ Uses(ReplayedMessages) \subseteq Uses(ReplayedMessages')
      /\ Uses(ReplayedMessages') \subseteq Uses(ReplayedMessages) \cup current.tools
      /\ pc' = "assistant" => current.tools \subseteq Uses(ReplayedMessages')
  <2>1. /\ Uses(Append(ReplayedMessages, m)) = Uses(ReplayedMessages) \cup current.tools
        /\ Results(Append(ReplayedMessages, m)) = Results(ReplayedMessages)
    <3>1. /\ Uses(Append(ReplayedMessages, m)) = Uses(ReplayedMessages) \cup m.uses
          /\ Results(Append(ReplayedMessages, m)) = Results(ReplayedMessages) \cup m.results
      BY <1>2, <1>5, UsesAdded
    <3> QED
      BY <1>3, <3>1
  <2> QED
    BY <1>5, <2>1
<1>7. \A i \in DOMAIN ReplayedMessages' : Plain(ReplayedMessages'[i])
  <2>1. \A i \in DOMAIN Append(ReplayedMessages, m) : Plain(Append(ReplayedMessages, m)[i])
    BY <1>2, <1>3, <1>5, PlainAdded DEF PairInv
  <2> QED
    BY <1>5, <2>1 DEF PairInv
<1>8. Pending = current.tools /\ (faults' = 0 => Pending' = current.tools /\ faults = 0)
  BY <1>1, <1>4 DEF Pending, Tooling
<1> QED
  BY <1>1, <1>4, <1>6, <1>7, <1>8 DEF PairInv, NoOrphans, Tooling

LEMMA PairAppendResult ==
  ASSUME TypeInv, PairInv, AppendResult
  PROVE  PairInv'
<1> DEFINE todo == current.tools \ Results(messages)
           t == Min(todo)
           m == ToolResult(t)
           e == MessageAppended(m)
           next == IF todo = {t} THEN "loop" ELSE "collect"
<1>1. /\ pc \in {"executing", "collect"} /\ messages' = Append(messages, m) /\ current' = current
      /\ Emit(e, next, "catch") /\ todo # {}
      /\ turn \in Turns /\ messages \in Seq(Messages) /\ journal \in Seq(Events)
      /\ faults \in Nat /\ current.tools \in SUBSET Nat
  <2>1. /\ pc \in {"executing", "collect"} /\ messages' = Append(messages, m) /\ current' = current
        /\ Emit(e, next, "catch") /\ todo # {}
    BY DEF AppendResult
  <2>2. /\ messages \in Seq(Messages) /\ journal \in Seq(Events) /\ faults \in Nat
        /\ current.tools \in SUBSET Nat
    BY DEF TypeInv, TypeOK
  <2>3. turn \in Turns
    BY <2>1 DEF TypeInv
  <2> QED
    BY <2>1, <2>2, <2>3
<1>2. t \in current.tools /\ t \in Nat
  <2>1. todo \in SUBSET Nat
    BY <1>1
  <2>2. t \in todo
    <3> HIDE DEF todo
    <3> QED
      BY <1>1, <2>1, MinOfNat
  <2> QED
    BY <1>1, <2>2
<1>3. todo = {t} => current.tools \subseteq Results(messages) \cup {t}
  OBVIOUS
<1>4. m \in Messages /\ e \in Events /\ e.type = "message.appended" /\ e.message = m
  BY <1>1, <1>2, MessageTypes, EventTypes DEF MessageAppended
<1>5. Plain(m) /\ m.uses = {} /\ m.results = {t}
  BY PlainMessages
<1>6. next = "collect" \/ (next = "loop" /\ current.tools \subseteq Results(messages) \cup {t})
  BY <1>3
<1> HIDE DEF todo, t, m, e, next
<1>7. /\ crashes' = crashes /\ journal' \in {journal, Append(journal, e)}
      /\ \/ pc' = next /\ faults' = faults /\ journal' = Append(journal, e)
         \/ pc' = "catch" /\ faults' = faults + 1
  BY <1>1, EmitStep
<1>8. /\ ReplayedMessages \in Seq(Messages)
      /\ ReplayedMessages' \in {ReplayedMessages, Append(ReplayedMessages, m)}
      /\ faults' = 0 => ReplayedMessages' = Append(ReplayedMessages, m) /\ faults = 0 /\ pc' = next
  BY <1>1, <1>4, <1>7, ReplayGrows
<1>9. /\ Uses(messages') = Uses(messages) /\ Results(messages') = Results(messages) \cup {t}
      /\ Uses(ReplayedMessages') = Uses(ReplayedMessages)
      /\ Results(ReplayedMessages') \subseteq Results(ReplayedMessages) \cup {t}
      /\ Results(ReplayedMessages) \subseteq Results(ReplayedMessages')
      /\ faults' = 0 => t \in Results(ReplayedMessages')
  <2>1. Uses(messages') = Uses(messages) /\ Results(messages') = Results(messages) \cup {t}
    <3>1. /\ Uses(Append(messages, m)) = Uses(messages) \cup m.uses
          /\ Results(Append(messages, m)) = Results(messages) \cup m.results
      BY <1>1, <1>4, UsesAdded
    <3> QED
      BY <1>1, <1>5, <3>1
  <2>2. /\ Uses(Append(ReplayedMessages, m)) = Uses(ReplayedMessages)
        /\ Results(Append(ReplayedMessages, m)) = Results(ReplayedMessages) \cup {t}
    <3>1. /\ Uses(Append(ReplayedMessages, m)) = Uses(ReplayedMessages) \cup m.uses
          /\ Results(Append(ReplayedMessages, m)) = Results(ReplayedMessages) \cup m.results
      BY <1>4, <1>8, UsesAdded
    <3> QED
      BY <1>5, <3>1
  <2> QED
    BY <1>8, <2>1, <2>2
<1>10. /\ \A i \in DOMAIN messages' : Plain(messages'[i])
       /\ \A i \in DOMAIN ReplayedMessages' : Plain(ReplayedMessages'[i])
  <2>1. \A i \in DOMAIN messages' : Plain(messages'[i])
    BY <1>1, <1>4, <1>5, PlainAdded DEF PairInv
  <2>2. \A i \in DOMAIN Append(ReplayedMessages, m) : Plain(Append(ReplayedMessages, m)[i])
    BY <1>4, <1>5, <1>8, PlainAdded DEF PairInv
  <2> QED
    BY <1>8, <2>1, <2>2 DEF PairInv
<1>11. /\ Pending = current.tools
       /\ faults' = 0 => Pending' = (IF next = "collect" THEN current.tools ELSE {})
  BY <1>1, <1>6, <1>8 DEF Pending, Tooling
<1>12. faults' = 0 /\ Answered(messages, Pending) => Answered(messages', Pending')
  <2>1. faults' = 0 => Pending \subseteq Results(messages) \cup m.results \cup Pending'
    BY <1>5, <1>6, <1>11
  <2> QED
    BY <1>1, <1>4, <1>5, <2>1, AnsweredAdded
<1>13. NoOrphans(messages') /\ NoOrphans(ReplayedMessages')
  BY <1>1, <1>2, <1>9 DEF PairInv, NoOrphans, Tooling
<1>14. pc' \in Tooling =>
           current'.tools \subseteq Uses(messages') /\ current'.tools \subseteq Uses(ReplayedMessages')
  BY <1>1, <1>9 DEF PairInv, Tooling
<1>15. faults' = 0 /\ crashes' = 0 =>
           /\ Results(messages') \subseteq Results(ReplayedMessages')
           /\ Uses(ReplayedMessages') \subseteq Results(ReplayedMessages') \cup Pending'
           /\ Answered(messages', Pending')
  <2>1. SUFFICES ASSUME faults' = 0, crashes' = 0
                 PROVE  /\ Results(messages') \subseteq Results(ReplayedMessages')
                        /\ Uses(ReplayedMessages') \subseteq Results(ReplayedMessages') \cup Pending'
                        /\ Answered(messages', Pending')
    OBVIOUS
  <2>2. /\ Results(messages) \subseteq Results(ReplayedMessages) /\ Answered(messages, Pending)
        /\ Uses(ReplayedMessages) \subseteq Results(ReplayedMessages) \cup current.tools
    BY <1>7, <1>8, <1>11, <2>1 DEF PairInv
  <2> QED
    BY <1>6, <1>9, <1>11, <1>12, <2>1, <2>2
<1> QED
  BY <1>10, <1>13, <1>14, <1>15 DEF PairInv

LEMMA PairFinishCompact ==
  ASSUME TypeInv, PairInv, FinishCompact
  PROVE  PairInv'
<1>1. /\ pc \notin Tooling /\ messages' \in {messages, Compact(messages)}
      /\ EmitQuiet("compacted", "catch") /\ messages \in Seq(Messages) /\ faults \in Nat
  BY DEF FinishCompact, Tooling, TypeInv, TypeOK
<1>2. /\ crashes' = crashes /\ journal' = journal /\ faults' \in {faults, faults + 1}
      /\ pc' \notin Tooling
  BY <1>1, EmitQuietStep DEF Tooling
<1>3. ReplayedMessages' = ReplayedMessages
  BY <1>2, Rebuilt
<1>4. \A i \in DOMAIN messages' : Plain(messages'[i])
  BY <1>1, SelectPlain DEF PairInv, Compact
<1>5. NoOrphans(messages')
  BY <1>1, SelectNoOrphans DEF PairInv, Compact
<1>6. Answered(messages, {}) => Answered(messages', {})
  BY <1>1, SelectAnswered DEF PairInv, Compact
<1>7. Results(messages') \subseteq Results(messages)
  <2>1. SUFFICES ASSUME messages' = Compact(messages) PROVE Results(messages') \subseteq Results(messages)
    BY <1>1
  <2>2. \A k \in DOMAIN messages' : \E i \in DOMAIN messages : messages'[k] = messages[i]
    BY <1>1, <2>1, SelectKeeps, SelectedInDomain DEF Compact
  <2> QED
    BY <2>2 DEF Results
<1>8. Pending = {} /\ Pending' = {}
  BY <1>1, <1>2 DEF Pending
<1> QED
  BY <1>1, <1>2, <1>3, <1>4, <1>5, <1>6, <1>7, <1>8 DEF PairInv

LEMMA PairStep ==
  ASSUME TypeInv, PairInv, [Next]_vars
  PROVE  PairInv'
<1>1. faults \in Nat /\ crashes \in Nat
  BY DEF TypeInv, TypeOK
<1>2. CASE Talkless
  <2>1. ReplayedMessages' = ReplayedMessages
    BY <1>2, TalklessSteps, Rebuilt
  <2>2. Pending = {}
    BY <1>2, TalklessSteps DEF Pending
  <2> QED
    BY <1>1, <1>2, <2>1, <2>2, TalklessSteps, PairSame
<1>3. CASE StartTask
  <2>1. /\ turn \in Turns /\ pc \notin Tooling /\ Pending = {} /\ messages' = messages
        /\ Emit(TaskEvent("task.started"), "tasked", "idle")
    BY <1>3 DEF StartTask, session, TypeInv, Pending, Tooling
  <2>2. TaskEvent("task.started") \in Events /\ TaskEvent("task.started").type # "message.appended"
    BY <2>1, EventTypes DEF TaskEvent
  <2>3. /\ ReplayedMessages' = ReplayedMessages /\ crashes' = crashes
        /\ faults' \in {faults, faults + 1} /\ pc' \notin Tooling
    BY <2>1, <2>2, OtherEvent DEF Tooling
  <2> QED
    BY <1>1, <2>1, <2>3, PairSame
<1>4. CASE EndTask
  <2> DEFINE e == TaskEvent(IF status[turn] = "aborted" THEN "task.failed" ELSE "task.completed")
  <2>1. /\ turn \in Turns /\ pc \notin Tooling /\ Pending = {} /\ messages' = messages
        /\ Emit(e, "idle", "idle")
    BY <1>4 DEF EndTask, session, TypeInv, Pending, Tooling
  <2>2. e \in Events /\ e.type # "message.appended"
    BY <2>1, EventTypes DEF TaskEvent
  <2> HIDE DEF e
  <2>3. /\ ReplayedMessages' = ReplayedMessages /\ crashes' = crashes
        /\ faults' \in {faults, faults + 1} /\ pc' \notin Tooling
    BY <2>1, <2>2, OtherEvent DEF Tooling
  <2> QED
    BY <1>1, <2>1, <2>3, PairSame
<1>5. CASE Run
  <2> DEFINE e == [TurnStarted EXCEPT !.turn = turn + 1]
  <2>1. /\ pc \notin Tooling /\ Pending = {} /\ messages' = messages
        /\ Emit(e, "started", "idle") /\ turn \in Nat /\ turn < MaxTurns /\ turn + 1 \in Turns
    <3>1. /\ pc = "idle" /\ messages' = messages /\ Emit(e, "started", "idle") /\ turn < MaxTurns
      BY <1>5 DEF Run
    <3>2. turn \in 0..MaxTurns /\ MaxTurns \in Nat
      BY RunnerAssumption DEF TypeInv, TypeOK, RunnerAssumption
    <3>3. turn \in Nat /\ turn + 1 \in Turns
      BY <3>1, <3>2 DEF Turns
    <3> QED
      BY <3>1, <3>3 DEF Pending, Tooling
  <2>2. e = [type |-> "turn.started", turn |-> turn + 1]
    BY DEF TurnStarted
  <2>3. e \in Events /\ e.type # "message.appended"
    BY <2>1, <2>2 DEF Events
  <2> HIDE DEF e
  <2>4. /\ ReplayedMessages' = ReplayedMessages /\ crashes' = crashes
        /\ faults' \in {faults, faults + 1} /\ pc' \notin Tooling
    BY <2>1, <2>3, OtherEvent DEF Tooling
  <2> QED
    BY <1>1, <2>1, <2>4, PairSame
<1>6. CASE RequestTools \/ StartTools
  <2>1. /\ UNCHANGED <<messages, journal, crashes, current>>
        /\ pc \in {"assistant", "requested"}
        /\ \/ pc' \in {"requested", "executing"} /\ faults' = faults
           \/ pc' = "catch" /\ faults' = faults + 1
    BY <1>6, EmitQuietStep DEF RequestTools, StartTools, session, counters, Rejected
  <2>2. ReplayedMessages' = ReplayedMessages
    BY <2>1, Rebuilt
  <2> QED
    BY <1>1, <2>1, <2>2, PairSame DEF Tooling
<1>7. CASE Interrupt \/ SessionOver \/ UNCHANGED vars \/ \E t \in running : ToolSettles(t)
  <2>1. UNCHANGED <<pc, messages, journal, crashes, faults, current>>
    BY <1>7 DEF Interrupt, SessionOver, vars, ToolSettles, session, counters
  <2>2. ReplayedMessages' = ReplayedMessages
    BY <2>1, Rebuilt
  <2> QED
    BY <1>1, <2>1, <2>2, PairSame
<1>8. CASE CrashAndResume
  <2>1. messages' = ReplayedMessages /\ journal' = journal /\ pc' = "idle" /\ crashes' = crashes + 1
    BY <1>8 DEF CrashAndResume
  <2>2. ReplayedMessages' = ReplayedMessages
    BY <2>1, Rebuilt
  <2> QED
    BY <1>1, <2>1, <2>2 DEF PairInv, Tooling
<1> QED
  BY <1>2, <1>3, <1>4, <1>5, <1>6, <1>7, <1>8, PairEndTurn, PairAppendUser, PairAppendAssistant,
     PairAnnounce, PairAppendResult, PairFinishCompact
     DEF Next, Step, LoopHead, Tools, Talkless

\* For any context policy parameters, any number of parallel tools and any interleaving of
\* interrupts and failures: a request holds no tool_result without its tool_use, and until a
\* fault or a crash each tool_use that is alone in its message is answered in the request, and
\* every one is as long as nothing was dropped from the conversation.
THEOREM RequestsPaired == Spec => []RequestPaired
<1>1. Init => TypeInv
  BY InitTypes, RunnerAssumption
<1>2. TypeInv /\ [Next]_vars => TypeInv'
  BY StepTypes, RunnerAssumption
<1>3. Init => PairInv
  <2>1. ASSUME Init PROVE Appended(journal) = {} /\ messages = <<>> /\ pc = "idle"
    BY <2>1 DEF Init, Appended
  <2>2. ASSUME Init PROVE DOMAIN ReplayedMessages = {}
    <3>1. journal \in Seq(Events)
      BY <2>2 DEF Init
    <3>2. \A k \in DOMAIN Replayed(journal) : FALSE
      BY <2>1, <2>2, <3>1, ReplayedOf
    <3> QED
      BY <3>2, Rebuilt
  <2> QED
    BY <2>1, <2>2 DEF PairInv, NoOrphans, Answered, Uses, Results, Tooling
<1>4. TypeInv /\ PairInv /\ [Next]_vars => PairInv'
  BY PairStep
<1>5. TypeInv /\ PairInv => RequestPaired
  <2>1. SUFFICES ASSUME TypeInv, PairInv, pc = "stream" PROVE RequestPaired
    BY DEF RequestPaired
  <2> DEFINE sent == BuildPrompt(messages)
  <2>2. messages \in Seq(Messages) /\ Pending = {}
    BY <2>1 DEF TypeInv, TypeOK, Pending, Tooling
  <2>3. Results(sent) \subseteq Uses(sent)
    BY <2>1, <2>2, SelectNoOrphans DEF PairInv, BuildPrompt, NoOrphans
  <2>4. ASSUME faults = 0, crashes = 0, NEW i \in DOMAIN sent,
               Serial(sent[i]) \/ sent = ReplayedMessages
        PROVE  sent[i].uses \subseteq Results(sent)
    <3>1. CASE Serial(sent[i])
      <4>1. Answered(sent, {})
        BY <2>1, <2>2, <2>4, SelectAnswered DEF PairInv, BuildPrompt
      <4> QED
        BY <2>4, <3>1, <4>1 DEF Answered
    <3>2. CASE sent = ReplayedMessages
      <4>1. Uses(ReplayedMessages) \subseteq Results(ReplayedMessages)
        BY <2>1, <2>2, <2>4 DEF PairInv
      <4>2. sent[i].uses \subseteq Uses(sent)
        BY <2>4 DEF Uses
      <4> HIDE DEF sent
      <4> QED
        BY <3>2, <4>1, <4>2
    <3> QED
      BY <2>4, <3>1, <3>2
  <2> HIDE DEF sent
  <2> QED
    BY <2>3, <2>4 DEF RequestPaired, sent
<1> QED
  BY <1>1, <1>2, <1>3, <1>4, <1>5, PTL DEF Spec

-----------------------------------------------------------------------------
(* What a resume rebuilds *)

LEMMA TotalAppend ==
  ASSUME NEW s \in Seq(Messages), NEW m \in Messages
  PROVE  Total(s) \in Nat /\ Total(Append(s, m)) = Total(s) + 1
<1> DEFINE n == Len(s)
           t == Append(s, m)
           u == [i \in DOMAIN s |-> s[i].tokens]
           w == [i \in DOMAIN t |-> t[i].tokens]
<1>1. /\ n \in Nat /\ DOMAIN s = 1..n /\ DOMAIN t = 1..(n + 1)
      /\ t[n + 1] = m /\ \A i \in 1..n : t[i] = s[i] /\ s[i] \in Messages
  OBVIOUS
<1>2. \A x \in Messages : x.tokens = 1
  BY DEF Messages
<1>3. /\ u \in [1..n -> Nat] /\ w \in [1..(n + 1) -> Nat]
      /\ w[n + 1] = 1 /\ \A i \in 1..n : w[i] = u[i]
  <2> HIDE DEF t, n
  <2> QED
    BY <1>1, <1>2
<1> HIDE DEF u, w
<1>4. u \in Seq(Nat) /\ Len(u) = n /\ w \in Seq(Nat) /\ Len(w) = n + 1
  <2> HIDE DEF n, t
  <2>1. u \in Seq(Nat) /\ Len(u) = n
    BY <1>1, <1>3, SeqDef, LenProperties
  <2>2. w \in Seq(Nat) /\ Len(w) = n + 1
    BY <1>1, <1>3, SeqDef, LenProperties
  <2> QED
    BY <2>1, <2>2
<1>5. w = Append(u, 1)
  <2>1. /\ Append(u, 1) \in Seq(Nat) /\ Len(Append(u, 1)) = n + 1
        /\ Append(u, 1)[n + 1] = 1 /\ \A i \in 1..n : Append(u, 1)[i] = u[i]
    BY <1>4, AppendProperties
  <2>2. \A i \in 1..(n + 1) : w[i] = Append(u, 1)[i]
    <3> TAKE i \in 1..(n + 1)
    <3>1. i \in 1..n \/ i = n + 1
      BY <1>1
    <3> QED
      BY <1>3, <2>1, <3>1
  <2> QED
    BY <1>4, <2>1, <2>2, SeqEqual
<1> QED
  BY <1>4, <1>5, SumOfNat, SumOfAppend DEF Total, u, w

\* A conversation that is due for compaction stays so as it grows.
LEMMA CompactionStaysDue ==
  ASSUME ContextAssumption, NEW s \in Seq(Messages), NEW m \in Messages, ShouldCompact(s)
  PROVE  ShouldCompact(Append(s, m))
<1> DEFINE limit == Budget * CompactionThreshold
<1>1. limit \in Nat
  BY DEF ContextAssumption
<1> HIDE DEF limit
<1>2. Total(s) * 100 >= limit
  BY DEF ShouldCompact, limit
<1>3. Total(Append(s, m)) * 100 >= limit
  BY <1>1, <1>2, TotalAppend
<1> QED
  BY <1>3 DEF ShouldCompact, limit

LEMMA PrefixOf ==
  ASSUME NEW S, NEW s \in Seq(S), NEW t \in Seq(S),
         Len(s) <= Len(t), \A i \in 1..Len(s) : t[i] = s[i]
  PROVE  IsPrefix(s, t)
<1>1. SubSeq(t, 1, Len(s)) = SubSeq(s, 1, Len(s))
  OBVIOUS
<1> QED
  BY <1>1 DEF IsPrefix

LEMMA PrefixAppend ==
  ASSUME NEW S, NEW s \in Seq(S), NEW m \in S
  PROVE  IsPrefix(s, Append(s, m))
<1>1. /\ Append(s, m) \in Seq(S)
      /\ Len(s) <= Len(Append(s, m)) /\ \A i \in 1..Len(s) : Append(s, m)[i] = s[i]
  OBVIOUS
<1> QED
  BY <1>1, PrefixOf

\* One more event of a turn is one more type of that turn.
LEMMA TypesGrow ==
  ASSUME journal \in Seq(Events), NEW e, journal' = Append(journal, e)
  PROVE  \A t \in Turns :
             JournalTypes(t)' = JournalTypes(t) \cup (IF e.turn = t THEN {e.type} ELSE {})
<1> DEFINE n == Len(journal)
<1>1. /\ DOMAIN journal' = DOMAIN journal \cup {n + 1}
      /\ journal'[n + 1] = e /\ \A i \in DOMAIN journal : journal'[i] = journal[i]
  OBVIOUS
<1> HIDE DEF n
<1> QED
  BY <1>1 DEF JournalTypes

LEMMA TypesKept ==
  ASSUME journal' = journal
  PROVE  /\ \A t \in Turns : JournalTypes(t)' = JournalTypes(t)
         /\ \A t \in Turns : ReplayedStatus(t)' = ReplayedStatus(t)
         /\ ReplayedMessages' = ReplayedMessages
         /\ ReplayedUsage' = ReplayedUsage
BY DEF JournalTypes, ReplayedStatus, ReplayedMessages, ReplayedUsage

\* The live conversation is the replayed one until a compaction is due, ahead of it by the
\* assistant message that is not announced yet.
TalkMirrored ==
    faults = 0 =>
        /\ ~ShouldCompact(ReplayedMessages) =>
               messages = IF pc = "completed"
                          THEN Append(ReplayedMessages, Assistant(current.tools))
                          ELSE ReplayedMessages
        /\ pc = "compacting" => ShouldCompact(ReplayedMessages)

LEMMA TalkSame ==
  ASSUME TalkMirrored, messages' = messages, ReplayedMessages' = ReplayedMessages,
         faults' = 0 => faults = 0,
         \/ pc # "completed" /\ pc' # "completed"
         \/ pc' = pc /\ current' = current,
         pc' = "compacting" => pc = "compacting" \/ ShouldCompact(messages)
  PROVE  TalkMirrored'
BY DEF TalkMirrored

\* A message and its event are added together.
LEMMA TalkGrows ==
  ASSUME RunnerAssumption, ContextAssumption, TypeInv, TalkMirrored,
         NEW m \in Messages, NEW e \in Events, e.type = "message.appended", e.message = m,
         faults' = 0 => faults = 0 /\ journal' = Append(journal, e),
         messages' = Append(messages, m), pc # "completed", pc' \notin {"completed", "compacting"}
  PROVE  TalkMirrored'
<1>1. SUFFICES ASSUME faults' = 0, ~ShouldCompact(ReplayedMessages')
               PROVE  messages' = ReplayedMessages'
  BY DEF TalkMirrored
<1>2. faults = 0 /\ journal' = Append(journal, e) /\ journal \in Seq(Events)
  BY <1>1 DEF TypeInv, TypeOK
<1>3. ReplayedMessages \in Seq(Messages) /\ ReplayedMessages' = Append(ReplayedMessages, m)
  BY <1>2, ReplayGrows
<1>4. ~ShouldCompact(ReplayedMessages)
  BY <1>1, <1>3, CompactionStaysDue
<1> QED
  BY <1>2, <1>3, <1>4 DEF TalkMirrored

LEMMA TalkMessages ==
  ASSUME RunnerAssumption, ContextAssumption, TypeInv, TalkMirrored,
         AppendUser \/ AppendResult
  PROVE  TalkMirrored'
<1>0. pc # "idle"
  BY DEF AppendUser, AppendResult
<1>1. turn \in Turns /\ faults \in Nat /\ current.tools \in SUBSET Nat
  BY <1>0 DEF TypeInv, TypeOK
<1>2. PICK m \in Messages, next \in {"loop", "collect"}, handler \in {"idle", "catch"} :
          /\ messages' = Append(messages, m) /\ pc # "completed"
          /\ Emit(MessageAppended(m), next, handler)
  <2>1. CASE AppendUser
    BY <1>1, <2>1, MessageTypes DEF AppendUser
  <2>2. CASE AppendResult
    <3> DEFINE todo == current.tools \ Results(messages)
               t    == Min(todo)
    <3>1. /\ pc # "completed" /\ todo # {} /\ messages' = Append(messages, ToolResult(t))
          /\ Emit(MessageAppended(ToolResult(t)), IF todo = {t} THEN "loop" ELSE "collect", "catch")
      BY <2>2 DEF AppendResult
    <3>2. t \in Nat
      BY <1>1, <3>1, MinOfNat
    <3> HIDE DEF t, todo
    <3>3. ToolResult(t) \in Messages
      BY <3>2, MessageTypes
    <3> QED
      BY <3>1, <3>3
  <2> QED
    BY <2>1, <2>2
<1>3. /\ MessageAppended(m) \in Events /\ MessageAppended(m).type = "message.appended"
      /\ MessageAppended(m).message = m
  BY <1>1, EventTypes DEF MessageAppended
<1>4. /\ pc' \notin {"completed", "compacting"}
      /\ faults' = 0 => faults = 0 /\ journal' = Append(journal, MessageAppended(m))
  BY <1>1, <1>2, EmitStep
<1> QED
  BY <1>2, <1>3, <1>4, TalkGrows

LEMMA TalkAssistant ==
  ASSUME RunnerAssumption, ContextAssumption, TypeInv, TalkMirrored,
         AppendAssistant \/ AnnounceAssistant
  PROVE  TalkMirrored'
<1> DEFINE m == Assistant(current.tools)
           e == MessageAppended(m)
<1>1. turn \in Turns /\ faults \in Nat /\ current.tools \in SUBSET Nat /\ journal \in Seq(Events)
  <2>1. pc # "idle"
    BY DEF AppendAssistant, AnnounceAssistant
  <2> QED
    BY <2>1 DEF TypeInv, TypeOK
<1>2. m \in Messages /\ e \in Events /\ e.type = "message.appended" /\ e.message = m
  BY <1>1, MessageTypes, EventTypes DEF MessageAppended
<1>3. CASE AppendAssistant
  <2>1. /\ pc = "success" /\ messages' = Append(messages, m) /\ current' = current
        /\ EmitQuiet("completed", "catch")
    BY <1>3 DEF AppendAssistant
  <2>2. /\ journal' = journal
        /\ faults' = 0 => faults = 0 /\ pc' = "completed"
    BY <1>1, <2>1, EmitQuietStep
  <2>3. ReplayedMessages' = ReplayedMessages /\ Assistant(current.tools)' = m
    BY <2>1, <2>2, Rebuilt DEF Assistant
  <2> QED
    BY <2>1, <2>2, <2>3 DEF TalkMirrored
<1>4. CASE AnnounceAssistant
  <2>1. /\ pc = "completed" /\ messages' = messages /\ Emit(e, "assistant", "catch")
    BY <1>4 DEF AnnounceAssistant, session
  <2> HIDE DEF e
  <2>2. /\ pc' \notin {"completed", "compacting"}
        /\ faults' = 0 => faults = 0 /\ journal' = Append(journal, e)
    BY <1>1, <2>1, EmitStep
  <2>3. SUFFICES ASSUME faults' = 0, ~ShouldCompact(ReplayedMessages')
                 PROVE  messages' = ReplayedMessages'
    BY <2>2 DEF TalkMirrored
  <2>4. ReplayedMessages \in Seq(Messages) /\ ReplayedMessages' = Append(ReplayedMessages, m)
    BY <1>1, <1>2, <2>2, <2>3, ReplayGrows
  <2>5. ~ShouldCompact(ReplayedMessages)
    BY <1>2, <2>3, <2>4, CompactionStaysDue
  <2> QED
    BY <2>1, <2>2, <2>3, <2>4, <2>5 DEF TalkMirrored
<1> QED
  BY <1>3, <1>4

LEMMA TalkStep ==
  ASSUME RunnerAssumption, ContextAssumption, TypeInv, TalkMirrored, [Next]_vars
  PROVE  TalkMirrored'
<1>1. faults \in Nat /\ (faults' = 0 => faults = 0)
  BY SMTT(40), FaultsCount DEF TypeInv, TypeOK
<1>2. CASE Talkless
  <2>1. ReplayedMessages' = ReplayedMessages
    BY <1>2, TalklessSteps, Rebuilt
  <2> QED
    BY <1>1, <1>2, <2>1, TalklessSteps, TalkSame DEF Tooling
<1>3. ASSUME NEW e \in Events, e.type # "message.appended", NEW next, NEW handler,
             Emit(e, next, handler), messages' = messages, pc # "completed",
             {next, handler} \cap {"completed", "compacting"} = {}
      PROVE  TalkMirrored'
  BY <1>1, <1>3, OtherEvent, TalkSame
<1>4. CASE StartTask
  <2>1. TaskEvent("task.started") \in Events /\ TaskEvent("task.started").type # "message.appended"
    BY <1>4, EventTypes DEF TaskEvent, StartTask, TypeInv
  <2> QED
    BY <1>3, <1>4, <2>1 DEF StartTask, session
<1>5. CASE EndTask
  <2> DEFINE e == TaskEvent(IF status[turn] = "aborted" THEN "task.failed" ELSE "task.completed")
  <2>1. e \in Events /\ e.type # "message.appended"
    BY <1>5, EventTypes DEF TaskEvent, EndTask, TypeInv
  <2>2. Emit(e, "idle", "idle") /\ pc # "completed" /\ messages' = messages
    BY <1>5 DEF EndTask, session
  <2> HIDE DEF e
  <2> QED
    BY <1>3, <2>1, <2>2
<1>6. CASE Run
  <2> DEFINE e == [TurnStarted EXCEPT !.turn = turn + 1]
  <2>1. pc = "idle" /\ messages' = messages /\ Emit(e, "started", "idle") /\ turn < MaxTurns
    BY <1>6 DEF Run
  <2>2. turn \in 0..MaxTurns /\ MaxTurns \in Nat
    BY RunnerAssumption DEF TypeInv, TypeOK, RunnerAssumption
  <2>3. turn + 1 \in Turns
    BY <2>1, <2>2 DEF Turns
  <2>4. e \in Events /\ e.type # "message.appended"
    BY <2>3 DEF Events, TurnStarted
  <2> HIDE DEF e
  <2> QED
    BY <1>3, <2>1, <2>4
<1>7. CASE EndTurn
  <2> DEFINE e == IF Aborts THEN TurnAborted(Reason) ELSE TurnCompleted(local.turnUsage)
             next == IF TaskRun THEN "ended" ELSE "idle"
  <2>1. /\ pc # "completed" /\ messages' = messages /\ Emit(e, next, "idle") /\ turn \in Turns
        /\ local.turnUsage \in Nat
    BY <1>7 DEF EndTurn, TypeInv, TypeOK, Locals
  <2>2. e \in Events
    BY <2>1, EventTypes
  <2>3. e.type # "message.appended"
    BY DEF TurnAborted, TurnCompleted
  <2>4. next # "completed" /\ next # "compacting"
    OBVIOUS
  <2> HIDE DEF e, next
  <2> QED
    BY <1>3, <2>1, <2>2, <2>3, <2>4
<1>8. CASE RequestTools \/ StartTools
  <2>1. /\ UNCHANGED <<messages, journal>> /\ pc # "completed"
        /\ pc' \notin {"completed", "compacting"}
    BY <1>8, EmitQuietStep DEF RequestTools, StartTools, session, Rejected
  <2>2. ReplayedMessages' = ReplayedMessages
    BY <2>1, Rebuilt
  <2> QED
    BY <1>1, <2>1, <2>2, TalkSame
<1>9. CASE FinishCompact
  <2>1. pc = "compacting" /\ journal' = journal /\ pc' \notin {"completed", "compacting"}
    BY <1>9, EmitQuietStep DEF FinishCompact
  <2>2. ReplayedMessages' = ReplayedMessages
    BY <2>1, Rebuilt
  <2> QED
    BY <1>1, <2>1, <2>2 DEF TalkMirrored
<1>10. CASE Interrupt \/ SessionOver \/ UNCHANGED vars \/ \E t \in running : ToolSettles(t)
  <2>1. UNCHANGED <<pc, messages, journal, current>>
    BY <1>10 DEF Interrupt, SessionOver, vars, ToolSettles, session
  <2>2. ReplayedMessages' = ReplayedMessages
    BY <2>1, Rebuilt
  <2> QED
    BY <1>1, <2>1, <2>2, TalkSame
<1>11. CASE CrashAndResume
  <2>1. messages' = ReplayedMessages /\ journal' = journal /\ pc' = "idle"
    BY <1>11 DEF CrashAndResume
  <2>2. ReplayedMessages' = ReplayedMessages
    BY <2>1, Rebuilt
  <2> QED
    BY <2>1, <2>2 DEF TalkMirrored
<1> QED
  BY <1>2, <1>4, <1>5, <1>6, <1>7, <1>8, <1>9, <1>10, <1>11, TalkMessages, TalkAssistant
     DEF Next, Step, LoopHead, Tools, Talkless

\* The turns' records are the replayed ones, but for the turn of run(), which the journal has
\* opened.
RecordMirrored ==
    faults = 0 =>
        \A t \in Turns :
            IF t = turn /\ pc \notin Outside
            THEN "turn.started" \in JournalTypes(t) /\ status[t] \in Open
            ELSE status[t] = ReplayedStatus(t)

\* The usage is the replayed one and what the turn of run() spent; a turn that was aborted
\* spent more than a replay knows of.
UsageMirrored ==
    faults = 0 =>
        ((\A t \in Turns : status[t] # "aborted") =>
            usage = ReplayedUsage + (IF pc \in Outside THEN 0 ELSE local.turnUsage))

\* A step inside a turn: it writes at most one event, which does not settle the turn.
LEMMA InsideTurn ==
  ASSUME TypeInv, TypeInv', RecordMirrored, UsageMirrored, pc \notin Outside, turn' = turn,
         faults' = 0 => faults = 0,
         faults' = 0 => /\ pc' \notin Outside /\ status'[turn] \in Open
                        /\ \A t \in Turns : t # turn => status'[t] = status[t]
                        /\ usage' + local.turnUsage = usage + local'.turnUsage
                        /\ \/ journal' = journal
                           \/ \E e \in Events : /\ journal' = Append(journal, e)
                                                /\ e.turn = turn /\ e.type # "turn.completed"
  PROVE  RecordMirrored' /\ UsageMirrored'
<1>1. SUFFICES ASSUME faults' = 0 PROVE RecordMirrored' /\ UsageMirrored'
  BY DEF RecordMirrored, UsageMirrored
<1>2. /\ faults = 0 /\ pc' \notin Outside /\ status'[turn] \in Open /\ turn \in Turns
      /\ journal \in Seq(Events) /\ usage \in Nat /\ usage' \in Nat
      /\ local.turnUsage \in Nat /\ local'.turnUsage \in Nat
  BY <1>1 DEF TypeInv, TypeOK, Locals, Outside
<1>3. /\ \A t \in Turns : t # turn => JournalTypes(t)' = JournalTypes(t)
      /\ \A t \in Turns : JournalTypes(t) \subseteq JournalTypes(t)'
      /\ ReplayedUsage' = ReplayedUsage /\ ReplayedUsage \in Nat
  <2>1. CASE journal' = journal
    BY <1>2, <2>1, TypesKept, ReplayTypes
  <2>2. ASSUME NEW e \in Events, journal' = Append(journal, e), e.turn = turn,
               e.type # "turn.completed"
        PROVE  /\ \A t \in Turns : t # turn => JournalTypes(t)' = JournalTypes(t)
               /\ \A t \in Turns : JournalTypes(t) \subseteq JournalTypes(t)'
               /\ ReplayedUsage' = ReplayedUsage /\ ReplayedUsage \in Nat
    <3>1. /\ \A t \in Turns : t # turn => JournalTypes(t)' = JournalTypes(t)
          /\ \A t \in Turns : JournalTypes(t) \subseteq JournalTypes(t)'
      <4>1. \A t \in Turns :
                JournalTypes(t)' = JournalTypes(t) \cup (IF e.turn = t THEN {e.type} ELSE {})
        BY <1>2, <2>2, TypesGrow
      <4>2. \A t \in Turns : t # turn => e.turn # t
        BY <2>2
      <4> QED
        BY <4>1, <4>2
    <3>2. Usage(journal') = Usage(journal) + 0 /\ Usage(journal) \in Nat
      BY <1>2, <2>2, UsageAppend, UsageNat DEF Spent
    <3> QED
      BY <3>1, <3>2, Rebuilt
  <2> QED
    BY <1>1, <2>1, <2>2
<1>4. RecordMirrored'
  BY <1>1, <1>2, <1>3 DEF RecordMirrored, ReplayedStatus
<1>5. UsageMirrored'
  <2>1. SUFFICES ASSUME \A t \in Turns : status'[t] # "aborted"
                 PROVE  usage' = ReplayedUsage' + local'.turnUsage
    BY <1>2 DEF UsageMirrored
  <2>2. status[turn] # "aborted"
    BY <1>2 DEF RecordMirrored, Open
  <2>3. \A t \in Turns : status[t] # "aborted"
    BY <1>1, <2>1, <2>2
  <2>4. usage = ReplayedUsage + local.turnUsage
    BY <1>2, <2>3 DEF UsageMirrored
  <2>5. usage' + local.turnUsage = usage + local'.turnUsage
    BY <1>1
  <2>6. /\ usage \in Nat /\ usage' \in Nat /\ ReplayedUsage \in Nat /\ ReplayedUsage' = ReplayedUsage
        /\ local.turnUsage \in Nat /\ local'.turnUsage \in Nat
    BY <1>2, <1>3
  <2>7. usage' = ReplayedUsage + local'.turnUsage
    BY ONLY <2>4, <2>5, <2>6
  <2> QED
    BY <2>6, <2>7
<1> QED
  BY <1>4, <1>5

\* An assistant message is counted in the session and in its turn.
LEMMA SpendingSteps ==
  ASSUME local \in Locals, usage \in Nat, Keeping
  PROVE  usage' + local.turnUsage = usage + local'.turnUsage
<1> USE DEF Locals
<1>0. local.turnUsage \in Nat
  OBVIOUS
<1>1. CASE StartTask \/ AppendUser \/ LoopAborted \/ RaiseBudget \/ RaiseLoopCap \/ StartStream
  BY <1>1 DEF StartTask, AppendUser, LoopAborted, RaiseBudget, RaiseLoopCap, StartStream, session
<1>2. CASE StreamAborted \/ CalleeThrows \/ AnnounceAssistant
  BY <1>2 DEF StreamAborted, CalleeThrows, AnnounceAssistant, session
<1>3. CASE AbortBudget
  BY <1>3 DEF AbortBudget, session
<1>4. CASE PickRoute
  BY <1>4 DEF PickRoute, session
<1>5. CASE \E ok \in BOOLEAN : StreamToolUse(ok)
  BY <1>5 DEF StreamToolUse, session
<1>6. CASE \E ok \in BOOLEAN : StreamEnds(ok)
  BY <1>6 DEF StreamEnds, session
<1>7. CASE InterruptedPartial
  BY <1>7 DEF InterruptedPartial, session
<1>8. CASE \E p \in Providers \cup {none} : InterruptedPlain(p)
  BY <1>8 DEF InterruptedPlain, session
<1>9. CASE AppendAssistant
  BY <1>0, <1>9 DEF AppendAssistant
<1>10. CASE RequestTools
  BY <1>10 DEF RequestTools, session
<1>11. CASE Catch
  BY <1>11 DEF Catch, session
<1> QED
  BY <1>1, <1>2, <1>3, <1>4, <1>5, <1>6, <1>7, <1>8, <1>9, <1>10, <1>11 DEF Keeping, Stream

\* The events written inside a turn.
LEMMA WrittenInside ==
  ASSUME TypeInv, Keeping \/ AppendResult, faults' = faults
  PROVE  \/ journal' = journal
         \/ \E e \in Events : /\ journal' = Append(journal, e)
                              /\ e.turn = turn /\ e.type # "turn.completed"
<1>1. faults \in Nat /\ current.tools \in SUBSET Nat
  BY DEF TypeInv, TypeOK
<1>2. ASSUME NEW e \in Events, NEW next, NEW handler, Emit(e, next, handler),
             e.turn = turn, e.type # "turn.completed"
      PROVE  \E x \in Events : /\ journal' = Append(journal, x)
                               /\ x.turn = turn /\ x.type # "turn.completed"
  BY <1>1, <1>2, EmitStep
<1>3. ASSUME turn \in Turns, NEW m \in Messages, NEW next, NEW handler,
             Emit(MessageAppended(m), next, handler)
      PROVE  \E x \in Events : /\ journal' = Append(journal, x)
                               /\ x.turn = turn /\ x.type # "turn.completed"
  <2>1. /\ MessageAppended(m) \in Events /\ MessageAppended(m).turn = turn
        /\ MessageAppended(m).type # "turn.completed"
    BY <1>3, EventTypes DEF MessageAppended
  <2> QED
    BY <1>2, <1>3, <2>1
<1>4. CASE StartTask
  <2>1. /\ TaskEvent("task.started") \in Events /\ TaskEvent("task.started").turn = turn
        /\ TaskEvent("task.started").type # "turn.completed"
    BY <1>4, EventTypes DEF TaskEvent, StartTask, TypeInv
  <2> QED
    BY <1>2, <1>4, <2>1 DEF StartTask
<1>5. CASE AppendUser
  <2>1. turn \in Turns /\ UserMessage \in Messages
    BY <1>1, <1>5, MessageTypes DEF AppendUser, TypeInv
  <2> QED
    BY <1>3, <1>5, <2>1 DEF AppendUser
<1>6. CASE AnnounceAssistant
  <2>1. turn \in Turns /\ Assistant(current.tools) \in Messages
    BY <1>1, <1>6, MessageTypes DEF AnnounceAssistant, TypeInv
  <2> QED
    BY <1>3, <1>6, <2>1 DEF AnnounceAssistant
<1>7. CASE AppendResult
  <2> DEFINE todo == current.tools \ Results(messages)
             t    == Min(todo)
  <2>1. /\ pc # "idle" /\ todo # {}
        /\ Emit(MessageAppended(ToolResult(t)), IF todo = {t} THEN "loop" ELSE "collect", "catch")
    BY <1>7 DEF AppendResult
  <2>2. t \in Nat
    BY <1>1, <2>1, MinOfNat
  <2> HIDE DEF t, todo
  <2>3. turn \in Turns /\ ToolResult(t) \in Messages
    BY <2>1, <2>2, MessageTypes DEF TypeInv
  <2> QED
    BY <1>3, <2>1, <2>3
<1>8. CASE Quiet
  BY <1>8, QuietSteps
<1> QED
  BY <1>4, <1>5, <1>6, <1>7, <1>8 DEF Keeping, Quiet

LEMMA MirrorInside ==
  ASSUME TypeInv, TypeInv', RecordMirrored, UsageMirrored, [Next]_vars,
         Keeping \/ AppendResult \/ BeginCompact \/ FinishCompact \/ StartTools
  PROVE  RecordMirrored' /\ UsageMirrored'
<1>1. /\ faults \in Nat /\ (faults' = 0 => faults = 0) /\ usage \in Nat /\ local \in Locals
      /\ status \in [Turns -> {"none", "streaming", "compacting", "done", "aborted"}]
      /\ local.turnUsage \in Nat
  <2>1. faults \in Nat /\ (faults' = 0 => faults = 0)
    BY FaultsCount DEF TypeInv, TypeOK
  <2>2. /\ usage \in Nat /\ local \in Locals
        /\ status \in [Turns -> {"none", "streaming", "compacting", "done", "aborted"}]
    BY DEF TypeInv, TypeOK
  <2> QED
    BY <2>1, <2>2 DEF Locals
<1>2. pc \notin Outside /\ turn' = turn
  <2>1. CASE Keeping
    BY <2>1, KeepingSteps
  <2>2. CASE AppendResult \/ BeginCompact \/ FinishCompact \/ StartTools
    BY <2>2 DEF AppendResult, BeginCompact, FinishCompact, StartTools, session, Outside
  <2> QED
    BY <2>1, <2>2
<1>3. turn \in Turns
  BY <1>2 DEF TypeInv, Outside
<1>4. faults = 0 => status[turn] \in Open
  BY <1>2, <1>3 DEF RecordMirrored
<1>5. SUFFICES ASSUME faults' = 0
               PROVE  /\ pc' \notin Outside /\ status'[turn] \in Open
                      /\ \A t \in Turns : t # turn => status'[t] = status[t]
                      /\ usage' + local.turnUsage = usage + local'.turnUsage
                      /\ \/ journal' = journal
                         \/ \E e \in Events : /\ journal' = Append(journal, e)
                                              /\ e.turn = turn /\ e.type # "turn.completed"
  BY <1>1, <1>2, InsideTurn
<1>6. faults = 0 /\ faults' = faults /\ status[turn] \in Open
  BY <1>1, <1>4, <1>5
<1>7. CASE Keeping
  <2>1. pc' \notin Outside /\ status' = status
    BY <1>6, <1>7, KeepingSteps
  <2> QED
    BY <1>1, <1>6, <1>7, <2>1, SpendingSteps, WrittenInside
<1>8. CASE AppendResult
  <2>1. PICK e, next : Emit(e, next, "catch") /\ next \in {"loop", "collect"}
    BY <1>8 DEF AppendResult
  <2>2. pc' \notin Outside
    BY <2>1, EmitStep DEF Outside
  <2>3. UNCHANGED <<status, usage, local>>
    BY <1>8 DEF AppendResult
  <2> QED
    BY <1>1, <1>6, <1>8, <2>2, <2>3, WrittenInside
<1>9. CASE BeginCompact \/ FinishCompact
  <2>1. /\ UNCHANGED <<usage, local, journal>> /\ pc' \notin Outside
        /\ \E x \in Open : status' = [status EXCEPT ![turn] = x]
    BY <1>9, EmitQuietStep DEF BeginCompact, FinishCompact, Outside, Open
  <2> QED
    BY <1>1, <1>3, <2>1
<1>10. CASE StartTools
  <2>1. UNCHANGED <<usage, local, journal, status>> /\ pc' \notin Outside
    BY <1>6, <1>10 DEF StartTools, Outside, session, Rejected
  <2> QED
    BY <1>1, <1>6, <2>1
<1> QED
  BY <1>7, <1>8, <1>9, <1>10

\* The turn ends: what it spent goes to the journal, unless it is aborted.
LEMMA MirrorEndTurn ==
  ASSUME TypeInv, JournalInv, RecordMirrored, UsageMirrored, EndTurn
  PROVE  RecordMirrored' /\ UsageMirrored'
<1> DEFINE e == IF Aborts THEN TurnAborted(Reason) ELSE TurnCompleted(local.turnUsage)
           next == IF TaskRun THEN "ended" ELSE "idle"
<1>1. /\ turn \in Turns /\ turn' = turn /\ journal \in Seq(Events) /\ pc \notin Outside
      /\ faults \in Nat /\ local.turnUsage \in Nat
      /\ Emit(e, next, "idle") /\ next \in Outside /\ usage' = usage
      /\ status' = [status EXCEPT ![turn] = IF Aborts THEN "aborted" ELSE "done"]
      /\ status \in [Turns -> {"none", "streaming", "compacting", "done", "aborted"}]
  BY DEF EndTurn, TypeInv, TypeOK, Outside, Locals
<1>2. e \in Events /\ e.turn = turn
  <2>1. /\ TurnAborted(Reason) \in Events /\ TurnAborted(Reason).turn = turn
        /\ TurnCompleted(local.turnUsage) \in Events
        /\ TurnCompleted(local.turnUsage).turn = turn
    BY <1>1, EventTypes DEF TurnAborted, TurnCompleted
  <2> QED
    BY <2>1
<1>3. /\ e.type = (IF Aborts THEN "turn.aborted" ELSE "turn.completed")
      /\ ~Aborts => Spent(e) = local.turnUsage
  BY DEF TurnAborted, TurnCompleted, Spent
<1> HIDE DEF e, next
<1>4. SUFFICES ASSUME faults' = 0 PROVE RecordMirrored' /\ UsageMirrored'
  BY DEF RecordMirrored, UsageMirrored
<1>5. faults = 0 /\ journal' = Append(journal, e) /\ pc' \in Outside
  BY <1>1, <1>4, EmitStep
<1>6. \A t \in Turns :
          JournalTypes(t)' = JournalTypes(t) \cup (IF e.turn = t THEN {e.type} ELSE {})
  BY <1>1, <1>5, TypesGrow
<1>7. "turn.completed" \notin JournalTypes(turn)
  BY <1>1 DEF JournalInv, JournalTypes, OpenTypes
<1>8. RecordMirrored'
  <2>1. ASSUME NEW t \in Turns, t # turn PROVE status'[t] = ReplayedStatus(t)'
    <3>1. JournalTypes(t)' = JournalTypes(t) /\ status'[t] = status[t]
      BY <1>1, <1>2, <1>6, <2>1
    <3>2. status[t] = ReplayedStatus(t)
      BY <1>5, <2>1 DEF RecordMirrored
    <3> QED
      BY <3>1, <3>2 DEF ReplayedStatus
  <2>2. status'[turn] = (IF Aborts THEN "aborted" ELSE "done")
    BY <1>1
  <2>3. ASSUME NEW t \in Turns, t = turn PROVE status'[t] = ReplayedStatus(t)'
    <3>1. "turn.started" \in JournalTypes(t) /\ "turn.completed" \notin JournalTypes(t)
      BY <1>1, <1>5, <1>7, <2>3 DEF RecordMirrored
    <3>2. JournalTypes(t)' = JournalTypes(t) \cup {e.type}
      BY <1>2, <1>6, <2>3
    <3> QED
      BY <1>3, <2>2, <2>3, <3>1, <3>2 DEF ReplayedStatus
  <2> QED
    BY <1>5, <2>1, <2>3 DEF RecordMirrored
<1>9. UsageMirrored'
  <2>1. SUFFICES ASSUME \A t \in Turns : status'[t] # "aborted"
                 PROVE  usage' = ReplayedUsage' + 0
    BY <1>5 DEF UsageMirrored
  <2>2. ~Aborts
    BY <1>1, <2>1
  <2>3. status[turn] # "aborted"
    BY <1>1, <1>5 DEF RecordMirrored, Open
  <2>4. \A t \in Turns : status[t] # "aborted"
    BY <1>1, <2>1, <2>3
  <2>5. usage = ReplayedUsage + local.turnUsage
    BY <1>1, <1>5, <2>4 DEF UsageMirrored
  <2>6. Usage(journal') = Usage(journal) + local.turnUsage /\ Usage(journal) \in Nat
    BY <1>1, <1>2, <1>3, <1>5, <2>2, UsageAppend, UsageNat
  <2> QED
    BY <1>1, <2>5, <2>6, Rebuilt
<1> QED
  BY <1>8, <1>9

\* The outcome of a task is no outcome of its turn.
LEMMA MirrorEndTask ==
  ASSUME TypeInv, RecordMirrored, UsageMirrored, EndTask
  PROVE  RecordMirrored' /\ UsageMirrored'
<1> DEFINE e == TaskEvent(IF status[turn] = "aborted" THEN "task.failed" ELSE "task.completed")
<1>1. /\ turn \in Turns /\ journal \in Seq(Events) /\ pc \in Outside /\ faults \in Nat
      /\ Emit(e, "idle", "idle") /\ UNCHANGED <<turn, status, usage>>
  BY DEF EndTask, TypeInv, TypeOK, Outside, session
<1>2. /\ e \in Events /\ Spent(e) = 0
      /\ e.type \notin {"turn.started", "turn.completed"}
  <2>1. /\ TaskEvent("task.failed") \in Events /\ TaskEvent("task.completed") \in Events
    BY <1>1, EventTypes
  <2>2. e.type \in {"task.failed", "task.completed"}
    BY DEF TaskEvent
  <2>3. e \in Events
    BY <2>1
  <2> HIDE DEF e
  <2> QED
    BY <2>2, <2>3 DEF Spent
<1> HIDE DEF e
<1>3. SUFFICES ASSUME faults' = 0 PROVE RecordMirrored' /\ UsageMirrored'
  BY DEF RecordMirrored, UsageMirrored
<1>4. faults = 0 /\ journal' = Append(journal, e) /\ pc' = "idle"
  BY <1>1, <1>3, EmitStep
<1>5. \A t \in Turns : ReplayedStatus(t)' = ReplayedStatus(t)
  <2>1. \A t \in Turns :
            JournalTypes(t)' = JournalTypes(t) \cup (IF e.turn = t THEN {e.type} ELSE {})
    BY <1>1, <1>4, TypesGrow
  <2> QED
    BY <1>2, <2>1 DEF ReplayedStatus
<1>6. RecordMirrored'
  BY <1>1, <1>4, <1>5 DEF RecordMirrored, Outside
<1>7. Usage(journal') = Usage(journal) + 0 /\ Usage(journal) \in Nat
  BY <1>1, <1>2, <1>4, UsageAppend, UsageNat
<1>8. UsageMirrored'
  BY <1>1, <1>4, <1>7, Rebuilt DEF UsageMirrored, Outside
<1> QED
  BY <1>6, <1>8

\* A turn starts: the journal knows nothing of it.
LEMMA MirrorRun ==
  ASSUME RunnerAssumption, TypeInv, JournalInv, RecordMirrored, UsageMirrored, Run
  PROVE  RecordMirrored' /\ UsageMirrored'
<1> DEFINE e == [TurnStarted EXCEPT !.turn = turn + 1]
<1>1. /\ turn \in 0..MaxTurns /\ MaxTurns \in Nat /\ turn < MaxTurns /\ pc = "idle"
      /\ turn' = turn + 1 /\ journal \in Seq(Events) /\ faults \in Nat /\ usage' = usage
      /\ Emit(e, "started", "idle") /\ local'.turnUsage = 0
      /\ status' = [status EXCEPT ![turn + 1] = "streaming"]
      /\ status \in [Turns -> {"none", "streaming", "compacting", "done", "aborted"}]
  BY RunnerAssumption DEF Run, TypeInv, TypeOK, RunnerAssumption, FreshLocal
<1>2. turn + 1 \in Turns
  BY SMTT(40), <1>1 DEF Turns
<1>3. e \in Events /\ Spent(e) = 0 /\ e.turn = turn + 1 /\ e.type = "turn.started"
  BY <1>2 DEF Events, TurnStarted, Spent
<1> HIDE DEF e
<1>4. SUFFICES ASSUME faults' = 0 PROVE RecordMirrored' /\ UsageMirrored'
  BY DEF RecordMirrored, UsageMirrored
<1>5. faults = 0 /\ journal' = Append(journal, e) /\ pc' = "started"
  BY <1>1, <1>4, EmitStep
<1>6. \A t \in Turns :
          JournalTypes(t)' = JournalTypes(t) \cup (IF e.turn = t THEN {e.type} ELSE {})
  BY <1>1, <1>5, TypesGrow
<1>7. status[turn + 1] = "none"
  <2>1. \A i \in DOMAIN journal : journal[i].turn # turn + 1
    <3> TAKE i \in DOMAIN journal
    <3>1. journal[i].turn <= turn /\ journal[i].turn \in Nat
      BY SMTT(40), <1>1, EventFields, ElementOfSeq DEF JournalInv, Turns
    <3> QED
      BY <1>1, <3>1
  <2>2. JournalTypes(turn + 1) = {}
    BY <2>1 DEF JournalTypes
  <2>3. status[turn + 1] = ReplayedStatus(turn + 1)
    BY <1>1, <1>2, <1>5 DEF RecordMirrored, Outside
  <2> QED
    BY <2>2, <2>3 DEF ReplayedStatus
<1>8. RecordMirrored'
  <2>1. ASSUME NEW t \in Turns, t # turn + 1 PROVE status'[t] = ReplayedStatus(t)'
    <3>1. JournalTypes(t)' = JournalTypes(t) /\ status'[t] = status[t]
      BY <1>1, <1>3, <1>6, <2>1
    <3>2. status[t] = ReplayedStatus(t)
      BY <1>1, <1>5, <2>1 DEF RecordMirrored, Outside
    <3> QED
      BY <3>1, <3>2 DEF ReplayedStatus
  <2>2. ASSUME NEW t \in Turns, t = turn + 1
        PROVE  "turn.started" \in JournalTypes(t)' /\ status'[t] \in Open
    BY <1>1, <1>3, <1>6, <2>2 DEF Open
  <2>3. turn' = turn + 1 /\ pc' \notin Outside
    BY <1>1, <1>5 DEF Outside
  <2> QED
    BY <2>1, <2>2, <2>3 DEF RecordMirrored
<1>9. UsageMirrored'
  <2>1. SUFFICES ASSUME \A t \in Turns : status'[t] # "aborted"
                 PROVE  usage' = ReplayedUsage' + 0
    BY <1>1, <1>5 DEF UsageMirrored, Outside
  <2>2. \A t \in Turns : status[t] # "aborted"
    BY <1>1, <1>7, <2>1
  <2>3. usage = ReplayedUsage + 0
    BY <1>1, <1>5, <2>2 DEF UsageMirrored, Outside
  <2>4. Usage(journal') = Usage(journal) + 0 /\ Usage(journal) \in Nat
    BY <1>1, <1>3, <1>5, UsageAppend, UsageNat
  <2> QED
    BY <1>1, <2>3, <2>4, Rebuilt
<1> QED
  BY <1>8, <1>9

LEMMA MirrorStep ==
  ASSUME RunnerAssumption, TypeInv, TypeInv', JournalInv, RecordMirrored, UsageMirrored,
         [Next]_vars
  PROVE  RecordMirrored' /\ UsageMirrored'
<1>1. CASE Interrupt \/ SessionOver \/ UNCHANGED vars \/ \E t \in running : ToolSettles(t)
  <2>1. UNCHANGED <<pc, turn, status, usage, local, journal, faults>>
    BY <1>1 DEF Interrupt, SessionOver, vars, ToolSettles, session, counters
  <2> QED
    BY <2>1, TypesKept DEF RecordMirrored, UsageMirrored
<1>2. CASE CrashAndResume
  <2>1. /\ pc' = "idle" /\ usage' = ReplayedUsage /\ journal' = journal /\ turn' = turn
        /\ \A t \in Turns : status'[t] = ReplayedStatus(t)
    BY <1>2 DEF CrashAndResume
  <2>2. /\ \A t \in Turns : ReplayedStatus(t)' = ReplayedStatus(t)
        /\ ReplayedUsage' = ReplayedUsage /\ ReplayedUsage \in Nat
    BY <2>1, TypesKept, ReplayTypes DEF TypeInv, TypeOK
  <2> QED
    BY <2>1, <2>2 DEF RecordMirrored, UsageMirrored, Outside
<1> QED
  BY <1>1, <1>2, MirrorInside, MirrorEndTurn, MirrorEndTask, MirrorRun
     DEF Next, Step, LoopHead, Tools, Keeping

\* For any journal a resume finds, whatever interrupts, exceptions, crashes and earlier resumes
\* wrote it, as long as no write was rejected: it rebuilds the conversation up to the first
\* compaction, less at most the message whose event is being written, and between turns the
\* turns' records, and the usage if no turn was aborted.
THEOREM ResumeRebuilds == Spec => []ReplayFollows
<1>1. RunnerAssumption /\ ContextAssumption
  BY RunnerAssumption, ContextAssumption
<1>2. Init => TypeInv /\ JournalInv /\ TalkMirrored /\ RecordMirrored /\ UsageMirrored
  <2>1. SUFFICES ASSUME Init
                 PROVE  TypeInv /\ JournalInv /\ TalkMirrored /\ RecordMirrored /\ UsageMirrored
    OBVIOUS
  <2>2. TypeInv /\ journal = <<>> /\ pc = "idle" /\ turn = 0 /\ messages = <<>> /\ usage = 0
    BY <2>1, <1>1, InitTypes DEF Init
  <2>3. JournalInv
    BY <2>2 DEF JournalInv, TurnJournal, Outside
  <2>4. ReplayedMessages = <<>> /\ ReplayedUsage = 0
    <3>1. Appended(journal) = {}
      BY <2>2 DEF Appended
    <3>2. journal \in Seq(Events) /\ ReplayedMessages \in Seq(Messages)
      BY <2>2, ReplayTypes DEF TypeInv, TypeOK
    <3>3. \A k \in DOMAIN ReplayedMessages : FALSE
      BY <3>1, <3>2, Rebuilt, ReplayedOf
    <3>4. ReplayedMessages = <<>>
      <4>1. /\ DOMAIN ReplayedMessages = 1..Len(ReplayedMessages)
            /\ Len(ReplayedMessages) \in Nat
        BY <3>2
      <4>2. Len(ReplayedMessages) = 0
        BY <3>3, <4>1
      <4> QED
        BY <3>2, <4>2
    <3>5. [i \in DOMAIN journal |-> Spent(journal[i])] = <<>>
      BY <2>2
    <3> QED
      BY <3>4, <3>5, Rebuilt DEF Usage, SumOf
  <2>5. \A t \in Turns : status[t] = ReplayedStatus(t)
    BY <2>1, <2>2 DEF Init, ReplayedStatus, JournalTypes
  <2> QED
    BY <2>2, <2>3, <2>4, <2>5 DEF TalkMirrored, RecordMirrored, UsageMirrored, Outside
<1>3. TypeInv /\ [Next]_vars => TypeInv'
  BY <1>1, StepTypes
<1>4. TypeInv /\ JournalInv /\ [Next]_vars => JournalInv'
  BY <1>1, JournalStep
<1>5. TypeInv /\ TalkMirrored /\ [Next]_vars => TalkMirrored'
  BY <1>1, TalkStep
<1>6. TypeInv /\ TypeInv' /\ JournalInv /\ RecordMirrored /\ UsageMirrored /\ [Next]_vars
          => RecordMirrored' /\ UsageMirrored'
  BY <1>1, MirrorStep
<1>7. TypeInv /\ TalkMirrored /\ RecordMirrored /\ UsageMirrored => ReplayFollows
  <2>1. SUFFICES ASSUME TypeInv, TalkMirrored, RecordMirrored, UsageMirrored, faults = 0
                 PROVE  ReplayFollows
    BY DEF ReplayFollows
  <2>2. ReplayedMessages \in Seq(Messages) /\ Assistant(current.tools) \in Messages
    BY <2>1, ReplayTypes, MessageTypes DEF TypeInv, TypeOK
  <2>3. ASSUME ~ShouldCompact(ReplayedMessages)
        PROVE  /\ IsPrefix(ReplayedMessages, messages)
               /\ pc \in {"loop", "stream", "idle"} => ReplayedMessages = messages
    <3>1. /\ IsPrefix(ReplayedMessages, Append(ReplayedMessages, Assistant(current.tools)))
      BY <2>2, PrefixAppend
    <3>2. IsPrefix(ReplayedMessages, ReplayedMessages)
      BY <2>2, PrefixOf
    <3> QED
      BY <2>1, <2>3, <3>1, <3>2 DEF TalkMirrored
  <2>4. ASSUME pc = "idle"
        PROVE  /\ \A t \in Turns : status[t] = ReplayedStatus(t)
               /\ "aborted" \notin {status[t] : t \in Turns} => ReplayedUsage = usage
    <3>1. ReplayedUsage \in Nat
      BY <2>1, ReplayTypes DEF TypeInv, TypeOK
    <3> QED
      BY <2>1, <2>4, <3>1 DEF RecordMirrored, UsageMirrored, Outside
  <2> QED
    BY <2>3, <2>4 DEF ReplayFollows
<1> QED
  BY <1>2, <1>3, <1>4, <1>5, <1>6, <1>7, PTL DEF Spec

=============================================================================
