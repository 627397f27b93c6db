--------------------------- MODULE SubagentProofs ---------------------------
(***************************************************************************)
(* Proofs about Subagent for any set of dispatch calls and any limit of    *)
(* the registry: its types, who may be shown as interrupted, what the      *)
(* journal tells of a run that the registry shows, and how far an abort    *)
(* reaches.                                                                *)
(***************************************************************************)
EXTENDS Subagent, ListsProofs

Rows == [id : Dispatches, status : Statuses]
Events == [type : {"dispatched", "settled"}, id : Dispatches, status : Statuses]

-----------------------------------------------------------------------------
(* The helpers of the registry *)

\* How many rows splice() removes
Dropped(s) == IF Len(s) > RunHistoryLimit THEN Len(s) - RunHistoryLimit ELSE 0

\* Limited keeps the last rows, at most RunHistoryLimit of them.
LEMMA LimitedOf ==
  ASSUME NEW S, NEW s \in Seq(S)
  PROVE  /\ Limited(s) \in Seq(S)
         /\ Dropped(s) \in Nat /\ Len(Limited(s)) = Len(s) - Dropped(s)
         /\ Len(Limited(s)) \in Nat /\ Len(Limited(s)) <= RunHistoryLimit
         /\ Len(s) > RunHistoryLimit => Len(Limited(s)) = RunHistoryLimit
         /\ \A i \in 1..Len(Limited(s)) : /\ Limited(s)[i] = s[i + Dropped(s)]
                                         /\ i + Dropped(s) \in 1..Len(s)
<1>1. RunHistoryLimit \in Nat /\ RunHistoryLimit > 0 /\ Len(s) \in Nat
  BY SubagentAssumption, LenProperties
<1>2. CASE Len(s) > RunHistoryLimit
  <2> DEFINE m == Len(s) - RunHistoryLimit + 1
  <2>1. m \in 1..(Len(s) + 1) /\ Len(s) \in (m - 1)..Len(s)
    BY <1>1, <1>2
  <2>2. /\ SubSeq(s, m, Len(s)) \in Seq(S) /\ Len(SubSeq(s, m, Len(s))) = RunHistoryLimit
        /\ \A i \in 1..RunHistoryLimit : SubSeq(s, m, Len(s))[i] = s[m + i - 1]
    BY <1>1, <2>1, SubSeqProperties
  <2>3. \A i \in 1..RunHistoryLimit : m + i - 1 = i + Dropped(s) /\ i + Dropped(s) \in 1..Len(s)
    BY <1>1, <1>2 DEF Dropped
  <2> QED
    BY <1>1, <1>2, <2>2, <2>3 DEF Limited, Dropped
<1>3. CASE Len(s) <= RunHistoryLimit
  <2>1. Limited(s) = s /\ Dropped(s) = 0
    BY <1>1, <1>3 DEF Limited, Dropped
  <2> QED
    BY <1>1, <1>3, <2>1
<1> QED
  BY <1>1, <1>2, <1>3

\* A non-empty set of positions has a last one.
LEMMA GreatestPosition ==
  ASSUME NEW n \in Nat, NEW K \in SUBSET (1..n), K # {}
  PROVE  \E i \in K : \A j \in K : j <= i
<1> DEFINE S == {n - j : j \in K}
<1>1. S \in SUBSET Nat /\ S # {}
  <2>1. \A j \in K : n - j \in Nat
    OBVIOUS
  <2> QED
    BY <2>1
<1>2. PICK x \in S : \A y \in S : x <= y
  BY <1>1, LeastNat
<1>3. PICK i \in K : x = n - i
  BY <1>2
<1>4. \A j \in K : n - i <= n - j
  BY <1>2, <1>3
<1> QED
  BY <1>4

\* LastEvent is the event at the greatest position of d.
LEMMA LastEventOf ==
  ASSUME journal \in Seq(Events), NEW d \in Dispatches, EventsOf(d) # {}
  PROVE  \E a \in EventsOf(d) : /\ LastEvent(d) = journal[a] /\ LastEvent(d) \in Events
                                /\ \A b \in EventsOf(d) : b <= a
<1>1. Len(journal) \in Nat /\ DOMAIN journal = 1..Len(journal)
  BY LenProperties
<1>2. EventsOf(d) \in SUBSET (1..Len(journal))
  BY <1>1 DEF EventsOf
<1>3. \E i \in EventsOf(d) : \A j \in EventsOf(d) : j <= i
  BY <1>1, <1>2, GreatestPosition
<1> DEFINE a == CHOOSE i \in EventsOf(d) : \A j \in EventsOf(d) : j <= i
<1>4. a \in EventsOf(d) /\ \A b \in EventsOf(d) : b <= a
  BY <1>3
<1>5. journal[a] \in Events
  BY <1>1, <1>2, <1>4, ElementOfSeq
<1> QED
  BY <1>4, <1>5 DEF LastEvent

LEMMA ReplayedType ==
  ASSUME journal \in Seq(Events), NEW d \in DispatchedRuns
  PROVE  d \in Dispatches /\ EventsOf(d) # {} /\ Replayed(d) \in Statuses
<1>1. PICK a \in DispatchedEvents : journal[a].id = d
  BY DEF DispatchedRuns
<1>2. a \in DOMAIN journal /\ journal[a] \in Events
  BY <1>1, ElementOfSeq, LenProperties DEF DispatchedEvents
<1>3. d \in Dispatches /\ a \in EventsOf(d)
  BY <1>1, <1>2 DEF Events, EventsOf
<1>4. LastEvent(d) \in Events
  BY <1>3, LastEventOf
<1> QED
  BY <1>3, <1>4 DEF Events, Replayed, Statuses

\* A known run has a row.
LEMMA RowOfKnown ==
  ASSUME NEW d \in Known
  PROVE  \E i \in DOMAIN runs : RowOf(d) = runs[i] /\ runs[i].id = d
<1>1. \E i \in DOMAIN runs : runs[i].id = d
  BY DEF Known
<1> QED
  BY <1>1 DEF RowOf

\* The position of the k-th dispatched event
At(k) == Position(DispatchedEvents, k)
Count == Cardinality(DispatchedEvents)

LEMMA DispatchedPositions ==
  ASSUME journal \in Seq(Events)
  PROVE  /\ Len(journal) \in Nat /\ DOMAIN journal = 1..Len(journal)
         /\ DispatchedEvents \in SUBSET (1..Len(journal)) /\ Count \in Nat
         /\ \A k \in 1..Count : At(k) \in DispatchedEvents
         /\ \A k, l \in 1..Count : k < l => At(k) < At(l)
         /\ \A a \in DispatchedEvents : \E k \in 1..Count : At(k) = a
<1>1. Len(journal) \in Nat /\ DOMAIN journal = 1..Len(journal)
  BY LenProperties
<1>2. DispatchedEvents \in SUBSET (1..Len(journal))
  BY <1>1 DEF DispatchedEvents
<1>3. Count \in Nat
  BY <1>1, <1>2, FinitePositions DEF Count
<1>4. \A a \in DispatchedEvents : Rank(DispatchedEvents, a) \in 1..Count
  BY <1>1, <1>2, RankRange DEF Count
<1> QED
  BY <1>1, <1>2, <1>3, <1>4, Positions DEF At, Count

\* The merged registry has one row for each dispatched event, in the order of the journal.
LEMMA MergedOf ==
  ASSUME journal \in Seq(Events), runs \in Seq(Rows), NEW known \in {{}, Known}
  PROVE  /\ Merged(known) \in Seq(Rows) /\ Len(Merged(known)) = Count
         /\ \A k \in 1..Count :
               LET d == journal[At(k)].id
               IN  /\ Merged(known)[k].id = d /\ d \in DispatchedRuns /\ d \in Dispatches
                   /\ d \in known => Merged(known)[k] = RowOf(d)
                   /\ d \notin known => Merged(known)[k] = Entry(d, Replayed(d))
<1> DEFINE K == DispatchedEvents
           es == Subsequence(journal, K)
           m == Merged(known)
<1>1. /\ Len(journal) \in Nat /\ DOMAIN journal = 1..Len(journal)
      /\ K \in SUBSET (1..Len(journal)) /\ Count \in Nat /\ \A k \in 1..Count : At(k) \in K
  BY DispatchedPositions
<1>2. es \in Seq(Events) /\ Len(es) = Count /\ \A k \in 1..Count : es[k] = journal[At(k)]
  BY <1>1, SubsequenceOf DEF At, Count
<1>3. DOMAIN es = 1..Count
  BY <1>2, LenProperties
<1>4. m = [k \in 1..Count |->
              IF es[k].id \in DispatchedRuns \ known THEN Entry(es[k].id, Replayed(es[k].id))
              ELSE RowOf(es[k].id)]
  <2>1. \A d \in DispatchedRuns \ known : RebuiltFrom(known)[d] = Replayed(d)
    BY DEF RebuiltFrom
  <2>2. DOMAIN RebuiltFrom(known) = DispatchedRuns \ known
    BY DEF RebuiltFrom
  <2> HIDE DEF es
  <2>3. m = [k \in DOMAIN es |->
              IF es[k].id \in DOMAIN RebuiltFrom(known)
              THEN Entry(es[k].id, RebuiltFrom(known)[es[k].id]) ELSE RowOf(es[k].id)]
    BY DEF Merged, es
  <2> QED
    BY <1>3, <2>1, <2>2, <2>3
<1>5. ASSUME NEW k \in 1..Count
      PROVE  LET d == journal[At(k)].id
             IN  /\ m[k] \in Rows /\ m[k].id = d /\ d \in DispatchedRuns /\ d \in Dispatches
                 /\ d \in known => m[k] = RowOf(d)
                 /\ d \notin known => m[k] = Entry(d, Replayed(d))
  <2> DEFINE d == journal[At(k)].id
  <2>1. d \in DispatchedRuns
    BY <1>1 DEF DispatchedRuns
  <2>2. d \in Dispatches /\ Replayed(d) \in Statuses
    BY <2>1, ReplayedType
  <2>3. es[k].id = d
    BY <1>2
  <2> HIDE DEF d, es, m
  <2>4. CASE d \in known
    <3>1. m[k] = RowOf(d)
      BY <1>4, <2>3, <2>4
    <3>2. \E i \in DOMAIN runs : RowOf(d) = runs[i] /\ runs[i].id = d
      BY <2>4, RowOfKnown
    <3>3. m[k] \in Rows /\ m[k].id = d
      BY <3>1, <3>2, ElementOfSeq, LenProperties
    <3> QED
      BY <2>1, <2>2, <2>4, <3>1, <3>3 DEF d
  <2>5. CASE d \notin known
    <3>1. m[k] = Entry(d, Replayed(d))
      BY <1>4, <2>1, <2>3, <2>5
    <3>2. m[k] \in Rows /\ m[k].id = d
      BY <2>2, <3>1 DEF Rows, Entry
    <3> QED
      BY <2>1, <2>2, <2>5, <3>1, <3>2 DEF d
  <2> QED
    BY <2>4, <2>5
<1> HIDE DEF m, es
<1>6. m \in [1..Count -> Rows]
  <2>1. \A k \in 1..Count : m[k] \in Rows
    BY <1>5
  <2> QED
    BY <1>4, <2>1
<1>7. m \in Seq(Rows) /\ Len(m) = Count
  BY <1>1, <1>6, SeqDef, LenProperties
<1> QED
  BY <1>5, <1>7 DEF m

-----------------------------------------------------------------------------
(* Types *)

LEMMA StatusType ==
  ASSUME NEW d \in Dispatches, NEW s \in {"completed", "partial", "failed", "cancelled"}
  PROVE  /\ FinalStatus(d, s) \in {"completed", "partial", "failed", "cancelled"}
         /\ SettledStatus(FinalStatus(d, s)) \in {"completed", "failed", "cancelled"}
BY DEF FinalStatus, SettledStatus

LEMMA SetStatusOf ==
  ASSUME runs \in Seq(Rows), NEW d \in Dispatches, NEW s \in Statuses
  PROVE  /\ SetStatus(d, s) \in Seq(Rows) /\ Len(SetStatus(d, s)) = Len(runs)
         /\ \A i \in DOMAIN runs : /\ SetStatus(d, s)[i].id = runs[i].id
                                   /\ SetStatus(d, s)[i] \in {runs[i], Entry(d, s)}
                                   /\ runs[i].id # d \/ d \in stale => SetStatus(d, s)[i] = runs[i]
                                   /\ runs[i].id = d /\ d \notin stale => SetStatus(d, s)[i].status = s
<1>1. Len(runs) \in Nat /\ DOMAIN runs = 1..Len(runs) /\ \A i \in DOMAIN runs : runs[i] \in Rows
  BY ElementOfSeq, LenProperties
<1>2. Entry(d, s) \in Rows /\ Entry(d, s).id = d /\ Entry(d, s).status = s
  BY DEF Entry, Rows
<1>3. SetStatus(d, s) \in [1..Len(runs) -> Rows]
  BY <1>1, <1>2 DEF SetStatus
<1>4. SetStatus(d, s) \in Seq(Rows) /\ Len(SetStatus(d, s)) = Len(runs)
  BY <1>1, <1>3, SeqDef, LenProperties
<1> QED
  BY <1>1, <1>2, <1>4 DEF SetStatus

\* emit() appends the event or leaves the journal as it is, and moves on.
LEMMA EmitIntoEffect ==
  ASSUME NEW d, NEW e, NEW next, NEW fail, EmitInto(d, e, next, fail), faults \in 0..MaxFaults
  PROVE  /\ journal' \in {journal, Append(journal, e)}
         /\ phase' \in {[phase EXCEPT ![d] = next], [phase EXCEPT ![d] = fail]}
         /\ faults' \in 0..MaxFaults
         /\ faults' = 0 => /\ faults = 0 /\ journal' = Append(journal, e)
                           /\ phase' = [phase EXCEPT ![d] = next]
BY SubagentAssumption DEF EmitInto

LEMMA AppendType ==
  ASSUME journal \in Seq(Events), NEW e \in Events, journal' \in {journal, Append(journal, e)}
  PROVE  journal' \in Seq(Events)
BY AppendProperties

LEMMA EventTypes ==
  ASSUME NEW d \in Dispatches
  PROVE  /\ Dispatched(d) \in Events
         /\ \A s \in Statuses : Settled(d, s) \in Events
BY DEF Dispatched, Settled, Events, Statuses

LEMMA TypeStep == TypeOK /\ [Next]_vars => TypeOK'
<1> SUFFICES ASSUME TypeOK, [Next]_vars PROVE TypeOK'
  OBVIOUS
<1> DEFINE T == TypeOK'
<1>0. /\ runs \in Seq(Rows) /\ journal \in Seq(Events) /\ faults \in 0..MaxFaults
      /\ phase \in [Dispatches -> Phases]
  BY DEF TypeOK, Rows, Events
<1>1. ASSUME NEW d \in Dispatches, NEW p \in Dispatches \cup {root},
             NEW requested \in 0..(DefaultBudget + 1), Dispatch(d, p, requested)
      PROVE  T
  <2>1. DepthOf(p) \in 0..MaxDepth
    BY SMTT(40), SubagentAssumption DEF TypeOK, DepthOf
  <2>2. /\ depth' \in [Dispatches -> 0..MaxDepth] /\ parent' \in [Dispatches -> Dispatches \cup {root}]
        /\ budget' \in [Dispatches -> 0..DefaultBudget]
    <3>1. CASE depth' = depth /\ parent' = parent /\ budget' = budget
      BY <3>1 DEF TypeOK
    <3>2. CASE /\ ~(DepthOf(p) >= MaxDepth) /\ ~ExceedsDefault(requested)
               /\ parent' = [parent EXCEPT ![d] = p]
               /\ depth' = [depth EXCEPT ![d] = DepthOf(p) + 1]
               /\ budget' = [budget EXCEPT ![d] = ResolvedBudget(requested)]
      <4>1. DepthOf(p) + 1 \in 0..MaxDepth /\ ResolvedBudget(requested) \in 0..DefaultBudget
        BY <2>1, <3>2, SubagentAssumption DEF ExceedsDefault, ResolvedBudget
      <4> QED
        BY <3>2, <4>1 DEF TypeOK
    <3> QED
      BY <1>1, <3>1, <3>2 DEF Dispatch
  <2>3. phase' \in [Dispatches -> Phases] /\ outcome' \in [Dispatches -> Outcomes]
    BY <1>1 DEF Dispatch, TypeOK, Phases, Live, Outcomes
  <2> QED
    BY <1>1, <2>2, <2>3 DEF Dispatch, TypeOK, registry, signals, counters
<1>2. ASSUME NEW d \in Dispatches, Create(d) PROVE T
  <2>1. runs' \in Seq(Rows) /\ Len(runs') <= RunHistoryLimit
    <3>1. Entry(d, "running") \in Rows
      BY DEF Entry, Rows, Statuses
    <3>2. Append(runs, Entry(d, "running")) \in Seq(Rows)
      BY <1>0, <3>1, AppendProperties
    <3> QED
      BY <1>0, <1>2, <3>2, LimitedOf DEF Create, TypeOK
  <2>2. /\ journal' \in Seq(Events) /\ faults' \in 0..MaxFaults
        /\ phase' \in {[phase EXCEPT ![d] = "announcing"], [phase EXCEPT ![d] = "done"]}
    BY <1>0, <1>2, EmitIntoEffect, EventTypes, AppendType DEF Create
  <2>3. phase' \in [Dispatches -> Phases] /\ outcome' \in [Dispatches -> Outcomes]
    BY <1>2, <2>2 DEF Create, TypeOK, Phases, Live, Outcomes
  <2> QED
    BY <1>2, <2>1, <2>2, <2>3 DEF Create, TypeOK, signals, Rows, Events
<1>3. ASSUME NEW d \in Dispatches, StartRun(d) PROVE T
  BY <1>3 DEF StartRun, TypeOK, registry, counters, Phases, Live
<1>4. ASSUME NEW d \in Dispatches, RunRejects(d) PROVE T
  <2>1. faults' \in 0..MaxFaults
    BY <1>0, <1>4, SubagentAssumption DEF RunRejects
  <2>2. phase' \in [Dispatches -> Phases]
    BY <1>0, <1>4 DEF RunRejects, Phases, Live
  <2> QED
    BY <1>4, <2>1, <2>2 DEF RunRejects, TypeOK, registry, signals
<1>5. ASSUME NEW d \in Dispatches, CatchFailure(d) PROVE T
  <2> DEFINE s == FinalStatus(d, "failed")
  <2>1. s \in Statuses /\ SettledStatus(s) \in Statuses
    BY StatusType DEF Statuses
  <2>2. runs' \in Seq(Rows) /\ Len(runs') <= RunHistoryLimit
    BY <1>0, <1>5, <2>1, SetStatusOf DEF CatchFailure, TypeOK
  <2>3. journal' \in Seq(Events)
    BY <1>0, <1>5, <2>1, EventTypes, AppendType DEF CatchFailure
  <2>4. faults' \in 0..MaxFaults
    BY <1>0, <1>5, SubagentAssumption DEF CatchFailure
  <2>5. phase' \in [Dispatches -> Phases] /\ outcome' \in [Dispatches -> Outcomes]
    BY <1>5 DEF CatchFailure, TypeOK, Phases, Live, Outcomes
  <2> QED
    BY <1>5, <2>2, <2>3, <2>4, <2>5 DEF CatchFailure, TypeOK, signals, Rows, Events
<1>6. ASSUME NEW d \in Dispatches, Finally(d) PROVE T
  BY <1>6 DEF Finally, TypeOK, counters, Phases
<1>7. ASSUME NEW d \in Dispatches, NEW how \in Endings, RunResolves(d, how) PROVE T
  <2> DEFINE status == IF parent[d] \in aborted THEN "cancelled"
                       ELSE IF how = "done" THEN "completed" ELSE "partial"
             s == FinalStatus(d, status)
  <2>1. s \in Statuses /\ SettledStatus(s) \in Statuses /\ status \in Outcomes
    <3>1. status \in {"completed", "partial", "failed", "cancelled"}
      OBVIOUS
    <3> QED
      BY <3>1, StatusType DEF Statuses, Outcomes
  <2>2. /\ runs' = SetStatus(d, s) /\ outcome' = [outcome EXCEPT ![d] = status]
        /\ EmitInto(d, Settled(d, SettledStatus(s)), "settling", "catching")
        /\ marked' = marked \ {d}
        /\ UNCHANGED <<parent, depth, budget, active, signals, stale, cancels, crashes>>
    BY <1>7 DEF RunResolves
  <2> HIDE DEF status, s
  <2>3. runs' \in Seq(Rows) /\ Len(runs') <= RunHistoryLimit
    BY <1>0, <2>1, <2>2, SetStatusOf DEF TypeOK
  <2>4. /\ journal' \in Seq(Events) /\ faults' \in 0..MaxFaults
        /\ phase' \in {[phase EXCEPT ![d] = "settling"], [phase EXCEPT ![d] = "catching"]}
    BY <1>0, <2>1, <2>2, EmitIntoEffect, EventTypes, AppendType
  <2>5. phase' \in [Dispatches -> Phases] /\ outcome' \in [Dispatches -> Outcomes]
    BY <2>1, <2>2, <2>4 DEF TypeOK, Phases, Live
  <2> QED
    BY <2>2, <2>3, <2>4, <2>5 DEF TypeOK, signals, Rows, Events
<1>8. ASSUME NEW S \in {{d} : d \in Dispatches} \cup {active}, Cancel(S) PROVE T
  <2>1. Cascade(Cascade(Cascade(S))) \subseteq Dispatches
    BY <1>8 DEF Cancel, Cascade, Heard, TypeOK
  <2>2. S \subseteq Dispatches /\ MaxCancels \in Nat
    BY SMTT(40), <1>8, SubagentAssumption DEF TypeOK
  <2>3. /\ cancels < MaxCancels /\ cancels' = cancels + 1 /\ marked' = marked \cup S
        /\ aborted' = aborted \cup Cascade(Cascade(Cascade(S)))
        /\ UNCHANGED <<work, active, runs, listening, outcome, stale, journal, faults, crashes>>
    BY <1>8 DEF Cancel, InterruptAll
  <2>4. cancels' \in 0..MaxCancels
    BY <2>2, <2>3 DEF TypeOK
  <2>5. marked' \subseteq Dispatches /\ aborted' \subseteq Dispatches \cup {root}
    BY <2>1, <2>2, <2>3 DEF TypeOK
  <2> QED
    BY <2>3, <2>4, <2>5 DEF TypeOK, work
<1>9. CASE AbortRoot
  <2>1. Cascade(Cascade(Heard({d \in listening : parent[d] = root}))) \subseteq Dispatches
    BY DEF Cascade, Heard, TypeOK
  <2> QED
    BY <1>9, <2>1 DEF AbortRoot, TypeOK, work, registry, counters
<1>10. CASE Rebuild
  <2>1. runs' \in Seq(Rows) /\ Len(runs') <= RunHistoryLimit
    BY <1>0, <1>10, MergedOf, LimitedOf DEF Rebuild
  <2> QED
    BY <1>10, <2>1 DEF Rebuild, TypeOK, work, signals, counters, Rows
<1>11. CASE Crash
  <2>1. runs' \in Seq(Rows) /\ Len(runs') <= RunHistoryLimit
    BY <1>0, <1>11, MergedOf, LimitedOf DEF Crash
  <2>2. phase' \in [Dispatches -> Phases]
    BY <1>11 DEF Crash, TypeOK, Phases, Live
  <2>3. crashes' \in 0..MaxCrashes
    BY <1>11, SubagentAssumption DEF Crash, TypeOK
  <2> QED
    BY <1>11, <2>1, <2>2, <2>3 DEF Crash, TypeOK, Rows
<1>12. CASE Reload
  <2>1. runs' \in Seq(Rows) /\ Len(runs') <= RunHistoryLimit
    BY <1>0, <1>12, LimitedOf DEF Reload, InheritedRuns
  <2>2. stale' \subseteq Dispatches
    BY <1>12 DEF Reload, TypeOK
  <2> QED
    BY <1>12, <2>1, <2>2 DEF Reload, TypeOK, work, signals, Rows
<1>13. CASE UNCHANGED vars
  BY <1>13 DEF vars, work, registry, signals, counters, TypeOK
<1>14. AllSettled => UNCHANGED vars
  BY DEF AllSettled
<1> QED
  BY <1>1, <1>2, <1>3, <1>4, <1>5, <1>6, <1>7, <1>8, <1>9, <1>10, <1>11, <1>12, <1>13, <1>14
  DEF Next, DispatchStep

LEMMA TypeInit == Init => TypeOK
<1> SUFFICES ASSUME Init PROVE TypeOK
  OBVIOUS
<1>1. runs \in Seq(Rows) /\ Len(runs) = 0 /\ journal \in Seq(Events)
  BY EmptySeq DEF Init
<1> QED
  BY <1>1, SubagentAssumption DEF Init, TypeOK, Phases, Live, Outcomes, Rows, Events

-----------------------------------------------------------------------------
(***************************************************************************)
(* How deep a run is, and how far an abort reaches.  A run that has a      *)
(* session is one level below its parent, and the parent had one before:   *)
(* with MaxDepth at most 3, the rounds of an interrupt reach every         *)
(* descendant.                                                             *)
(***************************************************************************)
DepthInv ==
    \A d \in Dispatches :
        /\ phase[d] \in Live => depth[d] > 0
        /\ depth[d] > 0 => /\ phase[d] # "unused"
                           /\ depth[d] = DepthOf(parent[d]) + 1
                           /\ parent[d] = root \/ depth[parent[d]] > 0

\* Every step but dispatch() leaves the tree of runs alone, and starts none.
LEMMA TreeUnchanged ==
  ASSUME TypeOK, [Next]_vars,
         ~\E d \in Dispatches, p \in Dispatches \cup {root}, requested \in 0..(DefaultBudget + 1) :
             Dispatch(d, p, requested)
  PROVE  /\ parent' = parent /\ depth' = depth
         /\ \A d \in Dispatches : /\ phase'[d] \in Live => phase[d] \in Live
                                  /\ phase'[d] = "unused" <=> phase[d] = "unused"
<1> DEFINE G == /\ parent' = parent /\ depth' = depth
                /\ \A d \in Dispatches : /\ phase'[d] \in Live => phase[d] \in Live
                                         /\ phase'[d] = "unused" <=> phase[d] = "unused"
<1> USE DEF Live
<1>0. phase \in [Dispatches -> Phases] /\ faults \in 0..MaxFaults
  BY DEF TypeOK
<1>1. ASSUME NEW d \in Dispatches, Create(d) PROVE G
  <2>1. phase' \in {[phase EXCEPT ![d] = "announcing"], [phase EXCEPT ![d] = "done"]}
    BY <1>0, <1>1, EmitIntoEffect DEF Create
  <2> QED
    BY <1>0, <1>1, <2>1 DEF Create
<1>2. ASSUME NEW d \in Dispatches, StartRun(d) \/ RunRejects(d) \/ CatchFailure(d) \/ Finally(d)
      PROVE  G
  BY <1>0, <1>2 DEF StartRun, RunRejects, CatchFailure, Finally
<1>3. ASSUME NEW d \in Dispatches, NEW how \in Endings, RunResolves(d, how) PROVE G
  <2>1. \E e : EmitInto(d, e, "settling", "catching")
    BY <1>3 DEF RunResolves
  <2>2. phase' \in {[phase EXCEPT ![d] = "settling"], [phase EXCEPT ![d] = "catching"]}
    BY <1>0, <2>1, EmitIntoEffect
  <2> QED
    BY <1>0, <1>3, <2>2 DEF RunResolves
<1>4. ASSUME NEW S, Cancel(S) PROVE G
  BY <1>4 DEF Cancel, work
<1>5. CASE AbortRoot \/ Rebuild \/ Reload
  BY <1>5 DEF AbortRoot, Rebuild, Reload, work
<1>6. CASE Crash
  BY <1>0, <1>6 DEF Crash
<1>7. CASE AllSettled \/ UNCHANGED vars
  BY <1>7 DEF AllSettled, vars, work
<1> QED
  BY <1>1, <1>2, <1>3, <1>4, <1>5, <1>6, <1>7 DEF Next, DispatchStep

LEMMA DepthStep == TypeOK /\ DepthInv /\ [Next]_vars => DepthInv'
<1> SUFFICES ASSUME TypeOK, DepthInv, [Next]_vars PROVE DepthInv'
  OBVIOUS
<1>1. ASSUME NEW d \in Dispatches, NEW p \in Dispatches \cup {root},
             NEW requested \in 0..(DefaultBudget + 1), Dispatch(d, p, requested)
      PROVE  DepthInv'
  <2>0. /\ phase \in [Dispatches -> Phases] /\ depth \in [Dispatches -> 0..MaxDepth]
        /\ parent \in [Dispatches -> Dispatches \cup {root}] /\ root \notin Dispatches
    BY SubagentAssumption DEF TypeOK
  <2>1. phase[d] = "unused" /\ ~(depth[d] > 0) /\ (p = root \/ (p \in Dispatches /\ p # d /\ depth[p] > 0))
    BY <1>1 DEF Dispatch, DepthInv, Live
  <2>2. CASE phase' = [phase EXCEPT ![d] = "done"] /\ parent' = parent /\ depth' = depth
    BY <2>0, <2>1, <2>2 DEF DepthInv, DepthOf, Live
  <2>3. CASE /\ phase' = [phase EXCEPT ![d] = "creating"] /\ parent' = [parent EXCEPT ![d] = p]
             /\ depth' = [depth EXCEPT ![d] = DepthOf(p) + 1]
    <3>1. DepthOf(p) \in Nat /\ DepthOf(p)' = DepthOf(p)
      BY <2>0, <2>1, <2>3, SubagentAssumption DEF DepthOf
    <3>2. depth'[d] = DepthOf(p) + 1 /\ depth'[d] > 0 /\ parent'[d] = p /\ phase'[d] = "creating"
      BY <2>0, <2>3, <3>1
    <3>3. /\ depth'[d] = DepthOf(parent[d])' + 1
          /\ parent'[d] = root \/ depth'[parent'[d]] > 0
      BY <2>0, <2>1, <2>3, <3>1, <3>2 DEF DepthOf
    <3>4. ASSUME NEW c \in Dispatches, c # d
          PROVE  /\ phase'[c] \in Live => depth'[c] > 0
                 /\ depth'[c] > 0 => /\ phase'[c] # "unused"
                                     /\ depth'[c] = DepthOf(parent[c])' + 1
                                     /\ parent'[c] = root \/ depth'[parent'[c]] > 0
      <4>1. phase'[c] = phase[c] /\ depth'[c] = depth[c] /\ parent'[c] = parent[c]
        BY <2>0, <2>3, <3>4
      <4>2. depth[c] > 0 => parent[c] # d
        BY <2>0, <2>1 DEF DepthInv
      <4> QED
        BY <2>0, <2>3, <4>1, <4>2 DEF DepthInv, DepthOf
    <3> QED
      BY <3>2, <3>3, <3>4 DEF DepthInv
  <2> QED
    BY <1>1, <2>2, <2>3 DEF Dispatch
<1>2. CASE ~\E d \in Dispatches, p \in Dispatches \cup {root}, requested \in 0..(DefaultBudget + 1) :
               Dispatch(d, p, requested)
  BY <1>2, TreeUnchanged DEF DepthInv, DepthOf
<1> QED
  BY <1>1, <1>2

\* The listeners that fire when the signals of X are aborted
Children(X) == {c \in listening : phase[c] = "running" /\ parent[c] \in X \ aborted}

\* A round of Cascade adds the children of a set of running runs.
LEMMA CascadeRound ==
  ASSUME NEW X, \A x \in X : phase[x] = "running"
  PROVE  /\ Cascade(X) = X \cup Children(X)
         /\ \A x \in Cascade(X) : phase[x] = "running"
<1>1. Heard(X) = X
  BY DEF Heard
<1> QED
  BY <1>1 DEF Cascade, Heard, Children

LEMMA ChildDepth ==
  ASSUME TypeOK, DepthInv, NEW X \in SUBSET Dispatches, NEW c \in Children(X)
  PROVE  /\ c \in Dispatches /\ parent[c] \in X /\ depth[c] = depth[parent[c]] + 1
         /\ parent[c] \in Dispatches /\ depth[parent[c]] \in 1..2
<1>1. c \in Dispatches /\ parent[c] \in X /\ phase[c] = "running" /\ parent[c] # root
  BY SubagentAssumption DEF Children, TypeOK
<1>2. depth[c] > 0 /\ depth[c] = depth[parent[c]] + 1 /\ depth[parent[c]] > 0
  BY <1>1 DEF DepthInv, Live, DepthOf
<1>3. parent[c] \in Dispatches /\ depth[c] \in 0..MaxDepth /\ depth[parent[c]] \in 0..MaxDepth
  BY <1>1 DEF TypeOK
<1>4. MaxDepth \in 1..3
  BY SubagentAssumption
<1> QED
  BY <1>1, <1>2, <1>3, <1>4

\* Three rounds are enough for runs of any depth.
LEMMA CancelReaches ==
  ASSUME TypeOK, DepthInv, NEW S \in SUBSET Dispatches,
         NEW c \in listening, phase[c] = "running", parent[c] \notin aborted,
         parent[c] \in Cascade(Cascade(Cascade(S)))
  PROVE  c \in Cascade(Cascade(Cascade(S)))
<1> DEFINE X0 == Heard(S)
           X1 == X0 \cup Children(X0)
           X2 == X1 \cup Children(X1)
           X3 == X2 \cup Children(X2)
<1>0. X0 \in SUBSET Dispatches /\ listening \in SUBSET Dispatches /\ \A x \in X0 : phase[x] = "running"
  BY DEF Heard, TypeOK
<1>1. Cascade(S) = X1 /\ \A x \in X1 : phase[x] = "running"
  BY DEF Cascade, Heard, Children
<1>2. Cascade(X1) = X2 /\ \A x \in X2 : phase[x] = "running"
  <2> HIDE DEF X1
  <2> QED
    BY <1>1, CascadeRound
<1>3. Cascade(X2) = X3
  <2> HIDE DEF X2
  <2> QED
    BY <1>2, CascadeRound
<1>4. X1 \in SUBSET Dispatches /\ X2 \in SUBSET Dispatches
  BY <1>0 DEF Children
<1> DEFINE p == parent[c]
<1>5. CASE p \in X2
  <2>1. c \in Children(X2)
    BY <1>5 DEF Children
  <2> QED
    BY <1>1, <1>2, <1>3, <2>1
<1>6. CASE p \notin X2
  <2>1. p \in Children(X2)
    BY <1>1, <1>2, <1>3, <1>6
  <2> HIDE DEF p
  <2> DEFINE q == parent[p]
             r == parent[q]
             t == parent[r]
  <2>2. q \in X2 /\ depth[p] = depth[q] + 1 /\ depth[q] \in 1..2
    <3> HIDE DEF X2
    <3> QED
      BY <1>4, <2>1, ChildDepth
  <2>3. q \in Children(X1)
    <3>1. q \notin X1
      BY <1>6, <2>1 DEF Children
    <3> QED
      BY <2>2, <3>1
  <2>4. r \in X1 /\ depth[q] = depth[r] + 1 /\ depth[r] \in 1..2
    <3> HIDE DEF X1, q
    <3> QED
      BY <1>4, <2>3, ChildDepth
  <2>5. r \in Children(X0)
    <3>1. r \notin X0
      BY <2>1, <2>2, <2>3, <1>6 DEF Children
    <3> QED
      BY <2>4, <3>1
  <2>6. depth[r] = depth[t] + 1 /\ depth[t] \in 1..2
    <3> HIDE DEF X0, q, r
    <3> QED
      BY <1>0, <2>5, ChildDepth DEF t
  <2> QED
    BY <2>2, <2>4, <2>6
<1> QED
  BY <1>5, <1>6

\* Two rounds are, below the children of the root turn.
LEMMA RootAbortReaches ==
  ASSUME TypeOK, DepthInv,
         NEW c \in listening, phase[c] = "running", parent[c] \notin aborted,
         parent[c] \in {root} \cup Cascade(Cascade(Heard({d \in listening : parent[d] = root})))
  PROVE  c \in Cascade(Cascade(Heard({d \in listening : parent[d] = root})))
<1> DEFINE X0 == Heard({d \in listening : parent[d] = root})
           X1 == X0 \cup Children(X0)
           X2 == X1 \cup Children(X1)
           p == parent[c]
<1>0. X0 \in SUBSET Dispatches /\ listening \in SUBSET Dispatches /\ \A x \in X0 : phase[x] = "running"
  BY DEF Heard, TypeOK
<1>1. Cascade(X0) = X1 /\ \A x \in X1 : phase[x] = "running"
  <2> HIDE DEF X0
  <2> QED
    BY <1>0, CascadeRound
<1>2. Cascade(X1) = X2
  <2> HIDE DEF X1
  <2> QED
    BY <1>1, CascadeRound
<1>3. X1 \in SUBSET Dispatches
  BY <1>0 DEF Children
<1>4. CASE p = root
  <2>1. c \in X0
    BY <1>4 DEF Heard
  <2> QED
    BY <1>1, <1>2, <2>1
<1>5. CASE p \in X1
  <2>1. c \in Children(X1)
    BY <1>5 DEF Children
  <2> QED
    BY <1>1, <1>2, <2>1
<1>6. CASE p # root /\ p \notin X1
  <2>1. p \in Children(X1)
    BY <1>1, <1>2, <1>6
  <2>2. p \in Dispatches /\ depth[c] = depth[p] + 1 /\ depth[c] \in 0..3
    <3>1. p \in Dispatches
      BY <1>0, <2>1 DEF Children
    <3>2. c \in Dispatches /\ depth[c] > 0 /\ depth[c] = DepthOf(p) + 1
      BY <1>0 DEF DepthInv, Live
    <3>3. DepthOf(p) = depth[p]
      BY <1>6 DEF DepthOf
    <3>4. depth[c] \in 0..MaxDepth /\ MaxDepth \in 1..3
      BY <3>2, SubagentAssumption DEF TypeOK
    <3> QED
      BY <3>1, <3>2, <3>3, <3>4
  <2> HIDE DEF p
  <2> DEFINE q == parent[p]
             r == parent[q]
  <2>3. q \in X1 /\ depth[p] = depth[q] + 1
    <3> HIDE DEF X1
    <3> QED
      BY <1>3, <2>1, ChildDepth
  <2>4. q \in Children(X0)
    <3>1. q \notin X0
      BY <1>6, <2>1 DEF Children
    <3> QED
      BY <2>3, <3>1
  <2>5. depth[q] = depth[r] + 1 /\ depth[r] \in 1..2
    <3> HIDE DEF X0, q
    <3> QED
      BY <1>0, <2>4, ChildDepth DEF r
  <2> QED
    BY <2>2, <2>3, <2>5
<1> QED
  BY <1>2, <1>1, <1>4, <1>5, <1>6

LEMMA AbortReachesStep ==
  ASSUME TypeOK, DepthInv, [Next]_vars
  PROVE  [\A d \in listening :
             phase[d] = "running" /\ parent[d] \notin aborted /\ parent[d] \in aborted'
                 => d \in aborted']_vars
<1> SUFFICES ASSUME NEW d \in listening, phase[d] = "running", parent[d] \notin aborted,
                    parent[d] \in aborted'
             PROVE  d \in aborted'
  OBVIOUS
<1>1. ASSUME NEW S \in {{c} : c \in Dispatches} \cup {active}, Cancel(S) PROVE d \in aborted'
  <2>1. aborted' = aborted \cup Cascade(Cascade(Cascade(S))) /\ S \in SUBSET Dispatches
    BY <1>1 DEF Cancel, InterruptAll, TypeOK
  <2> QED
    BY <2>1, CancelReaches
<1>2. CASE AbortRoot
  <2> DEFINE R == Cascade(Cascade(Heard({c \in listening : parent[c] = root})))
  <2>1. aborted' = aborted \cup {root} \cup R
    BY <1>2 DEF AbortRoot
  <2>2. parent[d] \in {root} \cup R
    BY <2>1
  <2>3. d \in R
    BY <2>2, RootAbortReaches
  <2> QED
    BY <2>1, <2>3
<1>3. ASSUME NEW c \in Dispatches, DispatchStep(c) PROVE aborted' = aborted
  BY <1>3 DEF DispatchStep, Create, StartRun, RunRejects, CatchFailure, Finally, RunResolves, signals
<1>4. ASSUME NEW c \in Dispatches, NEW p \in Dispatches \cup {root},
             NEW requested \in 0..(DefaultBudget + 1), Dispatch(c, p, requested)
      PROVE  aborted' = aborted
  BY <1>4 DEF Dispatch, signals
<1>5. CASE Rebuild \/ Reload \/ AllSettled \/ UNCHANGED vars
  BY <1>5 DEF Rebuild, Reload, AllSettled, vars, signals
<1>6. Crash => aborted' = {}
  BY DEF Crash
<1> QED
  BY <1>1, <1>2, <1>3, <1>4, <1>5, <1>6 DEF Next

-----------------------------------------------------------------------------
(***************************************************************************)
(* The registry and the journal.  A run that the registry does not show    *)
(* was dropped from it: then the registry is full of later runs, and a     *)
(* rebuild that meets the event of the dropped run drops it again.  The    *)
(* order of the rows and the uniqueness of rows and events carry that      *)
(* through the steps.                                                      *)
(***************************************************************************)
Started(d) == phase[d] \notin {"unused", "creating"}

\* subagent.dispatched is written once, after the factory.
OneDispatched ==
    /\ \A a \in DOMAIN journal : Started(journal[a].id)
    /\ \A a, b \in DispatchedEvents : journal[a].id = journal[b].id => a = b

OneRow ==
    /\ \A i \in DOMAIN runs : Started(runs[i].id)
    /\ \A i, j \in DOMAIN runs : runs[i].id = runs[j].id => i = j

\* The rows are in the order of their events.
InOrder ==
    \A i, j \in DOMAIN runs, a, b \in DispatchedEvents :
        i < j /\ journal[a].id = runs[i].id /\ journal[b].id = runs[j].id => a < b

\* What is missing is older than all of a full registry.
Cut ==
    \A a \in DispatchedEvents :
        journal[a].id \notin Known \cup stale =>
            /\ Len(runs) = RunHistoryLimit
            /\ \A b \in DispatchedEvents : journal[b].id \in Known => a < b

RegistryInv == OneDispatched /\ OneRow /\ InOrder /\ Cut

\* What every step but Create, Rebuild and Crash does: the journal grows by settled events, the
\* rows stay, no run starts or comes back to life, and nothing becomes interrupted.
Quiet ==
    /\ \A a \in DOMAIN journal : a \in DOMAIN journal' /\ journal'[a] = journal[a]
    /\ \A a \in DOMAIN journal' :
          a \in DOMAIN journal \/ (journal'[a].type = "settled" /\ Started(journal[a].id)')
    /\ Len(runs') = Len(runs)
    /\ \A i \in DOMAIN runs : /\ runs'[i].id = runs[i].id
                              /\ runs'[i].status = "interrupted" => runs[i].status = "interrupted"
    /\ stale \subseteq stale'
    /\ \A d \in Dispatches : Started(d) => Started(d)'
    /\ \A d \in Dispatches : Started(d)' /\ phase'[d] \in Live => phase[d] \in Live

LEMMA Elements ==
  ASSUME TypeOK
  PROVE  /\ runs \in Seq(Rows) /\ Len(runs) \in Nat /\ DOMAIN runs = 1..Len(runs)
         /\ Len(runs) <= RunHistoryLimit
         /\ \A i \in DOMAIN runs : runs[i] \in Rows /\ runs[i].id \in Dispatches
         /\ journal \in Seq(Events) /\ Len(journal) \in Nat /\ DOMAIN journal = 1..Len(journal)
         /\ \A a \in DOMAIN journal : journal[a] \in Events /\ journal[a].id \in Dispatches
         /\ phase \in [Dispatches -> Phases] /\ faults \in 0..MaxFaults /\ stale \subseteq Dispatches
<1>1. /\ runs \in Seq(Rows) /\ journal \in Seq(Events) /\ Len(runs) <= RunHistoryLimit
      /\ phase \in [Dispatches -> Phases] /\ faults \in 0..MaxFaults /\ stale \subseteq Dispatches
  BY DEF TypeOK, Rows, Events
<1>2. Len(runs) \in Nat /\ DOMAIN runs = 1..Len(runs)
  BY <1>1, LenProperties
<1>3. Len(journal) \in Nat /\ DOMAIN journal = 1..Len(journal)
  BY <1>1, LenProperties
<1>4. \A i \in DOMAIN runs : runs[i] \in Rows
  BY <1>1, <1>2, ElementOfSeq
<1>5. \A a \in DOMAIN journal : journal[a] \in Events
  BY <1>1, <1>3, ElementOfSeq
<1>6. (\A r \in Rows : r.id \in Dispatches) /\ (\A e \in Events : e.id \in Dispatches)
  BY DEF Rows, Events
<1> QED
  BY <1>1, <1>2, <1>3, <1>4, <1>5, <1>6

\* An appended event is the last one.
LEMMA AppendOf ==
  ASSUME journal \in Seq(Events), NEW e \in Events, journal' = Append(journal, e)
  PROVE  /\ Len(journal) \in Nat /\ DOMAIN journal = 1..Len(journal)
         /\ DOMAIN journal' = 1..(Len(journal) + 1)
         /\ \A a \in DOMAIN journal : a \in DOMAIN journal' /\ journal'[a] = journal[a]
         /\ \A a \in DOMAIN journal' : a \in DOMAIN journal \/ a = Len(journal) + 1
         /\ Len(journal) + 1 \in DOMAIN journal' /\ journal'[Len(journal) + 1] = e
<1>1. Len(journal) \in Nat /\ DOMAIN journal = 1..Len(journal)
  BY LenProperties
<1>2. /\ Len(journal') = Len(journal) + 1 /\ journal'[Len(journal) + 1] = e
      /\ \A a \in 1..Len(journal) : journal'[a] = journal[a] /\ journal' \in Seq(Events)
  BY AppendProperties
<1>3. DOMAIN journal' = 1..(Len(journal) + 1)
  <2>1. journal' \in Seq(Events)
    BY AppendProperties
  <2> QED
    BY <1>2, <2>1, LenProperties
<1> QED
  BY <1>1, <1>2, <1>3

\* The status of a settled run goes into its row and its event.
LEMMA SettlingQuiet ==
  ASSUME TypeOK, NEW d \in Dispatches, phase[d] \in {"running", "catching"},
         NEW s \in {"completed", "partial", "failed", "cancelled"},
         runs' = SetStatus(d, FinalStatus(d, s)), stale' = stale,
         journal' \in {journal, Append(journal, Settled(d, SettledStatus(FinalStatus(d, s))))},
         phase' \in {[phase EXCEPT ![d] = "settling"], [phase EXCEPT ![d] = "catching"]}
  PROVE  Quiet
<1> DEFINE f == FinalStatus(d, s)
           e == Settled(d, SettledStatus(f))
<1>1. f \in Statuses \ {"interrupted"} /\ SettledStatus(f) \in Statuses
  BY StatusType DEF Statuses
<1> HIDE DEF f
<1>2. e \in Events /\ e.type = "settled" /\ e.id = d
  BY <1>1 DEF Settled, Events, Statuses
<1>3. runs \in Seq(Rows) /\ journal \in Seq(Events) /\ phase \in [Dispatches -> Phases]
  BY DEF TypeOK, Rows, Events
<1>4. /\ Len(runs') = Len(runs)
      /\ \A i \in DOMAIN runs : /\ runs'[i].id = runs[i].id
                                /\ runs'[i].status = "interrupted" => runs[i].status = "interrupted"
  <2>1. Entry(d, f).status = f
    BY DEF Entry
  <2> QED
    BY <1>1, <1>3, <2>1, SetStatusOf DEF f
<1>5. Started(d)' /\ \A c \in Dispatches : c # d => phase'[c] = phase[c]
  BY <1>3 DEF Started
<1>6. /\ \A a \in DOMAIN journal : a \in DOMAIN journal' /\ journal'[a] = journal[a]
      /\ \A a \in DOMAIN journal' :
            a \in DOMAIN journal \/ (journal'[a].type = "settled" /\ Started(journal[a].id)')
  <2>1. CASE journal' = Append(journal, e)
    <3> HIDE DEF e
    <3>1. /\ \A a \in DOMAIN journal : a \in DOMAIN journal' /\ journal'[a] = journal[a]
          /\ \A a \in DOMAIN journal' : a \in DOMAIN journal \/ journal'[a] = e
      BY <1>2, <1>3, <2>1, AppendOf
    <3>2. \A a \in DOMAIN journal' : journal'[a] = e => Started(journal[a].id)'
      BY <1>2, <1>5 DEF Started
    <3> QED
      BY <1>2, <3>1, <3>2
  <2>2. CASE journal' = journal
    BY <2>2
  <2> QED
    BY <2>1, <2>2 DEF f
<1> QED
  BY <1>4, <1>5, <1>6 DEF Quiet, Started, Live

LEMMA QuietSteps ==
  ASSUME TypeOK, [Next]_vars, ~\E d \in Dispatches : Create(d), ~Rebuild, ~Crash
  PROVE  Quiet
<1>0. phase \in [Dispatches -> Phases] /\ faults \in 0..MaxFaults
  BY DEF TypeOK
<1>1. ASSUME NEW d \in Dispatches, NEW p \in Dispatches \cup {root},
             NEW requested \in 0..(DefaultBudget + 1), Dispatch(d, p, requested)
      PROVE  Quiet
  BY <1>0, <1>1 DEF Dispatch, Quiet, Started, Live, registry
<1>2. ASSUME NEW d \in Dispatches, StartRun(d) \/ RunRejects(d) \/ Finally(d) PROVE Quiet
  BY <1>0, <1>2 DEF StartRun, RunRejects, Finally, Quiet, Started, Live, registry
<1>3. ASSUME NEW d \in Dispatches, CatchFailure(d) PROVE Quiet
  BY <1>0, <1>3, SettlingQuiet DEF CatchFailure
<1>4. ASSUME NEW d \in Dispatches, NEW how \in Endings, RunResolves(d, how) PROVE Quiet
  <2> DEFINE s == IF parent[d] \in aborted THEN "cancelled"
                  ELSE IF how = "done" THEN "completed" ELSE "partial"
             e == Settled(d, SettledStatus(FinalStatus(d, s)))
  <2>1. /\ s \in {"completed", "partial", "failed", "cancelled"} /\ phase[d] = "running"
        /\ runs' = SetStatus(d, FinalStatus(d, s)) /\ stale' = stale
        /\ EmitInto(d, e, "settling", "catching")
    BY <1>4 DEF RunResolves
  <2> HIDE DEF s
  <2>2. /\ journal' \in {journal, Append(journal, e)}
        /\ phase' \in {[phase EXCEPT ![d] = "settling"], [phase EXCEPT ![d] = "catching"]}
    <3> HIDE DEF e
    <3> QED
      BY <1>0, <2>1, EmitIntoEffect
  <2> QED
    BY <2>1, <2>2, SettlingQuiet
<1>5. ASSUME NEW S, Cancel(S) PROVE Quiet
  BY <1>5 DEF Cancel, Quiet, Started, work
<1>6. CASE AbortRoot \/ AllSettled \/ UNCHANGED vars
  BY <1>6 DEF AbortRoot, AllSettled, vars, Quiet, Started, work, registry
<1>7. CASE Reload
  <2>1. runs' = runs
    BY <1>7, SubagentAssumption DEF Reload, InheritedRuns, Limited, TypeOK
  <2> QED
    BY <1>7, <2>1 DEF Reload, Quiet, Started, work
<1> QED
  BY <1>1, <1>2, <1>3, <1>4, <1>5, <1>6, <1>7 DEF Next, DispatchStep

LEMMA QuietKeeps ==
  ASSUME TypeOK, TypeOK', RegistryInv, Quiet
  PROVE  RegistryInv' /\ Known' = Known /\ DispatchedEvents' = DispatchedEvents
<1>1. DOMAIN runs' = DOMAIN runs
  <2>1. runs \in Seq(Rows) /\ runs' \in Seq(Rows)
    BY DEF TypeOK, Rows
  <2> QED
    BY <2>1, LenProperties DEF Quiet
<1>2. Known' = Known
  BY <1>1 DEF Known, Quiet
<1>3. /\ DispatchedEvents' = DispatchedEvents
      /\ \A a \in DispatchedEvents : journal'[a] = journal[a]
  BY DEF DispatchedEvents, Quiet
<1>4. OneDispatched'
  <2>1. \A a \in DOMAIN journal : journal[a].id \in Dispatches
    BY Elements
  <2>2. \A a \in DOMAIN journal : Started(journal[a].id)' /\ journal'[a] = journal[a]
    BY <2>1 DEF OneDispatched, RegistryInv, Quiet
  <2>3. \A a \in DOMAIN journal' : Started(journal[a].id)'
    BY <2>2 DEF Quiet, Started
  <2>4. \A a, b \in DispatchedEvents' : journal'[a].id = journal'[b].id => a = b
    BY <1>3 DEF OneDispatched, RegistryInv
  <2> QED
    BY <2>3, <2>4 DEF OneDispatched
<1>5. OneRow'
  <2>1. \A i \in DOMAIN runs : runs[i].id \in Dispatches
    BY Elements
  <2> QED
    BY <1>1, <2>1 DEF OneRow, RegistryInv, Quiet
<1>6. InOrder'
  BY <1>1, <1>3 DEF InOrder, RegistryInv, Quiet
<1>7. Cut'
  BY <1>1, <1>2, <1>3 DEF Cut, RegistryInv, Quiet
<1> QED
  BY <1>2, <1>3, <1>4, <1>5, <1>6, <1>7 DEF RegistryInv

\* What a rebuild puts into the registry: the rows of the last dispatched events.
LEMMA RebuiltRows ==
  ASSUME TypeOK, NEW known \in {{}, Known}, runs' = Limited(Merged(known))
  PROVE  \E drop \in Nat :
            /\ Count \in Nat /\ Len(runs') \in Nat /\ Len(runs') = Count - drop
            /\ DOMAIN runs' = 1..Len(runs')
            /\ Count > RunHistoryLimit => Len(runs') = RunHistoryLimit
            /\ drop > 0 => Len(runs') = RunHistoryLimit
            /\ \A i \in DOMAIN runs' :
                  LET d == journal[At(i + drop)].id
                  IN  /\ i + drop \in 1..Count /\ At(i + drop) \in DispatchedEvents
                      /\ runs'[i].id = d /\ d \in DispatchedRuns
                      /\ d \in known => runs'[i] = RowOf(d)
                      /\ d \notin known => runs'[i] = Entry(d, Replayed(d))
<1> DEFINE m == Merged(known)
           drop == Dropped(m)
<1>1. runs \in Seq(Rows) /\ journal \in Seq(Events)
  BY Elements
<1>2. /\ m \in Seq(Rows) /\ Len(m) = Count
      /\ \A k \in 1..Count :
            LET d == journal[At(k)].id
            IN  /\ m[k].id = d /\ d \in DispatchedRuns
                /\ d \in known => m[k] = RowOf(d)
                /\ d \notin known => m[k] = Entry(d, Replayed(d))
  BY <1>1, MergedOf
<1>3. Count \in Nat /\ \A k \in 1..Count : At(k) \in DispatchedEvents
  BY <1>1, DispatchedPositions
<1> HIDE DEF m
<1>4. /\ runs' \in Seq(Rows) /\ drop \in Nat /\ Len(runs') = Count - drop /\ Len(runs') \in Nat
      /\ Count > RunHistoryLimit => Len(runs') = RunHistoryLimit
      /\ \A i \in 1..Len(runs') : runs'[i] = m[i + drop] /\ i + drop \in 1..Count
  BY <1>2, LimitedOf DEF m
<1>5. DOMAIN runs' = 1..Len(runs')
  BY <1>4, LenProperties
<1>6. drop > 0 => Len(runs') = RunHistoryLimit
  BY <1>2, <1>3, <1>4, SubagentAssumption DEF Dropped
<1> HIDE DEF drop
<1> QED
  BY <1>2, <1>3, <1>4, <1>5, <1>6

LEMMA MergeKeeps ==
  ASSUME TypeOK, OneDispatched, NEW known \in {{}, Known}, runs' = Limited(Merged(known)),
         journal' = journal, \A d \in Dispatches : Started(d) => Started(d)'
  PROVE  RegistryInv'
<1>1. PICK drop \in Nat :
         /\ Count \in Nat /\ Len(runs') \in Nat /\ Len(runs') = Count - drop
         /\ DOMAIN runs' = 1..Len(runs')
         /\ drop > 0 => Len(runs') = RunHistoryLimit
         /\ \A i \in DOMAIN runs' : /\ i + drop \in 1..Count /\ At(i + drop) \in DispatchedEvents
                                    /\ runs'[i].id = journal[At(i + drop)].id
  BY RebuiltRows
<1>2. /\ DispatchedEvents \subseteq DOMAIN journal /\ DOMAIN journal \subseteq Nat
      /\ \A k \in 1..Count : At(k) \in DispatchedEvents
      /\ \A k, l \in 1..Count : k < l => At(k) < At(l)
      /\ \A a \in DispatchedEvents : \E k \in 1..Count : At(k) = a
  BY Elements, DispatchedPositions
<1>3. DispatchedEvents' = DispatchedEvents
  BY DEF DispatchedEvents
<1>4. OneDispatched'
  BY <1>3, Elements DEF OneDispatched, Started
<1>5. \A k, l \in 1..Count : At(k) = At(l) => k = l
  <2>1. ASSUME NEW k \in 1..Count, NEW l \in 1..Count, At(k) = At(l) PROVE ~(k < l) /\ ~(l < k)
    BY <1>2, <2>1
  <2> QED
    BY <1>1, <2>1
\* The event of the i-th row is the only one of its run.
<1>6. ASSUME NEW i \in DOMAIN runs', NEW a \in DispatchedEvents, journal[a].id = runs'[i].id
      PROVE  a = At(i + drop)
  BY <1>1, <1>6 DEF OneDispatched
<1>7. OneRow'
  <2>1. ASSUME NEW i \in DOMAIN runs' PROVE phase'[runs'[i].id] \notin {"unused", "creating"}
    <3>1. At(i + drop) \in DOMAIN journal /\ runs'[i].id = journal[At(i + drop)].id
      BY <1>1, <1>2
    <3>2. \A a \in DOMAIN journal : phase'[journal[a].id] \notin {"unused", "creating"}
      BY <1>4 DEF OneDispatched, Started
    <3> QED
      BY <3>1, <3>2
  <2>2. ASSUME NEW i \in DOMAIN runs', NEW j \in DOMAIN runs', runs'[i].id = runs'[j].id PROVE i = j
    <3>1. At(i + drop) = At(j + drop)
      BY <1>1, <1>6, <2>2
    <3>2. i + drop = j + drop
      BY <1>1, <1>5, <3>1
    <3> QED
      BY <1>1, <3>2
  <2> QED
    BY <2>1, <2>2 DEF OneRow, Started
<1>8. InOrder'
  <2>1. ASSUME NEW i \in DOMAIN runs', NEW j \in DOMAIN runs', NEW a \in DispatchedEvents,
               NEW b \in DispatchedEvents, i < j, journal[a].id = runs'[i].id, journal[b].id = runs'[j].id
        PROVE  a < b
    <3>1. a = At(i + drop) /\ b = At(j + drop)
      BY <1>6, <2>1
    <3>2. i + drop < j + drop /\ i + drop \in 1..Count /\ j + drop \in 1..Count
      BY <1>1, <2>1
    <3> QED
      BY <1>2, <3>1, <3>2
  <2> QED
    BY <1>3, <2>1 DEF InOrder
<1>9. Cut'
  <2>1. ASSUME NEW a \in DispatchedEvents, journal[a].id \notin Known'
        PROVE  /\ Len(runs') = RunHistoryLimit
               /\ \A b \in DispatchedEvents : journal[b].id \in Known' => a < b
    <3>1. PICK k \in 1..Count : At(k) = a
      BY <1>2
    <3>2. k <= drop
      <4>1. SUFFICES ASSUME k > drop PROVE FALSE
        BY <1>1
      <4>2. k - drop \in DOMAIN runs' /\ (k - drop) + drop = k
        BY <1>1, <4>1
      <4>3. runs'[k - drop].id = journal[a].id
        BY <1>1, <3>1, <4>2
      <4> QED
        BY <2>1, <4>2, <4>3 DEF Known
    <3>3. ASSUME NEW b \in DispatchedEvents, journal[b].id \in Known' PROVE a < b
      <4>1. PICK i \in DOMAIN runs' : runs'[i].id = journal[b].id
        BY <3>3 DEF Known
      <4>2. b = At(i + drop) /\ i + drop \in 1..Count /\ k < i + drop
        BY <1>1, <1>6, <3>2, <4>1
      <4> QED
        BY <1>2, <3>1, <4>2
    <3>4. drop > 0
      BY <3>2
    <3> QED
      BY <1>1, <3>3, <3>4
  <2> QED
    BY <1>3, <2>1 DEF Cut
<1> QED
  BY <1>4, <1>7, <1>8, <1>9 DEF RegistryInv

\* A full registry of later runs drops a rebuilt row of an older one.
LEMMA CutStaysCut ==
  ASSUME TypeOK, RegistryInv, Known \subseteq DispatchedRuns, runs' = Limited(Merged(Known)),
         NEW d \in DispatchedRuns, d \notin Known, d \notin stale
  PROVE  d \notin Known'
<1>1. PICK drop \in Nat :
         /\ Count \in Nat /\ Len(runs') \in Nat /\ Len(runs') = Count - drop
         /\ DOMAIN runs' = 1..Len(runs')
         /\ Count > RunHistoryLimit => Len(runs') = RunHistoryLimit
         /\ \A i \in DOMAIN runs' : /\ i + drop \in 1..Count /\ At(i + drop) \in DispatchedEvents
                                    /\ runs'[i].id = journal[At(i + drop)].id
  BY RebuiltRows
<1>2. /\ DispatchedEvents \subseteq DOMAIN journal /\ DOMAIN journal \subseteq Nat
      /\ \A k \in 1..Count : At(k) \in DispatchedEvents
      /\ \A k, l \in 1..Count : k < l => At(k) < At(l)
      /\ \A a \in DispatchedEvents : \E k \in 1..Count : At(k) = a
  BY Elements, DispatchedPositions
<1>3. PICK a \in DispatchedEvents : journal[a].id = d
  BY DEF DispatchedRuns
<1>4. Len(runs) = RunHistoryLimit /\ \A b \in DispatchedEvents : journal[b].id \in Known => a < b
  BY <1>3 DEF RegistryInv, Cut
<1>5. PICK k \in 1..Count : At(k) = a
  BY <1>2
<1> DEFINE N == 1..Len(runs)
           Later == (k + 1)..Count
           Event(i) == CHOOSE l \in 1..Count : journal[At(l)].id = runs[i].id
           f == [i \in N |-> Event(i)]
<1>6. N = DOMAIN runs /\ Len(runs) \in Nat /\ RunHistoryLimit \in Nat
  BY Elements, SubagentAssumption
<1>7. ASSUME NEW i \in N
      PROVE  Event(i) \in Later /\ journal[At(Event(i))].id = runs[i].id
  <2>1. runs[i].id \in Known
    BY <1>6 DEF Known
  <2>2. \E b \in DispatchedEvents : journal[b].id = runs[i].id
    BY <2>1 DEF DispatchedRuns
  <2>3. Event(i) \in 1..Count /\ journal[At(Event(i))].id = runs[i].id
    <3>1. \E l \in 1..Count : journal[At(l)].id = runs[i].id
      BY <1>2, <2>2
    <3> QED
      BY <3>1
  <2> HIDE DEF Event
  <2>4. At(k) < At(Event(i))
    BY <1>2, <1>4, <1>5, <2>1, <2>3
  <2>5. ~(Event(i) < k) /\ Event(i) # k
    <3>1. At(k) \in Nat /\ At(Event(i)) \in Nat
      BY <1>2, <2>3
    <3> QED
      BY <1>2, <2>3, <2>4, <3>1
  <2> QED
    BY <1>1, <2>3, <2>5
<1>8. f \in Injection(N, Later)
  <2>1. f \in [N -> Later]
    BY <1>7
  <2>2. ASSUME NEW i \in N, NEW j \in N, f[i] = f[j] PROVE i = j
    <3>1. runs[i].id = runs[j].id
      BY <1>7, <2>2
    <3> QED
      BY <1>6, <3>1 DEF RegistryInv, OneRow
  <2> QED
    BY <2>1, <2>2 DEF Injection, IsInjective
<1>9. RunHistoryLimit <= Count - k
  <2>1. IsFiniteSet(Later) /\ Cardinality(Later) = Count - k
    <3>1. k + 1 \in Int /\ Count \in Int /\ k <= Count
      BY <1>1
    <3>2. IsFiniteSet((k + 1)..Count) /\
          Cardinality((k + 1)..Count) = IF k + 1 > Count THEN 0 ELSE Count - (k + 1) + 1
      BY <3>1, FS_Interval
    <3> QED
      BY <3>1, <3>2
  <2>2. IsFiniteSet(N) /\ Cardinality(N) = Len(runs)
    <3>1. 1 \in Int /\ Len(runs) \in Int /\ Len(runs) >= 0
      BY <1>6
    <3>2. IsFiniteSet(1..Len(runs)) /\
          Cardinality(1..Len(runs)) = IF 1 > Len(runs) THEN 0 ELSE Len(runs) - 1 + 1
      BY <3>1, FS_Interval
    <3> QED
      BY <3>1, <3>2
  <2> HIDE DEF f, N, Later
  <2>3. Cardinality(N) <= Cardinality(Later)
    BY <1>8, <2>1, FS_Injection
  <2> QED
    BY <1>4, <2>1, <2>2, <2>3
<1>10. Len(runs') = RunHistoryLimit /\ k <= drop
  BY <1>1, <1>6, <1>9
<1>11. ASSUME NEW i \in DOMAIN runs', runs'[i].id = d PROVE FALSE
  <2>1. At(i + drop) = a /\ i + drop \in 1..Count /\ k < i + drop
    BY <1>1, <1>3, <1>10, <1>11 DEF RegistryInv, OneDispatched
  <2> QED
    BY <1>2, <1>5, <2>1
<1> QED
  BY <1>11 DEF Known

\* Create registers a run that has no event yet, writes its event or not, and may drop the
\* oldest row.
LEMMA CreateEffect ==
  ASSUME TypeOK, RegistryInv, NEW d \in Dispatches, Create(d)
  PROVE  /\ journal' \in {journal, Append(journal, Dispatched(d))}
         /\ phase' \in {[phase EXCEPT ![d] = "announcing"], [phase EXCEPT ![d] = "done"]}
         /\ faults' = 0 => /\ faults = 0 /\ journal' = Append(journal, Dispatched(d))
                           /\ phase' = [phase EXCEPT ![d] = "announcing"]
         /\ Dispatched(d) \in Events /\ ~Started(d) /\ Started(d)'
         /\ \A c \in Dispatches : c # d => phase'[c] = phase[c]
         /\ d \notin Known /\ \A a \in DOMAIN journal : journal[a].id # d
         /\ stale' = stale
<1>0. phase \in [Dispatches -> Phases] /\ faults \in 0..MaxFaults
  BY Elements
<1>1. /\ journal' \in {journal, Append(journal, Dispatched(d))}
      /\ phase' \in {[phase EXCEPT ![d] = "announcing"], [phase EXCEPT ![d] = "done"]}
      /\ faults' = 0 => /\ faults = 0 /\ journal' = Append(journal, Dispatched(d))
                        /\ phase' = [phase EXCEPT ![d] = "announcing"]
  BY <1>0, EmitIntoEffect DEF Create
<1>2. ~Started(d) /\ Started(d)' /\ \A c \in Dispatches : c # d => phase'[c] = phase[c]
  BY <1>0, <1>1 DEF Create, Started
<1>3. d \notin Known /\ \A a \in DOMAIN journal : journal[a].id # d
  <2>1. \A i \in DOMAIN runs : runs[i].id # d
    BY <1>2 DEF RegistryInv, OneRow
  <2>2. \A a \in DOMAIN journal : journal[a].id # d
    <3>1. \A a \in DOMAIN journal : Started(journal[a].id)
      BY DEF RegistryInv, OneDispatched
    <3> QED
      BY <1>2, <3>1
  <2> QED
    BY <2>1, <2>2 DEF Known
<1> QED
  BY <1>1, <1>2, <1>3, EventTypes DEF Create

\* The rows after Create(d): those of before, but perhaps the first, and that of d.
LEMMA CreateRows ==
  ASSUME TypeOK, RegistryInv, NEW d \in Dispatches, Create(d), d \notin stale
  PROVE  \E drop \in {0, 1} :
            /\ Len(runs) \in Nat /\ DOMAIN runs = 1..Len(runs)
            /\ DOMAIN runs' = 1..Len(runs') /\ Len(runs') = Len(runs) + 1 - drop /\ Len(runs') > 0
            /\ runs'[Len(runs')] = Entry(d, "running")
            /\ drop = 1 => Len(runs') = RunHistoryLimit
            /\ Len(runs) = RunHistoryLimit => Len(runs') = RunHistoryLimit
            /\ \A i \in DOMAIN runs' :
                  \/ i + drop \in DOMAIN runs /\ runs'[i] = runs[i + drop]
                  \/ i + drop = Len(runs) + 1 /\ runs'[i] = Entry(d, "running")
<1> DEFINE s == Append(runs, Entry(d, "running"))
           drop == Dropped(s)
<1>0. /\ runs \in Seq(Rows) /\ Len(runs) \in Nat /\ DOMAIN runs = 1..Len(runs)
      /\ Len(runs) <= RunHistoryLimit /\ RunHistoryLimit \in Nat \ {0}
  BY Elements, SubagentAssumption
<1>1. Entry(d, "running") \in Rows
  BY DEF Entry, Rows, Statuses
<1>2. /\ s \in Seq(Rows) /\ Len(s) = Len(runs) + 1 /\ s[Len(runs) + 1] = Entry(d, "running")
      /\ \A i \in 1..Len(runs) : s[i] = runs[i]
  BY <1>0, <1>1, AppendProperties
<1>3. runs' = Limited(s)
  BY DEF Create
<1> HIDE DEF s
<1>4. /\ runs' \in Seq(Rows) /\ drop \in Nat /\ Len(runs') = Len(s) - drop
      /\ Len(s) > RunHistoryLimit => Len(runs') = RunHistoryLimit
      /\ \A i \in 1..Len(runs') : runs'[i] = s[i + drop] /\ i + drop \in 1..Len(s)
  BY <1>2, <1>3, LimitedOf
<1>5. drop \in {0, 1} /\ (drop = 1 => Len(s) > RunHistoryLimit)
  BY <1>0, <1>2 DEF Dropped
<1>6. DOMAIN runs' = 1..Len(runs')
  BY <1>4, LenProperties
<1> HIDE DEF drop
<1>7. Len(runs') \in Nat /\ Len(runs') > 0 /\ Len(runs') + drop = Len(runs) + 1
  BY <1>0, <1>2, <1>4, <1>5
<1>8. runs'[Len(runs')] = Entry(d, "running")
  BY <1>2, <1>4, <1>7
<1>9. ASSUME NEW i \in DOMAIN runs'
      PROVE  \/ i + drop \in DOMAIN runs /\ runs'[i] = runs[i + drop]
             \/ i + drop = Len(runs) + 1 /\ runs'[i] = Entry(d, "running")
  <2>1. i + drop \in 1..(Len(runs) + 1) /\ runs'[i] = s[i + drop]
    BY <1>2, <1>4, <1>6
  <2>2. i + drop \in 1..Len(runs) \/ i + drop = Len(runs) + 1
    BY <1>0, <2>1
  <2> QED
    BY <1>0, <1>2, <2>1, <2>2
<1>10. /\ drop = 1 => Len(runs') = RunHistoryLimit
       /\ Len(runs) = RunHistoryLimit => Len(runs') = RunHistoryLimit
       /\ Len(runs') = Len(runs) + 1 - drop
  <2>1. drop = 1 => Len(runs') = RunHistoryLimit
    BY <1>4, <1>5
  <2>2. Len(runs) = RunHistoryLimit => Len(s) > RunHistoryLimit
    BY <1>0, <1>2
  <2>3. Len(runs') = Len(runs) + 1 - drop
    BY <1>2, <1>4
  <2> QED
    BY <1>4, <2>1, <2>2, <2>3
<1> QED
  BY <1>0, <1>5, <1>6, <1>7, <1>8, <1>9, <1>10

LEMMA CreateKeeps ==
  ASSUME TypeOK, RegistryInv, NEW d \in Dispatches, Create(d)
  PROVE  RegistryInv'
<1> DEFINE n == Len(journal)
<1>0. /\ journal \in Seq(Events) /\ n \in Nat /\ DOMAIN journal = 1..n
      /\ Dispatched(d) \in Events /\ journal' \in {journal, Append(journal, Dispatched(d))}
      /\ Started(d)' /\ (\A c \in Dispatches : Started(c) => Started(c)')
      /\ d \notin Known /\ (\A a \in DOMAIN journal : journal[a].id # d)
      /\ stale' = stale
  BY Elements, CreateEffect DEF Started
<1>1. Dispatched(d).type = "dispatched" /\ Dispatched(d).id = d
  BY DEF Dispatched
<1>2. /\ \A a \in DOMAIN journal : a \in DOMAIN journal' /\ journal'[a] = journal[a]
      /\ \A a \in DOMAIN journal' :
            a \in DOMAIN journal \/ (a = n + 1 /\ journal'[a] = Dispatched(d))
  <2>1. CASE journal' = journal
    BY <2>1
  <2>2. CASE journal' = Append(journal, Dispatched(d))
    BY <1>0, <2>2, AppendOf
  <2> QED
    BY <1>0, <2>1, <2>2
<1> HIDE DEF n
\* The events of the other runs, all before that of d
<1>3. /\ DispatchedEvents \subseteq DOMAIN journal /\ DispatchedEvents \subseteq DispatchedEvents'
      /\ \A a \in DispatchedEvents' :
            \/ a \in DispatchedEvents /\ journal'[a] = journal[a] /\ journal'[a].id # d
            \/ a = n + 1 /\ journal'[a].id = d
  BY <1>0, <1>1, <1>2 DEF DispatchedEvents
<1>4. \A a \in DispatchedEvents : a < n + 1 /\ a \in Nat
  BY <1>0, <1>3
<1>5. OneDispatched'
  <2>1. \A a \in DOMAIN journal' : phase'[journal'[a].id] \notin {"unused", "creating"}
    <3>1. \A a \in DOMAIN journal : journal[a].id \in Dispatches /\ Started(journal[a].id)
      BY Elements DEF RegistryInv, OneDispatched
    <3> QED
      BY <1>0, <1>1, <1>2, <3>1 DEF Started
  <2>2. \A a, b \in DispatchedEvents' : journal'[a].id = journal'[b].id => a = b
    BY <1>3 DEF RegistryInv, OneDispatched
  <2> QED
    BY <2>1, <2>2 DEF OneDispatched, Started
<1>6. CASE d \in stale
  <2>1. runs' = runs /\ Known' = Known
    BY <1>6 DEF Create, Known
  <2>2. OneRow'
    BY <1>0, <2>1, Elements DEF RegistryInv, OneRow, Started
  <2>3. \A i \in DOMAIN runs : runs[i].id # d
    BY <1>0 DEF Known
  <2>4. InOrder'
    BY <1>3, <2>1, <2>3 DEF RegistryInv, InOrder
  <2>5. Cut'
    <3>1. ASSUME NEW a \in DispatchedEvents', journal'[a].id \notin Known \cup stale,
                 NEW b \in DispatchedEvents', journal'[b].id \in Known
          PROVE  a < b
      BY <1>0, <1>3, <1>6, <3>1 DEF RegistryInv, Cut
    <3>2. ASSUME NEW a \in DispatchedEvents', journal'[a].id \notin Known \cup stale
          PROVE  Len(runs) = RunHistoryLimit
      BY <1>3, <1>6, <3>2 DEF RegistryInv, Cut
    <3> QED
      BY <1>0, <2>1, <3>1, <3>2 DEF Cut
  <2> QED
    BY <1>5, <2>2, <2>4, <2>5 DEF RegistryInv
<1>7. CASE d \notin stale
  <2>1. PICK drop \in {0, 1} :
          /\ Len(runs) \in Nat /\ DOMAIN runs = 1..Len(runs)
          /\ DOMAIN runs' = 1..Len(runs') /\ Len(runs') = Len(runs) + 1 - drop /\ Len(runs') > 0
          /\ runs'[Len(runs')] = Entry(d, "running")
          /\ drop = 1 => Len(runs') = RunHistoryLimit
          /\ Len(runs) = RunHistoryLimit => Len(runs') = RunHistoryLimit
          /\ \A i \in DOMAIN runs' :
                \/ i + drop \in DOMAIN runs /\ runs'[i] = runs[i + drop]
                \/ i + drop = Len(runs) + 1 /\ runs'[i] = Entry(d, "running")
    BY <1>7, CreateRows
  <2>2. Entry(d, "running").id = d
    BY DEF Entry
  <2>3. /\ \A i \in DOMAIN runs : runs[i].id # d /\ runs[i].id \in Known /\ runs[i].id \in Dispatches
        /\ \A i, j \in DOMAIN runs : runs[i].id = runs[j].id => i = j
        /\ \A i \in DOMAIN runs : Started(runs[i].id)
    BY <1>0, Elements DEF Known, RegistryInv, OneRow
  <2>4. \A i \in DOMAIN runs' :
           \/ i + drop \in DOMAIN runs /\ runs'[i].id = runs[i + drop].id /\ runs'[i].id # d
           \/ i + drop = Len(runs) + 1 /\ runs'[i].id = d
    BY <2>1, <2>2, <2>3
  <2>5. OneRow'
    <3>1. \A i \in DOMAIN runs' : phase'[runs'[i].id] \notin {"unused", "creating"}
      BY <1>0, <2>3, <2>4 DEF Started
    <3>2. ASSUME NEW i \in DOMAIN runs', NEW j \in DOMAIN runs', runs'[i].id = runs'[j].id
          PROVE  i = j
      <4>1. i + drop = j + drop
        BY <2>3, <2>4, <3>2
      <4> QED
        BY <2>1, <4>1
    <3> QED
      BY <3>1, <3>2 DEF OneRow, Started
  <2>6. InOrder'
    <3>1. ASSUME NEW i \in DOMAIN runs', NEW j \in DOMAIN runs', i < j,
                 NEW a \in DispatchedEvents', NEW b \in DispatchedEvents',
                 journal'[a].id = runs'[i].id, journal'[b].id = runs'[j].id
          PROVE  a < b
      <4>1. i + drop < j + drop /\ i + drop \in DOMAIN runs /\ runs'[i].id = runs[i + drop].id
        BY <2>1, <2>4, <3>1
      <4>2. a \in DispatchedEvents /\ journal[a].id = runs[i + drop].id
        BY <1>3, <2>3, <3>1, <4>1
      <4>3. CASE b = n + 1
        BY <1>4, <4>2, <4>3
      <4>4. CASE b \in DispatchedEvents /\ journal'[b] = journal[b] /\ journal'[b].id # d
        <5>1. j + drop \in DOMAIN runs /\ journal[b].id = runs[j + drop].id
          BY <2>4, <3>1, <4>4
        <5> QED
          BY <4>1, <4>2, <4>4, <5>1 DEF RegistryInv, InOrder
      <4> QED
        BY <1>3, <4>3, <4>4
    <3> QED
      BY <3>1 DEF InOrder
  <2>7. /\ \A c \in Known' : c = d \/ c \in Known
        /\ d \in Known'
    <3>1. Len(runs') \in DOMAIN runs' /\ runs'[Len(runs')].id = d
      BY <2>1, <2>2
    <3> QED
      BY <2>3, <2>4, <3>1 DEF Known
  <2>8. Cut'
    <3>1. ASSUME NEW a \in DispatchedEvents', journal'[a].id \notin Known' \cup stale'
          PROVE  /\ Len(runs') = RunHistoryLimit
                 /\ \A b \in DispatchedEvents' : journal'[b].id \in Known' => a < b
      <4>1. a \in DispatchedEvents /\ journal'[a] = journal[a]
        BY <1>3, <2>7, <3>1
      <4>2. CASE journal[a].id \notin Known
        <5>1. Len(runs) = RunHistoryLimit /\ \A b \in DispatchedEvents : journal[b].id \in Known => a < b
          BY <1>0, <3>1, <4>1, <4>2 DEF RegistryInv, Cut
        <5> QED
          BY <1>3, <1>4, <2>1, <2>7, <4>1, <5>1
      <4>3. CASE journal[a].id \in Known
        <5>1. PICK i \in DOMAIN runs : runs[i].id = journal[a].id
          BY <4>3 DEF Known
        <5>2. drop = 1 /\ i = 1
          <6>1. ASSUME i - drop \in DOMAIN runs' PROVE FALSE
            <7>1. runs'[i - drop].id = runs[i].id
              BY <2>1, <2>3, <5>1, <6>1
            <7> QED
              BY <3>1, <4>1, <5>1, <6>1, <7>1 DEF Known
          <6> QED
            BY <2>1, <6>1
        <5>3. ASSUME NEW b \in DispatchedEvents', journal'[b].id \in Known' PROVE a < b
          <6>1. CASE b = n + 1
            BY <1>4, <4>1, <6>1
          <6>2. CASE b \in DispatchedEvents /\ journal'[b] = journal[b] /\ journal'[b].id # d
            <7>1. PICK j \in DOMAIN runs' : runs'[j].id = journal[b].id
              BY <5>3, <6>2 DEF Known
            <7>2. j + drop \in DOMAIN runs /\ runs[j + drop].id = journal[b].id
              BY <2>4, <6>2, <7>1
            <7>3. 1 < j + drop
              BY <2>1, <5>2
            <7> QED
              BY <4>1, <5>1, <5>2, <6>2, <7>2, <7>3 DEF RegistryInv, InOrder
          <6> QED
            BY <1>3, <6>1, <6>2
        <5> QED
          BY <2>1, <5>2, <5>3
      <4> QED
        BY <4>2, <4>3
    <3> QED
      BY <3>1 DEF Cut
  <2> QED
    BY <1>5, <2>5, <2>6, <2>8 DEF RegistryInv
<1> QED
  BY <1>6, <1>7

LEMMA RegistryStep ==
  ASSUME TypeOK, TypeOK', RegistryInv, [Next]_vars
  PROVE  RegistryInv'
<1>1. ASSUME NEW d \in Dispatches, Create(d) PROVE RegistryInv'
  BY <1>1, CreateKeeps
<1>2. CASE Rebuild
  <2>1. runs' = Limited(Merged(Known)) /\ journal' = journal /\ phase' = phase
    BY <1>2 DEF Rebuild, work
  <2> QED
    BY <2>1, MergeKeeps DEF RegistryInv, Started
<1>3. CASE Crash
  <2>1. runs' = Limited(Merged({})) /\ journal' = journal
    BY <1>3 DEF Crash
  <2>2. \A d \in Dispatches : Started(d) => Started(d)'
    BY <1>3 DEF Crash, Started, Live
  <2> QED
    BY <2>1, <2>2, MergeKeeps DEF RegistryInv
<1>4. CASE ~(\E d \in Dispatches : Create(d)) /\ ~Rebuild /\ ~Crash
  BY <1>4, QuietSteps, QuietKeeps
<1> QED
  BY <1>1, <1>2, <1>3, <1>4

LEMMA RegistryInit == Init => RegistryInv
<1> SUFFICES ASSUME Init PROVE RegistryInv
  OBVIOUS
<1>1. runs = << >> /\ journal = << >>
  BY DEF Init
<1>2. DOMAIN runs = {} /\ DOMAIN journal = {}
  BY <1>1
<1>3. DispatchedEvents = {}
  BY <1>2 DEF DispatchedEvents
<1> QED
  BY <1>2, <1>3 DEF RegistryInv, OneDispatched, OneRow, InOrder, Cut

-----------------------------------------------------------------------------
(* Who is shown as interrupted *)

LEMMA InterruptedStep ==
  ASSUME TypeOK, TypeOK', RegistryInv, RegistryInv', InterruptedIsDead, [Next]_vars
  PROVE  InterruptedIsDead'
<1>0. /\ DOMAIN runs = 1..Len(runs) /\ \A i \in DOMAIN runs : runs[i].id \in Dispatches
      /\ phase \in [Dispatches -> Phases]
  BY Elements
<1>1. ASSUME NEW d \in Dispatches, Create(d) PROVE InterruptedIsDead'
  <2>1. /\ d \notin Known /\ stale' = stale /\ Len(runs) \in Nat
        /\ \A c \in Dispatches : c # d => phase'[c] = phase[c]
    BY <1>1, CreateEffect, Elements
  <2>2. \A i \in DOMAIN runs : runs[i].id # d
    BY <2>1 DEF Known
  <2>3. CASE d \in stale
    <3>1. runs' = runs
      BY <1>1, <2>3 DEF Create
    <3> QED
      BY <1>0, <2>1, <2>2, <3>1 DEF InterruptedIsDead
  <2>4. CASE d \notin stale
    <3>1. \A i \in DOMAIN runs' : \/ \E j \in DOMAIN runs : runs'[i] = runs[j]
                                  \/ runs'[i] = Entry(d, "running")
      BY <1>1, <2>4, CreateRows
    <3>2. Entry(d, "running").status # "interrupted"
      BY DEF Entry
    <3> QED
      BY <1>0, <2>1, <2>2, <3>1, <3>2 DEF InterruptedIsDead
  <2> QED
    BY <2>3, <2>4
<1>2. CASE Rebuild
  <2>1. /\ runs' = Limited(Merged(Known)) /\ phase' = phase /\ stale' = stale
        /\ Known \subseteq DispatchedRuns
    BY <1>2 DEF Rebuild, work
  <2>2. ASSUME NEW i \in DOMAIN runs', runs'[i].id \notin stale
        PROVE  \E j \in DOMAIN runs : runs'[i] = runs[j]
    <3> DEFINE d == runs'[i].id
    <3>1. d \in DispatchedRuns /\ (d \in Known => runs'[i] = RowOf(d))
      BY <2>1, RebuiltRows
    <3>2. d \in Known'
      BY DEF Known
    <3>3. d \in Known
      BY <2>1, <2>2, <3>1, <3>2, CutStaysCut
    <3> QED
      BY <3>1, <3>3, RowOfKnown
  <2> QED
    BY <2>1, <2>2 DEF InterruptedIsDead
<1>3. CASE Crash
  <2>1. \A d \in Dispatches : phase'[d] \notin Live
    BY <1>0, <1>3 DEF Crash, Live
  <2>2. \A i \in DOMAIN runs' : runs'[i].id \in Dispatches
    <3>1. runs' \in Seq(Rows)
      BY DEF TypeOK, Rows
    <3>2. \A i \in DOMAIN runs' : runs'[i] \in Rows
      BY <3>1, ElementOfSeq, LenProperties
    <3> QED
      BY <3>2 DEF Rows
  <2> QED
    BY <2>1, <2>2 DEF InterruptedIsDead
<1>4. CASE ~(\E d \in Dispatches : Create(d)) /\ ~Rebuild /\ ~Crash
  <2>1. Quiet
    BY <1>4, QuietSteps
  <2>2. DOMAIN runs' = DOMAIN runs
    <3>1. runs \in Seq(Rows) /\ runs' \in Seq(Rows)
      BY DEF TypeOK, Rows
    <3> QED
      BY <2>1, <3>1, LenProperties DEF Quiet
  <2>3. ASSUME NEW i \in DOMAIN runs, runs'[i].status = "interrupted",
               phase'[runs[i].id] \in Live
        PROVE  runs[i].id \in stale'
    <3>1. Started(runs[i].id)'
      BY <1>0, <2>1 DEF RegistryInv, OneRow, Quiet, Started
    <3>2. phase[runs[i].id] \in Live /\ runs[i].status = "interrupted"
      BY <1>0, <2>1, <2>3, <3>1 DEF Quiet, Started
    <3> QED
      BY <2>1, <3>2 DEF InterruptedIsDead, Quiet
  <2>4. \A i \in DOMAIN runs : runs'[i].id = runs[i].id
    BY <2>1 DEF Quiet
  <2> QED
    BY <2>2, <2>3, <2>4 DEF InterruptedIsDead
<1> QED
  BY <1>1, <1>2, <1>3, <1>4

-----------------------------------------------------------------------------
(***************************************************************************)
(* The story of a run, as long as the journal can be written: it is        *)
(* dispatched, then it settles, and its row says what its last event says. *)
(***************************************************************************)
Announced(d) == \E a \in DOMAIN journal : EventsOf(d) = {a} /\ journal[a] = Dispatched(d)

Told(d, s) == \E a, b \in DOMAIN journal : /\ a < b /\ EventsOf(d) = {a, b}
                                           /\ journal[a] = Dispatched(d)
                                           /\ journal[b] = Settled(d, s)

Ends == {"completed", "failed", "cancelled"}

Shows(d, s) == \A i \in DOMAIN runs :
                   runs[i].id = d /\ d \notin stale => s = SettledStatus(runs[i].status)

\* dispatch() may also have settled without a session: then it has no event.
Ended(d) == EventsOf(d) = {} \/ \E s \in Ends : Told(d, s) /\ Shows(d, s)

Story ==
    faults = 0 =>
        /\ Known \subseteq DispatchedRuns
        /\ \A d \in Dispatches :
              /\ phase[d] # "catching"
              /\ phase[d] \in {"announcing", "running"} => Announced(d)
              /\ phase[d] \in {"settling", "done"} => Ended(d)

\* A run that has not started has no event.
LEMMA NoEvents ==
  ASSUME RegistryInv, NEW d, ~Started(d)
  PROVE  EventsOf(d) = {}
BY DEF RegistryInv, OneDispatched, EventsOf

LEMMA SameJournal ==
  ASSUME journal' = journal
  PROVE  /\ DispatchedRuns' = DispatchedRuns
         /\ \A d : EventsOf(d)' = EventsOf(d) /\ (Announced(d) => Announced(d)')
         /\ \A d, s : Told(d, s) => Told(d, s)'
BY DEF DispatchedRuns, DispatchedEvents, EventsOf, Announced, Told, Dispatched, Settled

\* What an appended event adds to the stories
LEMMA AppendedStory ==
  ASSUME journal \in Seq(Events), NEW e \in Events, journal' = Append(journal, e)
  PROVE  /\ EventsOf(e.id)' = EventsOf(e.id) \cup {Len(journal) + 1}
         /\ DispatchedRuns \subseteq DispatchedRuns'
         /\ e.type = "dispatched" => e.id \in DispatchedRuns'
         /\ \A d : d # e.id => /\ EventsOf(d)' = EventsOf(d)
                               /\ Announced(d) => Announced(d)'
                               /\ \A s : Told(d, s) => Told(d, s)'
<1> DEFINE n == Len(journal)
<1>1. /\ n \in Nat /\ DOMAIN journal = 1..n /\ DOMAIN journal' = 1..(n + 1)
      /\ \A a \in DOMAIN journal : a \in DOMAIN journal' /\ journal'[a] = journal[a]
      /\ \A a \in DOMAIN journal' : a \in DOMAIN journal \/ a = n + 1
      /\ n + 1 \in DOMAIN journal' /\ journal'[n + 1] = e
  BY AppendOf
<1> HIDE DEF n
<1>2. \A d : EventsOf(d)' = {a \in DOMAIN journal' : journal'[a].id = d}
  BY DEF EventsOf
<1>3. EventsOf(e.id)' = EventsOf(e.id) \cup {n + 1}
  <2>1. \A a : a \in EventsOf(e.id)' <=> a \in EventsOf(e.id) \/ a = n + 1
    BY <1>1, <1>2 DEF EventsOf
  <2> QED
    BY <2>1
<1>4. \A d : d # e.id => EventsOf(d)' = EventsOf(d)
  <2>1. ASSUME NEW d, d # e.id PROVE EventsOf(d)' = EventsOf(d)
    <3>1. \A a : a \in EventsOf(d)' <=> a \in EventsOf(d)
      BY <1>1, <1>2, <2>1 DEF EventsOf
    <3> QED
      BY <3>1
  <2> QED
    BY <2>1
<1>5. \A d : d # e.id => /\ Announced(d) => Announced(d)'
                         /\ \A s : Told(d, s) => Told(d, s)'
  BY <1>1, <1>4 DEF Announced, Told, Dispatched, Settled
<1>6. /\ DispatchedRuns \subseteq DispatchedRuns'
      /\ e.type = "dispatched" => e.id \in DispatchedRuns'
  BY <1>1 DEF DispatchedRuns, DispatchedEvents
<1> QED
  BY <1>3, <1>4, <1>5, <1>6 DEF n

\* The last of the two events of a run is the one that settled it.
LEMMA ToldTwice ==
  ASSUME journal \in Seq(Events), NEW d \in Dispatches, NEW s, Told(d, s)
  PROVE  /\ LastEvent(d) = Settled(d, s) /\ Cardinality(EventsOf(d)) = 2
         /\ Replayed(d) = s
<1>1. PICK a \in DOMAIN journal, b \in DOMAIN journal :
         a < b /\ EventsOf(d) = {a, b} /\ journal[b] = Settled(d, s)
  BY DEF Told
<1>2. a \in Nat /\ b \in Nat
  BY LenProperties
<1>3. PICK c \in EventsOf(d) : LastEvent(d) = journal[c] /\ \A x \in EventsOf(d) : x <= c
  BY <1>1, LastEventOf
<1>4. c = b
  BY <1>1, <1>2, <1>3
<1>5. Cardinality({a, b}) = 2
  <2> DEFINE A == {a}
  <2>1. IsFiniteSet(A) /\ Cardinality(A) = 1
    BY FS_Singleton
  <2>2. b \notin A /\ A \cup {b} = {a, b}
    BY <1>1, <1>2
  <2> HIDE DEF A
  <2>3. Cardinality(A \cup {b}) = Cardinality(A) + 1
    BY <2>1, <2>2, FS_AddElement
  <2>4. Cardinality({a, b}) = Cardinality(A) + 1
    BY <2>2, <2>3, Zenon
  <2> QED
    BY <2>1, <2>4
<1>6. LastEvent(d).type = "settled" /\ LastEvent(d).status = s
  BY <1>1, <1>3, <1>4 DEF Settled
<1> QED
  BY <1>1, <1>3, <1>4, <1>5, <1>6 DEF Replayed

\* A step that writes nothing and shows nothing new
LEMMA CalmStory ==
  ASSUME TypeOK, RegistryInv, Story, faults = 0, journal' = journal, runs' = runs,
         stale \subseteq stale',
         \A d \in Dispatches : \/ phase'[d] = phase[d]
                               \/ phase[d] = "unused" /\ phase'[d] \in {"creating", "done"}
                               \/ phase[d] = "announcing" /\ phase'[d] = "running"
                               \/ phase[d] = "settling" /\ phase'[d] = "done"
  PROVE  Story'
<1>1. /\ Known \subseteq DispatchedRuns
      /\ \A d \in Dispatches : /\ phase[d] # "catching"
                               /\ phase[d] \in {"announcing", "running"} => Announced(d)
                               /\ phase[d] \in {"settling", "done"} => Ended(d)
  BY DEF Story
<1>2. /\ DispatchedRuns' = DispatchedRuns
      /\ \A d : EventsOf(d)' = EventsOf(d) /\ (Announced(d) => Announced(d)')
      /\ \A d, s : Told(d, s) => Told(d, s)'
  BY SameJournal
<1>3. Known' = Known
  BY DEF Known
<1>4. \A d \in Dispatches : Ended(d) => Ended(d)'
  BY <1>2 DEF Ended, Shows, SettledStatus
<1>5. \A d \in Dispatches : phase[d] = "unused" => EventsOf(d)' = {}
  BY <1>2, NoEvents DEF Started
<1>6. ASSUME NEW d \in Dispatches
      PROVE  /\ phase'[d] # "catching"
             /\ phase'[d] \in {"announcing", "running"} => Announced(d)'
             /\ phase'[d] \in {"settling", "done"} => Ended(d)'
  <2>1. EventsOf(d)' = {} => Ended(d)'
    BY DEF Ended
  <2> QED
    BY <1>1, <1>2, <1>4, <1>5, <2>1
<1> QED
  BY <1>1, <1>2, <1>3, <1>6 DEF Story

\* A crash or a rebuild: what the journal tells is what the rebuilt rows show.
LEMMA RebuiltStory ==
  ASSUME TypeOK, RegistryInv, Story, faults = 0, journal' = journal,
         NEW known \in {{}, Known}, runs' = Limited(Merged(known)),
         \A d \in known : d \notin stale' => d \notin stale,
         \A d \in Dispatches : \/ phase'[d] = phase[d]
                               \/ phase'[d] = "lost"
  PROVE  Story'
<1>1. /\ Known \subseteq DispatchedRuns
      /\ \A d \in Dispatches : /\ phase[d] # "catching"
                               /\ phase[d] \in {"announcing", "running"} => Announced(d)
                               /\ phase[d] \in {"settling", "done"} => Ended(d)
  BY DEF Story
<1>2. /\ DispatchedRuns' = DispatchedRuns
      /\ \A d : EventsOf(d)' = EventsOf(d) /\ (Announced(d) => Announced(d)')
      /\ \A d, s : Told(d, s) => Told(d, s)'
  BY SameJournal
<1>3. \A i \in DOMAIN runs' :
         LET d == runs'[i].id
         IN  /\ d \in DispatchedRuns
             /\ d \in known => runs'[i] = RowOf(d)
             /\ d \notin known => runs'[i] = Entry(d, Replayed(d))
  <2>1. PICK drop \in Nat :
           \A i \in DOMAIN runs' :
              LET d == journal[At(i + drop)].id
              IN  /\ runs'[i].id = d /\ d \in DispatchedRuns
                  /\ d \in known => runs'[i] = RowOf(d)
                  /\ d \notin known => runs'[i] = Entry(d, Replayed(d))
    BY ZenonT(60), RebuiltRows
  <2> QED
    BY <2>1
<1>4. Known' \subseteq DispatchedRuns'
  BY <1>2, <1>3 DEF Known
<1>5. ASSUME NEW d \in Dispatches, NEW s \in Ends, Told(d, s), Shows(d, s)
      PROVE  Shows(d, s)'
  <2>1. ASSUME NEW i \in DOMAIN runs', runs'[i].id = d, d \notin stale'
        PROVE  s = SettledStatus(runs'[i].status)
    <3>1. CASE d \in known
      <4>1. PICK j \in DOMAIN runs : RowOf(d) = runs[j] /\ runs[j].id = d
        BY <3>1, RowOfKnown
      <4> QED
        BY <1>3, <1>5, <2>1, <3>1, <4>1 DEF Shows
    <3>2. CASE d \notin known
      <4>1. runs'[i].status = s
        <5>1. Replayed(d) = s
          BY <1>5, ToldTwice, Elements
        <5> QED
          BY <1>3, <2>1, <3>2, <5>1 DEF Entry
      <4> QED
        BY <4>1 DEF SettledStatus, Ends
    <3> QED
      BY <3>1, <3>2
  <2> QED
    BY <2>1 DEF Shows, SettledStatus
<1>6. \A d \in Dispatches : Ended(d) => Ended(d)'
  BY <1>2, <1>5 DEF Ended
<1> QED
  BY <1>1, <1>2, <1>4, <1>6 DEF Story

LEMMA CreateStory ==
  ASSUME TypeOK, RegistryInv, Story, faults' = 0, NEW d \in Dispatches, Create(d)
  PROVE  Story'
<1> DEFINE e == Dispatched(d)
<1>1. /\ journal \in Seq(Events) /\ e \in Events /\ journal' = Append(journal, e) /\ faults = 0
      /\ phase' = [phase EXCEPT ![d] = "announcing"] /\ phase \in [Dispatches -> Phases]
      /\ ~Started(d) /\ d \notin Known /\ stale' = stale
  BY CreateEffect, Elements
<1>2. e.id = d /\ e.type = "dispatched"
  BY DEF Dispatched
<1> HIDE DEF e
<1>3. /\ EventsOf(d)' = {Len(journal) + 1} /\ journal'[Len(journal) + 1] = e
      /\ Len(journal) + 1 \in DOMAIN journal'
  <2>1. EventsOf(d) = {} /\ EventsOf(d)' = EventsOf(d) \cup {Len(journal) + 1}
    BY <1>1, <1>2, NoEvents, AppendedStory
  <2> QED
    BY <1>1, <2>1, AppendOf
<1>4. Announced(d)'
  BY <1>3 DEF Announced, Dispatched, e
<1>5. /\ DispatchedRuns \subseteq DispatchedRuns' /\ d \in DispatchedRuns'
      /\ \A c : c # d => /\ EventsOf(c)' = EventsOf(c)
                         /\ Announced(c) => Announced(c)'
                         /\ \A s : Told(c, s) => Told(c, s)'
  BY <1>1, <1>2, AppendedStory
\* The rows of the other runs
<1>6. \A i \in DOMAIN runs' : \/ \E j \in DOMAIN runs : runs'[i] = runs[j]
                              \/ runs'[i].id = d
  <2>1. CASE d \in stale
    BY <2>1 DEF Create
  <2>2. CASE d \notin stale
    <3>1. \A i \in DOMAIN runs' : \/ \E j \in DOMAIN runs : runs'[i] = runs[j]
                                  \/ runs'[i] = Entry(d, "running")
      BY <2>2, CreateRows
    <3> QED
      BY <3>1 DEF Entry
  <2> QED
    BY <2>1, <2>2
<1>7. /\ Known \subseteq DispatchedRuns
      /\ \A c \in Dispatches : /\ phase[c] # "catching"
                               /\ phase[c] \in {"announcing", "running"} => Announced(c)
                               /\ phase[c] \in {"settling", "done"} => Ended(c)
  BY <1>1 DEF Story
<1>8. Known' \subseteq DispatchedRuns'
  BY <1>5, <1>6, <1>7 DEF Known
<1>9. ASSUME NEW c \in Dispatches, c # d, Ended(c) PROVE Ended(c)'
  <2>1. \A s : Shows(c, s) => Shows(c, s)'
    <3>1. ASSUME NEW s, Shows(c, s), NEW i \in DOMAIN runs', runs'[i].id = c, c \notin stale
          PROVE  s = SettledStatus(runs'[i].status)
      <4>1. PICK j \in DOMAIN runs : runs'[i] = runs[j]
        BY <1>6, <1>9, <3>1
      <4> QED
        BY <3>1, <4>1 DEF Shows
    <3> QED
      BY <1>1, <3>1 DEF Shows, SettledStatus
  <2> QED
    BY <1>5, <1>9, <2>1 DEF Ended
<1>10. \A c \in Dispatches : c # d => phase'[c] = phase[c]
  BY <1>1
<1>11. phase'[d] = "announcing"
  BY <1>1
<1>12. \A c \in Dispatches : /\ phase'[c] # "catching"
                             /\ phase'[c] \in {"announcing", "running"} => Announced(c)'
                             /\ phase'[c] \in {"settling", "done"} => Ended(c)'
  <2>1. ASSUME NEW c \in Dispatches, c # d
        PROVE  /\ phase'[c] # "catching"
               /\ phase'[c] \in {"announcing", "running"} => Announced(c)'
               /\ phase'[c] \in {"settling", "done"} => Ended(c)'
    BY <1>5, <1>7, <1>9, <1>10, <2>1
  <2> QED
    BY <1>4, <1>11, <2>1
<1> QED
  BY <1>8, <1>12 DEF Story

LEMMA ResolveStory ==
  ASSUME TypeOK, RegistryInv, Story, faults' = 0, NEW d \in Dispatches, NEW how \in Endings,
         RunResolves(d, how)
  PROVE  Story'
<1> DEFINE status == IF parent[d] \in aborted THEN "cancelled"
                     ELSE IF how = "done" THEN "completed" ELSE "partial"
           f == FinalStatus(d, status)
           e == Settled(d, SettledStatus(f))
<1>0. /\ runs \in Seq(Rows) /\ Len(runs) \in Nat /\ DOMAIN runs = 1..Len(runs)
      /\ journal \in Seq(Events) /\ Len(journal) \in Nat /\ DOMAIN journal = 1..Len(journal)
      /\ phase \in [Dispatches -> Phases] /\ faults \in 0..MaxFaults
  BY Elements
<1>1. /\ phase[d] = "running" /\ runs' = SetStatus(d, f) /\ stale' = stale
      /\ EmitInto(d, e, "settling", "catching")
  BY DEF RunResolves
<1>2. f \in Statuses /\ SettledStatus(f) \in Ends
  BY StatusType DEF Statuses, Ends
<1> HIDE DEF f
<1>3. e \in Events /\ e.id = d
  BY <1>2, EventTypes DEF Ends, Statuses, Settled
<1> HIDE DEF e
<1>4. /\ faults = 0 /\ journal' = Append(journal, e)
      /\ phase' = [phase EXCEPT ![d] = "settling"]
  BY <1>0, <1>1, EmitIntoEffect
<1>5. /\ DispatchedRuns \subseteq DispatchedRuns' /\ EventsOf(d)' = EventsOf(d) \cup {Len(journal) + 1}
      /\ \A c : c # d => /\ EventsOf(c)' = EventsOf(c)
                         /\ Announced(c) => Announced(c)'
                         /\ \A s : Told(c, s) => Told(c, s)'
  BY <1>0, <1>3, <1>4, AppendedStory
<1>6. /\ Known \subseteq DispatchedRuns
      /\ \A c \in Dispatches : /\ phase[c] # "catching"
                               /\ phase[c] \in {"announcing", "running"} => Announced(c)
                               /\ phase[c] \in {"settling", "done"} => Ended(c)
  BY <1>4 DEF Story
<1> PICK r \in Ends : r = SettledStatus(f)
  BY <1>2
<1>7. Told(d, r)'
  <2>1. PICK a \in DOMAIN journal : EventsOf(d) = {a} /\ journal[a] = Dispatched(d)
    BY <1>1, <1>6 DEF Announced
  <2>2. /\ a \in DOMAIN journal' /\ journal'[a] = journal[a] /\ a < Len(journal) + 1
        /\ Len(journal) + 1 \in DOMAIN journal' /\ journal'[Len(journal) + 1] = e
    BY <1>0, <1>3, <1>4, AppendOf
  <2>3. EventsOf(d)' = {a, Len(journal) + 1}
    BY <1>5, <2>1
  <2>4. journal'[a] = Dispatched(d) /\ journal'[Len(journal) + 1] = Settled(d, r)
    BY <2>1, <2>2 DEF e
  <2> QED
    BY <2>2, <2>3, <2>4 DEF Told, Dispatched, Settled
<1>8. /\ DOMAIN runs' = DOMAIN runs
      /\ \A i \in DOMAIN runs :
            /\ runs'[i].id = runs[i].id
            /\ runs[i].id # d => runs'[i] = runs[i]
            /\ runs[i].id = d /\ d \notin stale => runs'[i].status = f
  <2>1. runs' \in Seq(Rows) /\ Len(runs') = Len(runs)
    BY <1>0, <1>1, <1>2, SetStatusOf
  <2>2. DOMAIN runs' = DOMAIN runs
    BY <1>0, <2>1, LenProperties
  <2> QED
    BY <1>0, <1>1, <1>2, <2>2, SetStatusOf
<1>9. Known' = Known
  BY <1>8 DEF Known
<1>10. Ended(d)'
  <2>1. Shows(d, r)'
    BY <1>1, <1>8 DEF Shows, SettledStatus
  <2> QED
    BY <1>7, <2>1 DEF Ended
<1>11. ASSUME NEW c \in Dispatches, c # d, Ended(c) PROVE Ended(c)'
  <2>1. \A s : Shows(c, s) => Shows(c, s)'
    BY <1>1, <1>8, <1>11 DEF Shows, SettledStatus
  <2> QED
    BY <1>5, <1>11, <2>1 DEF Ended
<1>12. (\A c \in Dispatches : c # d => phase'[c] = phase[c]) /\ phase'[d] = "settling"
  BY <1>0, <1>4
<1>13. \A c \in Dispatches : /\ phase'[c] # "catching"
                             /\ phase'[c] \in {"announcing", "running"} => Announced(c)'
                             /\ phase'[c] \in {"settling", "done"} => Ended(c)'
  <2>1. ASSUME NEW c \in Dispatches, c # d
        PROVE  /\ phase'[c] # "catching"
               /\ phase'[c] \in {"announcing", "running"} => Announced(c)'
               /\ phase'[c] \in {"settling", "done"} => Ended(c)'
    BY <1>5, <1>6, <1>11, <1>12, <2>1
  <2> QED
    BY <1>10, <1>12, <2>1
<1> QED
  BY <1>5, <1>6, <1>9, <1>13 DEF Story

LEMMA StoryStep ==
  ASSUME TypeOK, RegistryInv, Story, [Next]_vars
  PROVE  Story'
<1> SUFFICES ASSUME faults' = 0 PROVE Story'
  BY DEF Story
<1>0. phase \in [Dispatches -> Phases] /\ faults \in 0..MaxFaults
  BY Elements
<1>1. ASSUME NEW d \in Dispatches, NEW p \in Dispatches \cup {root},
             NEW requested \in 0..(DefaultBudget + 1), Dispatch(d, p, requested)
      PROVE  Story'
  <2>1. faults = 0 /\ journal' = journal /\ runs' = runs /\ stale' = stale
    BY <1>1 DEF Dispatch, registry, counters
  <2>2. \A c \in Dispatches : \/ phase'[c] = phase[c]
                              \/ phase[c] = "unused" /\ phase'[c] \in {"creating", "done"}
    BY <1>0, <1>1 DEF Dispatch
  <2> QED
    BY <2>1, <2>2, CalmStory
<1>2. ASSUME NEW d \in Dispatches, Create(d) PROVE Story'
  BY <1>2, CreateStory
<1>3. ASSUME NEW d \in Dispatches, StartRun(d) \/ Finally(d) PROVE Story'
  <2>1. faults = 0 /\ journal' = journal /\ runs' = runs /\ stale' = stale
    BY <1>3 DEF StartRun, Finally, registry, counters
  <2>2. \A c \in Dispatches : \/ phase'[c] = phase[c]
                              \/ phase[c] = "announcing" /\ phase'[c] = "running"
                              \/ phase[c] = "settling" /\ phase'[c] = "done"
    BY <1>0, <1>3 DEF StartRun, Finally
  <2> QED
    BY <2>1, <2>2, CalmStory
\* Without a rejected write no run reaches its catch block.
<1>4. ASSUME NEW d \in Dispatches, RunRejects(d) PROVE FALSE
  BY <1>0, <1>4 DEF RunRejects
<1>5. ASSUME NEW d \in Dispatches, CatchFailure(d) PROVE FALSE
  <2>1. faults = 0
    BY <1>0, <1>5 DEF CatchFailure
  <2> QED
    BY <1>5, <2>1 DEF CatchFailure, Story
<1>6. ASSUME NEW d \in Dispatches, NEW how \in Endings, RunResolves(d, how) PROVE Story'
  BY <1>6, ResolveStory
<1>7. ASSUME NEW S, Cancel(S) PROVE Story'
  BY <1>7, CalmStory DEF Cancel, work
<1>8. CASE AbortRoot \/ AllSettled \/ UNCHANGED vars
  <2>1. faults = 0 /\ journal' = journal /\ runs' = runs /\ stale' = stale /\ phase' = phase
    BY <1>8 DEF AbortRoot, AllSettled, vars, work, registry, counters
  <2> QED
    BY <2>1, CalmStory
<1>9. CASE Reload
  <2>1. runs' = runs
    BY <1>9, SubagentAssumption DEF Reload, InheritedRuns, Limited, TypeOK
  <2> QED
    BY <1>9, <2>1, CalmStory DEF Reload, work
<1>10. CASE Rebuild
  <2>1. /\ runs' = Limited(Merged(Known)) /\ journal' = journal /\ phase' = phase
        /\ stale' = stale /\ faults = 0
    BY <1>10 DEF Rebuild, work, counters
  <2> QED
    BY <2>1, RebuiltStory
<1>11. CASE Crash
  <2>1. runs' = Limited(Merged({})) /\ journal' = journal /\ faults = 0
    BY <1>11 DEF Crash
  <2>2. \A d \in Dispatches : phase'[d] = phase[d] \/ phase'[d] = "lost"
    BY <1>11 DEF Crash
  <2> QED
    BY <2>1, <2>2, RebuiltStory
<1> QED
  BY <1>1, <1>2, <1>3, <1>4, <1>5, <1>6, <1>7, <1>8, <1>9, <1>10, <1>11 DEF Next, DispatchStep

\* A row of a run that has settled agrees with the last of its two events.
LEMMA StoryMatches == TypeOK /\ Story => JournalMatchesRegistry
<1> SUFFICES ASSUME TypeOK, Story, NEW i \in DOMAIN runs, phase[runs[i].id] = "done",
                    runs[i].id \notin stale, faults = 0
             PROVE  /\ LastEvent(runs[i].id) = Settled(runs[i].id, SettledStatus(runs[i].status))
                    /\ Cardinality(EventsOf(runs[i].id)) = 2
  BY DEF JournalMatchesRegistry
<1> DEFINE d == runs[i].id
<1>1. d \in Dispatches /\ journal \in Seq(Events)
  BY Elements
<1>2. EventsOf(d) # {}
  <2>1. d \in DispatchedRuns
    BY DEF Story, Known
  <2> QED
    BY <1>1, <2>1, ReplayedType
<1>3. Ended(d)
  BY <1>1 DEF Story
<1>4. PICK s \in Ends : Told(d, s) /\ Shows(d, s)
  BY <1>2, <1>3 DEF Ended
<1>5. s = SettledStatus(runs[i].status)
  BY <1>4 DEF Shows
<1> HIDE DEF d
<1>6. LastEvent(d) = Settled(d, s) /\ Cardinality(EventsOf(d)) = 2
  BY <1>1, <1>4, ToldTwice
<1> QED
  BY <1>5, <1>6 DEF d

LEMMA FirstStory == Init => DepthInv /\ Story /\ InterruptedIsDead
<1> SUFFICES ASSUME Init PROVE DepthInv /\ Story /\ InterruptedIsDead
  OBVIOUS
<1>1. runs = << >> /\ \A d \in Dispatches : phase[d] = "unused" /\ depth[d] = 0
  BY DEF Init
<1>2. DOMAIN runs = {}
  BY <1>1
<1>3. Known = {}
  BY <1>2 DEF Known
<1> QED
  BY <1>1, <1>2, <1>3 DEF DepthInv, Story, InterruptedIsDead, Live

-----------------------------------------------------------------------------
(* The theorems *)

SubagentInv == TypeOK /\ DepthInv /\ RegistryInv /\ InterruptedIsDead /\ Story

LEMMA InvariantStep == SubagentInv /\ [Next]_vars => SubagentInv'
<1> SUFFICES ASSUME SubagentInv, [Next]_vars PROVE SubagentInv'
  OBVIOUS
<1>1. TypeOK'
  BY TypeStep DEF SubagentInv
<1>2. DepthInv'
  BY DepthStep DEF SubagentInv
<1>3. RegistryInv'
  BY <1>1, RegistryStep DEF SubagentInv
<1>4. InterruptedIsDead'
  BY <1>1, <1>3, InterruptedStep DEF SubagentInv
<1>5. Story'
  BY StoryStep DEF SubagentInv
<1> QED
  BY <1>1, <1>2, <1>3, <1>4, <1>5 DEF SubagentInv

LEMMA Invariant == Spec => []SubagentInv
<1>1. Init => SubagentInv
  BY TypeInit, RegistryInit, FirstStory DEF SubagentInv
<1> QED
  BY <1>1, InvariantStep, PTL DEF Spec

\* For any number of concurrent dispatch() calls the dispatcher's fields keep their types: no
\* run is deeper than #maxDepth or has more than the default budget, and the registry never
\* holds more than runHistoryLimit rows, whichever of registering, rebuilding and inheriting
\* filled it.
THEOREM TypeCorrect == Spec => []TypeOK
<1>1. SubagentInv => TypeOK
  BY DEF SubagentInv
<1> QED
  BY <1>1, Invariant, PTL

\* `interrupted' is shown for no live run of this process: rebuildFromJournal() cannot bring
\* back a live run that the full registry dropped, since the rows that pushed it out are all
\* of later runs and push it out of the rebuilt registry again.
THEOREM OnlyDeadInterrupted == Spec => []InterruptedIsDead
<1>1. SubagentInv => InterruptedIsDead
  BY DEF SubagentInv
<1> QED
  BY <1>1, Invariant, PTL

\* As long as no journal write is rejected, the row of a settled run and the parent's journal
\* agree: #finishRun and #emitSettled report the same status, one event each for the start and
\* the end of the run, through crashes, rebuilds, evictions and reloads.
THEOREM JournalAgrees == Spec => []JournalMatchesRegistry
<1>1. SubagentInv => JournalMatchesRegistry
  BY StoryMatches DEF SubagentInv
<1> QED
  BY <1>1, Invariant, PTL

\* A run has one row, the rows are in the order in which the runs were dispatched (list() relies
\* on it), and what the panel misses is older than all it shows: splice() drops the oldest rows,
\* and a rebuild neither doubles a row nor brings back one of them before a later one.
THEOREM LatestRunsShown == Spec => [](OneRow /\ InOrder /\ Cut)
<1>1. SubagentInv => OneRow /\ InOrder /\ Cut
  BY DEF SubagentInv, RegistryInv
<1> QED
  BY <1>1, Invariant, PTL

\* The step that aborts a parent's signal (cancel(), cancelAllRunning(), or the root turn's
\* interrupt) aborts every running descendant that listens: the cascade of listeners reaches
\* the whole tree, which #maxDepth keeps low.
THEOREM AbortCascades == Spec => AbortReaches
<1>1. SubagentInv /\ [Next]_vars =>
         [\A d \in listening :
             phase[d] = "running" /\ parent[d] \notin aborted /\ parent[d] \in aborted'
                 => d \in aborted']_vars
  <2> SUFFICES ASSUME SubagentInv, [Next]_vars
               PROVE  [\A d \in listening :
                         phase[d] = "running" /\ parent[d] \notin aborted /\ parent[d] \in aborted'
                             => d \in aborted']_vars
    OBVIOUS
  <2> QED
    BY AbortReachesStep DEF SubagentInv
<1> QED
  BY <1>1, Invariant, PTL DEF Spec, AbortReaches
=============================================================================
