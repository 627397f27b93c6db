--------------------------- MODULE ContextPolicy ---------------------------
(***************************************************************************)
(* The sliding-window context policy of packages/context/src/index.ts:     *)
(* when a conversation is compacted and which of its messages survive.     *)
(*                                                                         *)
(* A message keeps what the policy looks at: its role, the ids of the      *)
(* tool_use and tool_result parts it holds, its token count and whether it *)
(* is pinned.  Ratios are percentages, so that a comparison with           *)
(* budget * ratio becomes one between integers.                            *)
(***************************************************************************)
EXTENDS Lists, FiniteSetsExt

CONSTANTS KeepRecent,          \* config.keepRecent
          Budget,              \* tokens left once system, schemas and output are reserved
          CompactionThreshold, \* config.compactionThreshold, in percent
          TargetRatio          \* config.targetRatio, in percent

ASSUME ContextAssumption ==
    /\ KeepRecent \in Nat
    /\ Budget \in Nat \ {0}          \* budget() is at least 1
    /\ CompactionThreshold \in 0..100
    /\ TargetRatio \in 0..100

Message(role, uses, results, tokens, pinned) ==
    [role |-> role, uses |-> uses, results |-> results,
     tokens |-> tokens, pinned |-> pinned]

\* toolIds(message)
ToolIds(m) == m.uses \cup m.results

\* total(messages)
Total(s) == SumOf([i \in DOMAIN s |-> s[i].tokens])

ShouldCompact(s) == Total(s) * 100 >= Budget * CompactionThreshold

(***************************************************************************)
(* The first kept position, counted in dropped messages.  The window of    *)
(* the KeepRecent last messages is extended backwards while the sum stays  *)
(* within the target; it then moves back by one if it would begin with an  *)
(* assistant message.  target100 is the target times 100.                  *)
(***************************************************************************)
WindowStart(s, target100) ==
    LET suffix(d) == Total(SubSeq(s, d + 1, Len(s)))
        recent    == Max({0, Len(s) - KeepRecent})
        fits(d)   == \A e \in d..(recent - 1) : suffix(e) * 100 <= target100
        start     == Min({d \in 0..recent : fits(d)})
    IN  IF start > 0 /\ start < Len(s) /\ s[start + 1].role = "assistant"
        THEN start - 1
        ELSE start

\* A mutant of SelectedIndices: no closure over tool ids.
SelectedWithoutNeeded(s, target100) ==
    IF Total(s) * 100 <= target100 THEN DOMAIN s
    ELSE {i \in DOMAIN s : i > WindowStart(s, target100) \/ s[i].pinned}

\* select(ctx, target): the indices of the messages that are kept
SelectedIndices(s, target100) ==
    LET window == {i \in DOMAIN s : i > WindowStart(s, target100) \/ s[i].pinned}
        needed == UNION {ToolIds(s[i]) : i \in window}
    IN  IF Total(s) * 100 <= target100
        THEN DOMAIN s
        ELSE window \cup {i \in DOMAIN s : ToolIds(s[i]) \cap needed # {}}

Select(s, target100) == Subsequence(s, SelectedIndices(s, target100))

\* compact(ctx).messages
Compact(s) == Select(s, Budget * TargetRatio)

\* buildPrompt(ctx).messages
BuildPrompt(s) == Select(s, Budget * 100)

Uses(s)    == UNION {s[i].uses : i \in DOMAIN s}
Results(s) == UNION {s[i].results : i \in DOMAIN s}

\* Every tool_use of s is answered in s and every tool_result of s answers one.
Paired(s) == Uses(s) = Results(s)
=============================================================================
