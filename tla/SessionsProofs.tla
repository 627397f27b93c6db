--------------------------- MODULE SessionsProofs ---------------------------
(***************************************************************************)
(* Proofs about Sessions for any number of runners, ids, flights and       *)
(* operations: the types, and what holds as long as no operation is        *)
(* disturbed: serial turns, the owner of the lock, the hub's session, and  *)
(* deleted archives.                                                       *)
(***************************************************************************)
EXTENDS Sessions, TLAPS

(* What holds in every state. *)

Kinds == {"start", "resume", "delete", "deleteActive", "end"}

\* Which kinds of operation reach which await.
KindAt ==
    \A o \in Ops :
        /\ stage[o] = "loading" => kind[o] \in {"resume", "delete"}
        /\ stage[o] = "ending" => kind[o] \in {"end", "deleteActive"}
        /\ stage[o] = "removing" => kind[o] \in {"delete", "deleteActive"}
        /\ kind[o] = "end" => stage[o] \in {"ending", "done"}

\* A session id is read only where there is one, and a runner is created once.
Assigned ==
    /\ runner # none => id[runner] # none
    /\ \A f \in Flights : flight[f] # "unused" => on[f] # none /\ id[on[f]] # none
    /\ \A o \in Ops :
        /\ stage[o] \in {"loading", "ending", "removing", "creating"} => target[o] # none
        /\ stage[o] = "creating" => born[o] # none /\ id[born[o]] = none
        /\ stage[o] = "announcing" => born[o] # none /\ id[born[o]] # none
        /\ \A p \in Ops : born[o] # none /\ born[p] = born[o] => o = p
        /\ born[o] # none => bus # none
    /\ \A r \in Runners : id[r] # none => bus # none

TypeInv ==
    /\ TypeOK
    /\ kind \in [Ops -> Kinds] /\ via \in [Ops -> {"hub", "tui"}]
    /\ raced \in BOOLEAN /\ faults \in Nat /\ waiting \in BOOLEAN
    /\ KindAt /\ Assigned
    /\ lock # none => lock \in InFlight
    /\ attached # none => subs[attached] > 0

(* What holds as long as no operation is disturbed. *)

OneOperation == \A o, p \in Pending : o = p

\* What an operation relies on at each await.
Window ==
    \A o \in Ops :
        /\ stage[o] = "loading" /\ kind[o] = "resume" => target[o] \in archive
        /\ stage[o] \in {"loading", "removing"} /\ kind[o] = "delete"
              => runner = none \/ target[o] # id[runner]
        /\ stage[o] = "ending" => runner # none /\ target[o] = id[runner]
        /\ stage[o] \in {"ending", "removing"} /\ kind[o] = "deleteActive" => lock = none
        /\ stage[o] = "removing" /\ kind[o] = "deleteActive" => runner = none
        /\ stage[o] = "creating" => /\ target[o] \notin deleted \ archive
                                    /\ lock # none => EndedInTurn(lock)
        /\ stage[o] = "announcing" => id[born[o]] \notin deleted \ archive

Creating == \E o \in Ops : stage[o] = "creating"

\* The lock holds the turn of the current runner, until an activation interrupts it.
LockHolds == \A f \in InFlight : on[f] = runner => lock = f \/ Creating

\* A turn that nothing interrupted has the lock.
RunningHolds == \A f \in Flights : flight[f] = "running" => lock = f \/ EndedInTurn(f)

\* The hub shows another session only while the new one is announced.
Shown ==
    runner # none /\ attached # none
        => attached = runner \/ \E o \in Ops : stage[o] = "announcing"

LockKept == lock # none => on[lock] = runner \/ EndedInTurn(lock)

\* The archive of the current session is not one that was deleted and is gone.
ArchiveKept == runner # none => id[runner] \notin deleted \ archive

Quiet ==
    /\ OneOperation /\ Window
    /\ LockHolds /\ RunningHolds /\ RunsSerial /\ LockKept
    /\ Shown /\ ArchiveKept

IInv == TypeInv /\ (Undisturbed => Quiet)

-----------------------------------------------------------------------------
(* The types *)

LEMMA InFlightUsed == TypeInv => \A f \in InFlight : f \in Flights /\ on[f] \in Runners /\ id[on[f]] \in Ids
BY SMTT(40) DEF TypeInv, TypeOK, InFlight, Assigned

LEMMA TypeStep == TypeInv /\ [Next]_vars => TypeInv'
<1> SUFFICES ASSUME TypeInv, [Next]_vars
             PROVE  TypeInv'
  OBVIOUS
<1> USE SessionsAssumption
<1> USE DEF TypeInv, TypeOK, KindAt, Assigned, Kinds, InFlight, controller, files, turns, ops, hub, background
<1>1. ASSUME NEW f \in Flights, runner # none, lock = none, Launch(f), UNCHANGED <<attached, subs>>,
             waiting' \in BOOLEAN
      PROVE  TypeInv'
  BY <1>1 DEF Launch
<1>2. CASE HubWait
  BY <1>2 DEF HubWait
<1>10. CASE HubGiveUp
  BY <1>10 DEF HubGiveUp
<1>3. CASE Interrupt
  BY <1>3 DEF Interrupt, Interrupted
<1>4. ASSUME NEW f \in Flights, Hang(f) PROVE TypeInv'
  BY <1>4 DEF Hang
<1>5. ASSUME NEW f \in Flights, Land(f) PROVE TypeInv'
  BY <1>5 DEF Land
<1>6. ASSUME NEW o \in Ops, Install(o) PROVE TypeInv'
  BY <1>6 DEF Install
<1>7. ASSUME NEW o \in Ops, Fails(o) PROVE TypeInv'
  BY <1>7 DEF Fails
<1>8. ASSUME NEW o \in Ops, Announce(o) PROVE TypeInv'
  BY <1>8 DEF Announce, Publish, Unsubscribed
<1>9. CASE HubClose
  BY <1>9 DEF HubClose, Unsubscribed
<1>11. ASSUME NEW o \in Ops, Start(o) PROVE TypeInv'
  BY <1>11 DEF Start, Begin, Fresh, Replace, Interrupted
<1>12. ASSUME NEW o \in Ops, End(o) PROVE TypeInv'
  BY <1>12 DEF End, Begin
<1>13. ASSUME NEW o \in Ops, NEW i \in Ids, Resume(o, i) PROVE TypeInv'
  BY <1>13 DEF Resume, Begin, Load
<1>14. ASSUME NEW o \in Ops, NEW i \in Ids, Remove(o, i) PROVE TypeInv'
  <2>1. CASE runner # none /\ id[runner] = i
    BY <1>14, <2>1 DEF Remove, Delete, Begin
  <2>2. CASE ~(runner # none /\ id[runner] = i)
    <3>1. Begin(o, "delete", "tui") /\ Load(o, i) /\ UNCHANGED <<runner, id, files, on, hub, writes, faults>>
      BY ONLY <1>14, <2>2 DEF Remove, Delete
    <3> QED
      BY <3>1 DEF Begin, Load
  <2> QED
    BY <2>1, <2>2
<1>15. ASSUME NEW o \in Ops, NEW i \in Ids, HubOpen(o, "resume", i) PROVE TypeInv'
  BY <1>15 DEF HubOpen, Begin, Load, Unsubscribed
<1>16. ASSUME NEW o \in Ops, HubOpen(o, "start", none) PROVE TypeInv'
  BY SMTT(40), <1>16 DEF HubOpen, Begin, Fresh, Replace, Interrupted, Unsubscribed
<1>17. ASSUME NEW o \in Ops, Loaded(o) PROVE TypeInv'
  BY <1>17 DEF Loaded, Replace, Interrupted
<1>18. ASSUME NEW o \in Ops, Ended(o) PROVE TypeInv'
  BY <1>18 DEF Ended
<1>19. ASSUME NEW o \in Ops, Removed(o) PROVE TypeInv'
  BY <1>19 DEF Removed, Fresh, Replace, Interrupted
<1>20. ASSUME NEW f \in Flights, Submit(f) \/ HubSubmit(f) \/ HubWake(f) PROVE TypeInv'
  <2>1. CASE Submit(f) \/ HubSubmit(f)
    BY <1>1, <2>1 DEF Submit, HubSubmit
  <2>2. CASE HubWake(f) /\ attached # none /\ runner # none
    BY <1>1, <2>2 DEF HubWake
  <2>3. CASE HubWake(f) /\ ~(attached # none /\ runner # none)
    <3>1. waiting' = FALSE /\ UNCHANGED <<controller, files, turns, ops, background, raced, faults, attached, subs>>
      BY ONLY <2>3 DEF HubWake
    <3> QED
      BY <3>1
  <2> QED
    BY <1>20, <2>1, <2>2, <2>3
<1>21. CASE UNCHANGED vars
  BY <1>21 DEF vars
<1>22. CASE ShellReports
  <2>1. bus \in Ids
    BY <1>22 DEF ShellReports
  <2> QED
    BY <1>22, <2>1 DEF ShellReports, Emit
<1>23. CASE SetModel
  BY <1>23 DEF SetModel, Emit
<1>24. ASSUME NEW i \in Ids, Written(i) PROVE TypeInv'
  BY <1>24 DEF Written
<1> QED
  BY <1>2, <1>3, <1>4, <1>5, <1>6, <1>7, <1>8, <1>9, <1>10, <1>11, <1>12, <1>13, <1>14, <1>15,
     <1>16, <1>17, <1>18, <1>19, <1>20, <1>21, <1>22, <1>23, <1>24
  DEF Next, Work, Clients, Faults

LEMMA InitTyped == Init => TypeInv
<1> SUFFICES ASSUME Init PROVE TypeInv
  OBVIOUS
<1>1. TypeOK /\ KindAt
  BY DEF Init, TypeOK, KindAt
<1>2. Assigned
  BY DEF Init, Assigned
<1> QED
  BY <1>1, <1>2, SessionsAssumption DEF Init, TypeInv, Kinds

\* The types, and in particular the hub's subscription counts: detach() is never called for a
\* runner that the hub has no subscription to.
THEOREM TypeCorrect == Spec => []TypeOK
<1>1. TypeInv => TypeOK
  BY DEF TypeInv
<1> QED
  BY <1>1, InitTyped, TypeStep, PTL DEF Spec

-----------------------------------------------------------------------------
(***************************************************************************)
(* Undisturbed operations.  Each of the four properties leans on the       *)
(* others: that the lock is void when a runner is installed needs that no  *)
(* turn starts inside the window of an operation, that a started turn is   *)
(* the only one needs that the lock follows the runner, and so on.         *)
(***************************************************************************)

\* What no step undoes: a turn whose session was ended stays so.
LEMMA EndedStays ==
  TypeInv /\ [Next]_vars
    => \A f \in Flights : flight[f] # "unused" /\ EndedInTurn(f) => EndedInTurn(f)'
<1> SUFFICES ASSUME TypeInv, [Next]_vars, NEW f \in Flights, flight[f] # "unused", EndedInTurn(f)
             PROVE  EndedInTurn(f)'
  OBVIOUS
<1>1. /\ on[f] \in Runners /\ id[on[f]] \in Ids /\ on[f] # runner
      /\ id \in [Runners -> Ids \cup {none}] /\ on \in [Flights -> Runners \cup {none}]
  BY DEF TypeInv, TypeOK, Assigned, EndedInTurn
<1>2. PICK o \in Ops : kind[o] = "end" /\ target[o] = id[on[f]] /\ stage[o] \in {"ending", "done"}
  BY DEF TypeInv, KindAt, EndedInTurn
<1>3. /\ runner' = runner \/ runner' = none \/ \E p \in Ops : runner' = born[p] /\ id[born[p]] = none
      /\ on'[f] = on[f] /\ id'[on[f]] = id[on[f]]
      /\ kind'[o] = "end" /\ target'[o] = target[o]
  BY SMTT(40), <1>1, <1>2, SessionsAssumption
  DEF Next, Work, Clients, Faults, vars, controller, turns, ops,
      HubWake, Land, HubGiveUp, Install, Announce, Loaded, Ended, Removed, Submit, HubSubmit,
      HubWait, Interrupt, HubClose, Start, End, Resume, Remove, HubOpen, Hang, Fails,
      ShellReports, SetModel, Written,
      Launch, TypeInv, TypeOK, Assigned, Begin, Delete, Load, Fresh, Replace
<1> QED
  BY <1>1, <1>2, <1>3, SessionsAssumption DEF EndedInTurn

LEMMA QuietStep == IInv /\ TypeInv' /\ [Next]_vars => IInv'
<1> SUFFICES ASSUME IInv, TypeInv', [Next]_vars, Undisturbed'
             PROVE  Quiet'
  BY DEF IInv
<1>0. \A f \in Flights : flight[f] # "unused" /\ EndedInTurn(f) => EndedInTurn(f)'
  BY EndedStays DEF IInv
<1> USE SessionsAssumption
<1> USE DEF IInv, Undisturbed, Quiet, OneOperation, Window, LockHolds, RunningHolds, RunsSerial,
            LockKept, Shown, ArchiveKept, Creating, TypeInv, TypeOK, Assigned, KindAt, Pending,
            InFlight, controller, files, turns, ops, hub, background
<1>1. ASSUME NEW f \in Flights, HubWake(f) PROVE Quiet'
  BY <1>0, <1>1 DEF HubWake, Launch
<1>2. ASSUME NEW f \in Flights, Land(f) PROVE Quiet'
  BY <1>0, <1>2 DEF Land
<1>3. ASSUME NEW f \in Flights, Submit(f) PROVE Quiet'
  <2>0. Pending = {}
    BY <1>3 DEF Submit, Launch
  <2>1. OneOperation' /\ Window' /\ LockHolds'
    BY <1>0, <2>0, <1>3 DEF Submit, Launch
  <2>2. RunningHolds' /\ RunsSerial'
    BY <1>0, <2>0, <1>3 DEF Submit, Launch
  <2>3. LockKept' /\ Shown' /\ ArchiveKept'
    BY <1>0, <2>0, <1>3 DEF Submit, Launch
  <2> QED
    BY <2>1, <2>2, <2>3
<1>4. ASSUME NEW f \in Flights, HubSubmit(f) PROVE Quiet'
  <2>0. Pending = {}
    BY <1>4 DEF HubSubmit, Launch
  <2>1. OneOperation' /\ Window' /\ LockHolds'
    BY <1>0, <2>0, <1>4 DEF HubSubmit, Launch
  <2>2. RunningHolds' /\ RunsSerial'
    BY <1>0, <2>0, <1>4 DEF HubSubmit, Launch
  <2>3. LockKept' /\ Shown' /\ ArchiveKept'
    BY <1>0, <2>0, <1>4 DEF HubSubmit, Launch
  <2> QED
    BY <2>1, <2>2, <2>3
<1>5. ASSUME NEW f \in Flights, Hang(f) PROVE Quiet'
  BY <1>0, <1>5 DEF Hang
<1>6. ASSUME NEW o \in Ops, Install(o) PROVE Quiet'
  BY <1>0, <1>6 DEF Install
<1>7. ASSUME NEW o \in Ops, Announce(o) PROVE Quiet'
  BY <1>0, <1>7 DEF Announce, Publish, Unsubscribed
<1>8. ASSUME NEW o \in Ops, Loaded(o) PROVE Quiet'
  BY <1>0, <1>8 DEF Loaded, Replace, Interrupted
<1>9. ASSUME NEW o \in Ops, Ended(o) PROVE Quiet'
  <2>1. OneOperation' /\ Window' /\ LockHolds' /\ RunningHolds' /\ RunsSerial'
    BY <1>0, <1>9 DEF Ended
  <2>2. LockKept'
    <3>1. ASSUME lock # none, on[lock] = runner PROVE EndedInTurn(lock)'
      <4>1. kind[o] = "end" /\ target[o] = id[on[lock]]
        BY <1>9, <3>1 DEF Ended
      <4>2. kind'[o] = "end" /\ target'[o] = id'[on'[lock]] /\ on'[lock] # runner'
        BY <1>9, <3>1, <4>1 DEF Ended
      <4>3. lock' = lock
        BY <1>9 DEF Ended
      <4> QED
        BY <4>2, <4>3 DEF EndedInTurn
    <3> QED
      BY <1>0, <1>9, <3>1 DEF Ended
  <2>3. Shown' /\ ArchiveKept'
    BY <1>9 DEF Ended
  <2> QED
    BY <2>1, <2>2, <2>3
<1>10. ASSUME NEW o \in Ops, Removed(o) PROVE Quiet'
  BY <1>0, <1>10 DEF Removed, Fresh, Replace, Interrupted, Used
<1>11. ASSUME NEW o \in Ops, Start(o) PROVE Quiet'
  <2>0. Pending = {}
    BY <1>11 DEF Start, Begin
  <2>1. OneOperation' /\ Window' /\ LockHolds'
    BY <1>0, <2>0, <1>11 DEF Start, Begin, Fresh, Replace, Interrupted, Used
  <2>2. RunningHolds' /\ RunsSerial'
    BY <1>0, <2>0, <1>11 DEF Start, Begin, Fresh, Replace, Interrupted, Used
  <2>3. LockKept' /\ Shown' /\ ArchiveKept'
    BY <1>0, <2>0, <1>11 DEF Start, Begin, Fresh, Replace, Interrupted, Used
  <2> QED
    BY <2>1, <2>2, <2>3
<1>12. ASSUME NEW o \in Ops, End(o) PROVE Quiet'
  <2>0. Pending = {}
    BY <1>12 DEF End, Begin
  <2>1. OneOperation' /\ Window' /\ LockHolds'
    BY <1>0, <2>0, <1>12 DEF End, Begin
  <2>2. RunningHolds' /\ RunsSerial'
    BY <1>0, <2>0, <1>12 DEF End, Begin
  <2>3. LockKept' /\ Shown' /\ ArchiveKept'
    BY <1>0, <2>0, <1>12 DEF End, Begin
  <2> QED
    BY <2>1, <2>2, <2>3
<1>13. ASSUME NEW o \in Ops, Fails(o) PROVE Quiet'
  BY <1>0, <1>13 DEF Fails
<1>14. CASE HubGiveUp
  BY <1>0, <1>14 DEF HubGiveUp
<1>15. CASE HubWait
  BY <1>0, <1>15 DEF HubWait
<1>16. CASE Interrupt
  BY <1>0, <1>16 DEF Interrupt, Interrupted
<1>17. CASE HubClose
  BY <1>0, <1>17 DEF HubClose, Unsubscribed
<1>18. ASSUME NEW o \in Ops, NEW i \in Ids, Resume(o, i) PROVE Quiet'
  <2>0. Pending = {}
    BY <1>18 DEF Resume, Begin
  <2>1. OneOperation' /\ Window' /\ LockHolds'
    BY <1>0, <2>0, <1>18 DEF Resume, Begin, Load
  <2>2. RunningHolds' /\ RunsSerial'
    BY <1>0, <2>0, <1>18 DEF Resume, Begin, Load
  <2>3. LockKept' /\ Shown' /\ ArchiveKept'
    BY <1>0, <2>0, <1>18 DEF Resume, Begin, Load
  <2> QED
    BY <2>1, <2>2, <2>3
<1>19. ASSUME NEW o \in Ops, NEW i \in Ids, Remove(o, i) PROVE Quiet'
  BY SMTT(40), <1>0, <1>19 DEF Remove, Delete, Begin, Load
<1>20. ASSUME NEW o \in Ops, NEW i \in Ids, HubOpen(o, "resume", i) PROVE Quiet'
  <2>0. Pending = {}
    BY <1>20 DEF HubOpen, Begin
  <2>1. OneOperation' /\ Window' /\ LockHolds'
    BY <1>0, <2>0, <1>20 DEF HubOpen, Begin, Load, Unsubscribed
  <2>2. RunningHolds' /\ RunsSerial'
    BY <1>0, <2>0, <1>20 DEF HubOpen, Begin, Load, Unsubscribed
  <2>3. LockKept' /\ Shown' /\ ArchiveKept'
    BY <1>0, <2>0, <1>20 DEF HubOpen, Begin, Load, Unsubscribed
  <2> QED
    BY <2>1, <2>2, <2>3
<1>21. ASSUME NEW o \in Ops, HubOpen(o, "start", none) PROVE Quiet'
  <2>0. Pending = {}
    BY <1>21 DEF HubOpen, Begin
  <2>1. OneOperation' /\ Window' /\ LockHolds'
    BY <1>0, <2>0, <1>21 DEF HubOpen, Begin, Fresh, Replace, Interrupted, Used, Unsubscribed
  <2>2. RunningHolds' /\ RunsSerial'
    BY <1>0, <2>0, <1>21 DEF HubOpen, Begin, Fresh, Replace, Interrupted, Used, Unsubscribed
  <2>3. LockKept' /\ Shown' /\ ArchiveKept'
    BY <1>0, <2>0, <1>21 DEF HubOpen, Begin, Fresh, Replace, Interrupted, Used, Unsubscribed
  <2> QED
    BY <2>1, <2>2, <2>3
<1>22. CASE UNCHANGED vars
  BY <1>0, <1>22 DEF vars
<1>23. CASE ShellReports \/ SetModel
  <2>1. UNCHANGED <<controller, files, turns, ops, hub, raced, faults>>
    BY <1>23 DEF ShellReports, SetModel
  <2> QED
    BY ONLY IInv, Undisturbed', <1>0, <2>1 DEF EndedInTurn
<1>24. ASSUME NEW i \in Ids, Written(i) PROVE Quiet'
  BY <1>0, <1>24 DEF Written
<1> QED
  BY ONLY [Next]_vars, <1>1, <1>2, <1>3, <1>4, <1>5, <1>6, <1>7, <1>8, <1>9, <1>10, <1>11, <1>12,
          <1>13, <1>14, <1>15, <1>16, <1>17, <1>18, <1>19, <1>20, <1>21, <1>22, <1>23, <1>24
  DEF Next, Work, Clients, Faults

LEMMA Invariant == Spec => []IInv
<1>1. Init => TypeInv
  BY InitTyped
<1>2. Init => Quiet
  BY DEF Init, Quiet, OneOperation, Window, LockHolds, RunningHolds, RunsSerial, LockKept, Shown,
         ArchiveKept, Pending, InFlight
<1>3. IInv => TypeInv
  BY DEF IInv
<1>4. Init => IInv
  BY <1>1, <1>2 DEF IInv
<1> QED
  BY <1>3, <1>4, TypeStep, QuietStep, PTL DEF Spec

\* runTurnExclusive(): any number of clients of the TUI and of the hub, with sessions replaced
\* under their turns, have one turn that is not interrupted, and one run() per runner.
THEOREM SerialTurns == Spec => []TurnsSerial
<1>1. IInv => TurnsSerial
  BY DEF IInv, Quiet, TurnsSerial, RunningHolds
<1> QED
  BY <1>1, Invariant, PTL

\* activate() voids the lock of the turn that it interrupts: a turn of a replaced session that
\* hangs never keeps the next session's submits out.
THEOREM LockVoided == Spec => []LockFollowsRunner
<1>1. IInv => LockFollowsRunner
  BY DEF IInv, Quiet, LockFollowsRunner, LockKept
<1> QED
  BY <1>1, Invariant, PTL

\* publishActive() and the hub's listener: between operations the hub shows the current session
\* and has a subscription to its events.
THEOREM HubShowsSession == Spec => []HubFollows
<1>1. IInv => HubFollows
  BY DEF IInv, TypeInv, Quiet, HubFollows, Shown, Pending
<1> QED
  BY <1>1, Invariant, PTL

\* delete(): no operation writes to an archive that was removed; only a turn that was still
\* unwinding does, and an append that delete() did not wait for.
THEOREM ArchivesStayDeleted == Spec => DeletedStays
<1> DEFINE Rewritten == \A i \in deleted :
             i \notin archive /\ i \in archive'
               => \/ ~Undisturbed
                  \/ \E f \in InFlight : id[on[f]] = i /\ flight'[f] = "done"
                  \/ i \in writes \ writes'
<1>1. IInv /\ [Next]_vars => [Rewritten]_vars
  <2> SUFFICES ASSUME IInv, Next, Undisturbed, NEW i \in deleted, i \notin archive, i \in archive',
                      i \notin writes \ writes'
               PROVE  \E f \in InFlight : id[on[f]] = i /\ flight'[f] = "done"
    OBVIOUS
  <2> USE DEF IInv, Quiet, Window, ArchiveKept, files
  <2>1. ASSUME NEW f \in Flights, Submit(f) \/ HubSubmit(f) \/ HubWake(f) PROVE FALSE
    BY <2>1 DEF Submit, HubSubmit, HubWake, Launch
  <2>2. ASSUME NEW f \in Flights, Land(f)
        PROVE  f \in InFlight /\ id[on[f]] = i /\ flight'[f] = "done"
    BY <2>2 DEF Land, InFlight, TypeInv, TypeOK
  <2>3. ASSUME NEW o \in Ops, Announce(o) \/ Ended(o) \/ Removed(o) PROVE FALSE
    BY <2>3 DEF Announce, Ended, Removed
  <2>4. ASSUME NEW j \in Ids, Written(j) PROVE FALSE
    BY <2>4 DEF Written
  <2>5. archive' = archive \/ \/ \E f \in Flights : Submit(f) \/ HubSubmit(f) \/ HubWake(f) \/ Land(f)
                              \/ \E o \in Ops : Announce(o) \/ Ended(o) \/ Removed(o)
                              \/ \E j \in Ids : Written(j)
    BY ONLY Next
    DEF Next, Work, Clients, Faults, files, HubGiveUp, Install, Loaded, HubWait, Interrupt, HubClose,
        Start, End, Resume, Remove, HubOpen, Hang, Fails, ShellReports, SetModel
  <2> QED
    BY <2>1, <2>2, <2>3, <2>4, <2>5
<1> QED
  BY <1>1, Invariant, PTL DEF Spec, DeletedStays
=============================================================================
