------------------------- MODULE TeamTaskTickProofs -------------------------
(***************************************************************************)
(* Theorems about TeamTaskTick for every plan, every number of tick        *)
(* processes and every bound: type correctness; the order in which steps   *)
(* start; the control of the ticks, on which the rest and the proofs of    *)
(* TeamTaskAttemptProofs stand; and that a task reported done is done.     *)
(***************************************************************************)
EXTENDS TeamTaskTick, FiniteSetTheorems, TLAPS

----------------------------------------------------------------------------
(* The SQL writes keep a row a row. *)

\* Every guarded UPDATE of the store returns a row (set_step_status,
\* reserve_step, reset_step_to_pending, the coordinator's and the halt's).
LEMMA RowWrites ==
    ASSUME NEW r \in Row, NEW a \in 0 .. MaxAttempt, NEW st \in StepStatus
    PROVE  /\ SetStepStatus(r, a, st) \in Row
           /\ MarkDead(r, a, st) \in Row
           /\ ReserveStep(r, a) \in Row
           /\ ResetStepToPending(r) \in Row
           /\ MarkStepDropped(r) \in Row
           /\ MarkDoneByCoordinator(r) \in Row
           /\ GiveUpWrite(r, a) \in Row
           /\ HaltStep(r) \in Row
           /\ [r EXCEPT !.status = "failed"] \in Row
           /\ [r EXCEPT !.pid = a] \in Row
           /\ [r EXCEPT !.live = TRUE] \in Row
           /\ [r EXCEPT !.live = FALSE] \in Row
<1>0. {"pending", "running", "done", "failed"} \subseteq StepStatus BY DEF StepStatus
<1>. USE NumberAssumption, <1>0 DEF Row
<1>1. SetStepStatus(r, a, st) \in Row BY DEF SetStepStatus
<1>2. MarkDead(r, a, st) \in Row BY DEF MarkDead
<1>3. ReserveStep(r, a) \in Row
  <2>1. \A f \in BOOLEAN :
           [r EXCEPT !.status = "running", !.attempt = a, !.live = f] \in Row OBVIOUS
  <2>. QED BY <2>1, Zenon DEF ReserveStep
<1>4. ResetStepToPending(r) \in Row
  <2>1. \A z \in 0 .. MaxAttempt, f \in BOOLEAN :
           [r EXCEPT !.status = "pending", !.attempt = z, !.pid = z, !.live = f] \in Row
    OBVIOUS
  <2>2. 0 \in 0 .. MaxAttempt OBVIOUS
  <2>. QED BY <2>1, <2>2, Zenon DEF ResetStepToPending
<1>5. MarkStepDropped(r) \in Row
  <2>1. \A z \in 0 .. MaxAttempt, f \in BOOLEAN :
           [r EXCEPT !.status = "done", !.attempt = z, !.outcome = f, !.everDone = f] \in Row
    OBVIOUS
  <2>2. 0 \in 0 .. MaxAttempt OBVIOUS
  <2>. QED BY <2>1, <2>2, Zenon DEF MarkStepDropped
<1>6. MarkDoneByCoordinator(r) \in Row BY DEF MarkDoneByCoordinator
<1>7. GiveUpWrite(r, a) \in Row BY DEF GiveUpWrite
<1>8. HaltStep(r) \in Row BY DEF HaltStep
<1>. QED BY <1>1, <1>2, <1>3, <1>4, <1>5, <1>6, <1>7, <1>8

\* kill_pid leaves the processes of a step a family of process states.
LEMMA KillPidType ==
    ASSUME NEW r \in Row, NEW w \in [Attempt -> WorkerState]
    PROVE  KillPid(r, w) \in [Attempt -> WorkerState]
BY DEF KillPid, WorkerState

\* dispatch_ready_steps computes a number of slots, never a negative one.
LEMMA FreeSlotsType == ASSUME NEW seen PROVE FreeSlots(seen) \in Nat
<1>. DEFINE R == {s \in Step : seen[s].status = "running"}
<1>1. IsFiniteSet(R) BY StepAssumption, FS_Subset, R \subseteq Step
<1>2. Cardinality(R) \in Nat BY <1>1, FS_CardinalityType
<1>. QED BY <1>2, NumberAssumption DEF FreeSlots

----------------------------------------------------------------------------
(* The moves of a tick keep its own variables typed.  TypeOK alone is not  *)
(* inductive: a tick that awaits a ruling must have a step to rule on.     *)

TickTypes ==
    /\ pc \in [Ticker -> TickPC]
    /\ snap \in [Ticker -> [Step -> Row]]
    /\ todo \in [Ticker -> SUBSET Step]
    /\ cur \in [Ticker -> Step \cup {0}]
    /\ slots \in [Ticker -> Nat]
    /\ \A t \in Ticker : pc[t] = "rule" => cur[t] \in Step

TypeInv == TypeOK /\ TickTypes

\* No rows have been read: the snapshot of a tick that is not acting.
LEMMA NoSnapType == NoSnap \in [Step -> Row]
BY NumberAssumption DEF NoSnap, FreshRow, Row, StepStatus

\* A tick that has finished acting has typed variables.
LEMMA FinishTypes ==
    ASSUME TickTypes, NEW t \in Ticker, Finish(t) PROVE TickTypes'
BY NoSnapType DEF TickTypes, Finish, TickPC

\* A tick that moves on to another step has typed variables.
LEMMA GoToTypes ==
    ASSUME TickTypes, NEW t \in Ticker, NEW p \in TickPC, NEW S \in SUBSET Step,
           NEW s \in Step \cup {0}, NEW n \in Nat, p = "rule" => s \in Step,
           GoTo(t, p, S, s, n)
    PROVE  TickTypes'
BY DEF TickTypes, GoTo

\* So has one that goes on to its next claim.
LEMMA ClaimNextTypes ==
    ASSUME TickTypes, NEW t \in Ticker, NEW S \in SUBSET Step, NEW n \in Nat,
           ClaimNext(t, S, n)
    PROVE  TickTypes'
<1>1. CASE Finish(t) BY <1>1, FinishTypes
<1>2. CASE n > 0 /\ \E s \in S : GoTo(t, "claim", S \ {s}, s, n - 1)
  <2>1. PICK s \in S : GoTo(t, "claim", S \ {s}, s, n - 1) BY <1>2
  <2>2. n - 1 \in Nat /\ "claim" \in TickPC /\ S \ {s} \in SUBSET Step /\ s \in Step
    BY <1>2 DEF TickPC
  <2>. QED BY <2>1, <2>2, GoToTypes
<1>. QED BY <1>1, <1>2 DEF ClaimNext

----------------------------------------------------------------------------
(* Type correctness. *)

\* A write of one row keeps the table a table.
LEMMA UpdateRowType ==
    ASSUME row \in [Step -> Row], NEW s, NEW r, s \in Step => r \in Row,
           UpdateRow(s, r)
    PROVE  row' \in [Step -> Row]
BY DEF UpdateRow

\* No action of a tick takes a variable out of its type.
LEMMA TickStepTypes ==
    ASSUME TypeInv, NEW t \in Ticker, TickStep(t) PROVE TypeInv'
<1>0. TypeOK /\ TickTypes BY DEF TypeInv
<1>. USE <1>0 DEF TypeOK
<1>a. \A t1 \in Ticker, s \in Step : snap[t1][s] \in Row /\ snap[t1][s].attempt \in 0 .. MaxAttempt
  BY DEF Row
<1>b. \A s \in Step : todo[t] \ {s} \in SUBSET Step OBVIOUS
<1>c. \A p \in {"visit", "rule", "resolve", "claim", "spawn", "record",
                "aggregate", "conclude", "sweep"} : p \in TickPC BY DEF TickPC
<1>d. \A st \in {"done", "failed", "timeout"} : st \in StepStatus BY DEF StepStatus
<1>e. {} \in SUBSET Step /\ 0 \in Step \cup {0} /\ 0 \in Nat OBVIOUS
<1>1. CASE TickBegin(t)
  <2>1. CASE task # "open" /\ Finish(t)
    <3>1. TickTypes' BY <2>1, FinishTypes
    <3>. QED BY <1>1, <3>1 DEF TickBegin, TypeInv, TickTypes, stepVars, boundVars
  <2>2. CASE /\ snap' = [snap EXCEPT ![t] = row]
             /\ todo' = [todo EXCEPT ![t] = ToVisit(row)]
             /\ pc' = [pc EXCEPT ![t] = "visit"]
             /\ UNCHANGED <<cur, slots>>
    <3>1. ToVisit(row) \in SUBSET Step BY DEF ToVisit
    <3>2. TickTypes' BY <1>c, <2>2, <3>1 DEF TickTypes
    <3>. QED BY <1>1, <3>2 DEF TickBegin, TypeInv, TickTypes, stepVars, boundVars
  <2>. QED BY <1>1, <2>1, <2>2 DEF TickBegin
<1>2. ASSUME NEW s \in Step, PollQuiet(t, s) PROVE TypeInv'
  <2>1. TickTypes' BY <1>2, <1>b, <1>c, <1>e, GoToTypes DEF PollQuiet, Skip
  <2>. QED BY <1>2, <2>1 DEF PollQuiet, OnlyTick, OnlyRow, TypeInv, TickTypes, boundVars
<1>3. ASSUME NEW s \in Step, PollRetry(t, s) PROVE TypeInv'
  <2>1. TickTypes' BY <1>3, <1>c, <1>e, GoToTypes DEF PollRetry
  <2>. QED BY <1>3, <2>1 DEF PollRetry, TypeInv, TickTypes, boundVars
<1>4. ASSUME NEW s \in Step, PollExhausted(t, s) PROVE TypeInv'
  <2>1. TickTypes' BY <1>4, FinishTypes DEF PollExhausted
  <2>2. row' \in [Step -> Row]
    BY <1>4, <1>a, <1>d, RowWrites, UpdateRowType DEF PollExhausted
  <2>. QED BY <1>4, <2>1, <2>2 DEF PollExhausted, TypeInv, TickTypes, boundVars
<1>5. ASSUME NEW s \in Step, PollTimeout(t, s) PROVE TypeInv'
  <2>1. TickTypes' BY <1>5, FinishTypes DEF PollTimeout
  <2>2. row' \in [Step -> Row]
    BY <1>5, <1>a, <1>d, RowWrites, UpdateRowType DEF PollTimeout
  <2>3. worker' \in [Step -> [Attempt -> WorkerState]]
    BY <1>5, <1>a, KillPidType DEF PollTimeout
  <2>. QED BY <1>5, <2>1, <2>2, <2>3 DEF PollTimeout, TypeInv, TickTypes, boundVars
<1>6. ASSUME NEW s \in Step, PollClarify(t, s) PROVE TypeInv'
  <2>1. TickTypes' BY <1>6, <1>b, <1>c, <1>e, GoToTypes DEF PollClarify, Skip
  <2>. QED BY <1>6, <2>1 DEF PollClarify, OnlyTick, OnlyRow, TypeInv, TickTypes, boundVars
<1>7. ASSUME NEW s \in Step, SpendIntervention(t, s) PROVE TypeInv'
  <2>1. TickTypes'
    <3>1. {s} \in SUBSET Step /\ todo[t] \in SUBSET Step OBVIOUS
    <3>. QED BY <1>7, <1>c, <1>e, <3>1, GoToTypes DEF SpendIntervention
  <2>. QED BY <1>7, <2>1 DEF SpendIntervention, TypeInv, TickTypes, boundVars
<1>8. ASSUME NEW s \in Step, ResolveSelfDo(t, s) PROVE TypeInv'
  <2>1. TickTypes' BY <1>8, FinishTypes DEF ResolveSelfDo
  <2>2. row' \in [Step -> Row]
    BY <1>8, <1>a, <1>d, RowWrites, UpdateRowType DEF ResolveSelfDo
  <2>. QED BY <1>8, <2>1, <2>2 DEF ResolveSelfDo, OnlyRow, TypeInv, TickTypes, boundVars
<1>9. ASSUME NEW s \in Step, ResolveSkip(t, s) PROVE TypeInv'
  <2>1. TickTypes' BY <1>9, FinishTypes DEF ResolveSkip
  <2>2. row' \in [Step -> Row]
    BY <1>9, <1>a, <1>d, RowWrites, UpdateRowType DEF ResolveSkip
  <2>. QED BY <1>9, <2>1, <2>2 DEF ResolveSkip, OnlyRow, TypeInv, TickTypes, boundVars
<1>10. ASSUME NEW s \in Step, ResolveNone(t, s) PROVE TypeInv'
  <2>1. TickTypes' BY <1>10, <1>b, <1>c, <1>e, GoToTypes DEF ResolveNone
  <2>2. row' \in [Step -> Row]
    BY <1>10, <1>a, <1>d, RowWrites, UpdateRowType DEF ResolveNone
  <2>. QED BY <1>10, <2>1, <2>2 DEF ResolveNone, OnlyRow, TypeInv, TickTypes, boundVars
<1>11. CASE RuleAccept(t)
  <2>1. TickTypes'
    BY <1>11, <1>c, <1>e, FinishTypes, GoToTypes DEF RuleAccept, Skip
  <2>2. row' \in [Step -> Row]
    BY <1>11, <1>d, RowWrites, UpdateRowType DEF RuleAccept
  <2>. QED BY <1>11, <2>1, <2>2 DEF RuleAccept, OnlyRow, TypeInv, TickTypes, boundVars
<1>12. CASE RuleRetry(t)
  <2>1. TickTypes' BY <1>12, FinishTypes DEF RuleRetry
  <2>2. row' \in [Step -> Row]
    BY <1>12, <1>d, RowWrites, UpdateRowType DEF RuleRetry
  <2>. QED BY <1>12, <2>1, <2>2 DEF RuleRetry, OnlyRow, TypeInv, TickTypes, boundVars
<1>13. CASE RuleGiveUp(t)
  <2>1. TickTypes'
    <3>1. cur[t] \in Step BY <1>13 DEF RuleGiveUp, TickTypes
    <3>. QED BY <1>13, <1>c, <1>e, <3>1, GoToTypes DEF RuleGiveUp
  <2>. QED BY <1>13, <2>1 DEF RuleGiveUp, OnlyTick, OnlyRow, TypeInv, TickTypes, boundVars
<1>14. CASE Dispatch(t)
  <2>1. ReadyPendingSteps(snap[t]) \in SUBSET Step BY DEF ReadyPendingSteps
  <2>2. TickTypes' BY <1>14, <2>1, FreeSlotsType, ClaimNextTypes DEF Dispatch
  <2>. QED BY <1>14, <2>2 DEF Dispatch, OnlyTick, OnlyRow, TypeInv, TickTypes, boundVars
<1>15. CASE Aggregate(t)
  <2>1. TickTypes' BY <1>15, <1>c, <1>e, GoToTypes DEF Aggregate
  <2>. QED BY <1>15, <2>1 DEF Aggregate, OnlyTick, OnlyRow, TypeInv, TickTypes, boundVars
<1>16. CASE DeadEnd(t)
  <2>1. DeadSteps(snap[t]) \in SUBSET Step BY DEF DeadSteps
  <2>2. TickTypes' BY <1>16, <1>c, <1>e, <2>1, GoToTypes DEF DeadEnd
  <2>. QED BY <1>16, <2>2 DEF DeadEnd, OnlyTick, OnlyRow, TypeInv, TickTypes, boundVars
<1>17. CASE NothingToDo(t)
  <2>1. TickTypes' BY <1>17, FinishTypes DEF NothingToDo
  <2>. QED BY <1>17, <2>1 DEF NothingToDo, OnlyTick, OnlyRow, TypeInv, TickTypes, boundVars
<1>18. CASE RosterReject(t)
  <2>1. TickTypes' BY <1>18, ClaimNextTypes DEF RosterReject
  <2>2. row' \in [Step -> Row]
    BY <1>18, <1>e, RowWrites, UpdateRowType, NumberAssumption, <1>d DEF RosterReject
  <2>. QED BY <1>18, <2>1, <2>2 DEF RosterReject, OnlyRow, TypeInv, TickTypes, boundVars
<1>19. CASE Claim(t)
  <2>1. CASE Claimable(row[cur[t]], snap[t][cur[t]])
    <3>1. TickTypes'
      BY <1>19, <2>1, <1>c, GoToTypes DEF Claim
    <3>2. /\ minted' = [minted EXCEPT ![cur[t]] = @ + 1]
          /\ minted[cur[t]] < MaxAttempt
          /\ UpdateRow(cur[t], ReserveStep(row[cur[t]], minted'[cur[t]]))
      BY <1>19, <2>1 DEF Claim
    <3>3. minted' \in [Step -> 0 .. MaxAttempt]
      <4>1. cur[t] \in Step => minted[cur[t]] + 1 \in 0 .. MaxAttempt
        BY <3>2, NumberAssumption
      <4>. QED BY <3>2, <4>1
    <3>4. cur[t] \in Step => ReserveStep(row[cur[t]], minted'[cur[t]]) \in Row
      BY <3>3, <1>d, RowWrites
    <3>5. row' \in [Step -> Row] BY <3>2, <3>4, UpdateRowType
    <3>. QED BY <1>19, <3>1, <3>3, <3>5 DEF Claim, TypeInv, TickTypes, boundVars
  <2>2. CASE ~Claimable(row[cur[t]], snap[t][cur[t]])
    <3>1. ClaimNext(t, todo[t], slots[t]) /\ UNCHANGED <<row, minted>>
      BY <1>19, <2>2 DEF Claim
    <3>2. TickTypes' BY <3>1, ClaimNextTypes
    <3>. QED BY <1>19, <3>1, <3>2 DEF Claim, TypeInv, TickTypes, boundVars
  <2>. QED BY <2>1, <2>2
<1>20. CASE Spawn(t)
  <2>1. TickTypes' BY <1>20, <1>c, GoToTypes DEF Spawn
  <2>2. worker' \in [Step -> [Attempt -> WorkerState]]
    BY <1>20 DEF Spawn, WorkerState
  <2>. QED BY <1>20, <2>1, <2>2 DEF Spawn, TypeInv, TickTypes, boundVars
<1>21. CASE RecordSpawn(t)
  <2>1. TickTypes' BY <1>21, ClaimNextTypes DEF RecordSpawn
  <2>2. row' \in [Step -> Row]
    BY <1>21, <1>d, RowWrites, UpdateRowType DEF RecordSpawn
  <2>. QED BY <1>21, <2>1, <2>2 DEF RecordSpawn, OnlyRow, TypeInv, TickTypes, boundVars
<1>22. CASE AggregateDone(t)
  <2>1. TickTypes' BY <1>22, FinishTypes DEF AggregateDone
  <2>. QED BY <1>22, <2>1
         DEF AggregateDone, TaskStatus, stepVars, TypeInv, TickTypes, boundVars
<1>23. CASE Conclude(t)
  <2>1. TickTypes' BY <1>23, FinishTypes DEF Conclude
  <2>. QED BY <1>23, <2>1
         DEF Conclude, TaskStatus, stepVars, TypeInv, TickTypes, boundVars
<1>24. CASE Sweep(t)
  <2>1. TickTypes' BY <1>24 DEF Sweep, TickTypes, TickPC
  <2>2. row' \in [Step -> Row]
    <3>1. \A s \in Step : HaltStep(row[s]) \in Row BY <1>d, <1>a, RowWrites
    <3>. QED BY <1>24, <3>1 DEF Sweep
  <2>3. worker' \in [Step -> [Attempt -> WorkerState]]
    BY <1>24, KillPidType DEF Sweep
  <2>. QED BY <1>24, <2>1, <2>2, <2>3 DEF Sweep, TypeInv, TickTypes, boundVars
<1>. QED
  BY <1>1, <1>2, <1>3, <1>4, <1>5, <1>6, <1>7, <1>8, <1>9, <1>10, <1>11, <1>12,
     <1>13, <1>14, <1>15, <1>16, <1>17, <1>18, <1>19, <1>20, <1>21, <1>22, <1>23,
     <1>24 DEF TickStep

\* Nor does any action of a worker, of the clock or of the CEO.
LEMMA OtherStepTypes ==
    ASSUME TypeInv, Next, \A t \in Ticker : ~TickStep(t) PROVE TypeInv'
<1>0. TypeOK /\ TickTypes BY DEF TypeInv
<1>. USE <1>0 DEF TypeOK
<1>a. "failed" \in StepStatus /\ 0 \in 0 .. MaxAttempt
  BY NumberAssumption DEF StepStatus
<1>1. ASSUME NEW t \in Ticker, TickCrash(t) PROVE TypeInv'
  <2>1. TickTypes' BY <1>1, NoSnapType DEF TickCrash, TickTypes, TickPC
  <2>. QED BY <1>1, <2>1 DEF TickCrash, TypeInv, TickTypes, stepVars
<1>2. ASSUME NEW s \in Step, NEW a \in Attempt, WorkerStart(s, a) PROVE TypeInv'
  <2>1. worker' \in [Step -> [Attempt -> WorkerState]]
    BY <1>2 DEF WorkerStart, WorkerState
  <2>. QED BY <1>2, <2>1 DEF WorkerStart, TypeInv, TickTypes, tickVars, boundVars
<1>3. ASSUME NEW s \in Step, NEW a \in Attempt, WorkerCrash(s, a) PROVE TypeInv'
  <2>1. worker' \in [Step -> [Attempt -> WorkerState]]
    BY <1>3 DEF WorkerCrash, WorkerState
  <2>. QED BY <1>3, <2>1 DEF WorkerCrash, TypeInv, TickTypes, tickVars, boundVars
<1>4. ASSUME NEW s \in Step, NEW a \in Attempt, NEW o \in Outcome, WorkerEnd(s, a, o)
      PROVE  TypeInv'
  <2>1. worker' \in [Step -> [Attempt -> WorkerState]]
    BY <1>4 DEF WorkerEnd, WorkerState
  <2>2. o \in StepStatus /\ a \in 0 .. MaxAttempt
    BY OutcomeAssumption DEF WorkerOutcomes, StepStatus, Attempt
  <2>3. row' \in [Step -> Row]
    BY <1>4, <2>2, RowWrites, UpdateRowType DEF WorkerEnd
  <2>4. answered' \subseteq Step /\ asked' \in [Step -> Nat]
    <3>1. CASE o \in Pauses
      <4>1. asked' = [asked EXCEPT ![s] = @ + 1] /\ answered' = answered \ {s}
        BY <1>4, <3>1 DEF WorkerEnd
      <4>. QED BY <4>1
    <3>2. CASE o \notin Pauses BY <1>4, <3>2 DEF WorkerEnd
    <3>. QED BY <3>1, <3>2
  <2>. QED BY <1>4, <2>1, <2>3, <2>4 DEF WorkerEnd, TypeInv, TickTypes, tickVars, boundVars
<1>5. ASSUME NEW s \in Step, NEW a \in Attempt, Heartbeat(s, a) PROVE TypeInv'
  <2>1. row' \in [Step -> Row] BY <1>5, <1>a, RowWrites, UpdateRowType DEF Heartbeat
  <2>. QED BY <1>5, <2>1 DEF Heartbeat, TypeInv, TickTypes, tickVars, boundVars
<1>6. ASSUME NEW s \in Step, LeaseExpires(s) PROVE TypeInv'
  <2>1. row' \in [Step -> Row] BY <1>6, <1>a, RowWrites, UpdateRowType DEF LeaseExpires
  <2>. QED BY <1>6, <2>1 DEF LeaseExpires, TypeInv, TickTypes, tickVars, boundVars
<1>7. ASSUME NEW s \in Step, HumanSettles(s) PROVE TypeInv'
  BY <1>7 DEF HumanSettles, TypeInv, TickTypes, tickVars, boundVars
<1>8. CASE CancelTask
  BY <1>8 DEF CancelTask, TaskStatus, TypeInv, TickTypes, tickVars, stepVars, boundVars
<1>9. CASE RetryStalled
  <2>1. row' \in [Step -> Row] BY <1>9, <1>a, RowWrites DEF RetryStalled, Revive
  <2>. QED BY <1>9, <2>1
         DEF RetryStalled, Revive, TaskStatus, TypeInv, TickTypes, tickVars
<1>10. CASE DropStalled
  <2>1. row' \in [Step -> Row] BY <1>10, <1>a, RowWrites DEF DropStalled, Revive
  <2>. QED BY <1>10, <2>1
         DEF DropStalled, Revive, TaskStatus, TypeInv, TickTypes, tickVars
<1>11. CASE AcceptStalled
  BY <1>11 DEF AcceptStalled, Revive, TaskStatus, TypeInv, TickTypes, tickVars
<1>. QED
  BY <1>1, <1>2, <1>3, <1>4, <1>5, <1>6, <1>7, <1>8, <1>9, <1>10, <1>11 DEF Next, WorkerStep

\* Nothing happens: every variable keeps its type.
LEMMA StutterTypes == ASSUME TypeInv, UNCHANGED vars PROVE TypeInv'
BY DEF TypeInv, TypeOK, TickTypes, vars, stepVars, tickVars, boundVars

\* The variables of the tick start typed.
LEMMA InitTypes == Init => TypeInv
<1>. SUFFICES ASSUME Init PROVE TypeInv OBVIOUS
<1>. USE DEF Init
<1>1. TickTypes BY NoSnapType DEF TickTypes, TickPC
<1>2. TypeOK
  BY <1>1, NoSnapType, NumberAssumption DEF TypeOK, TickTypes, TaskStatus, WorkerState
<1>. QED BY <1>1, <1>2 DEF TypeInv

\* The invariant behind type correctness, for the theorems that follow.
THEOREM TypeInvariant == Spec => []TypeInv
<1>1. TypeInv /\ [Next]_vars => TypeInv'
  BY TickStepTypes, OtherStepTypes, StutterTypes
<1>. QED BY InitTypes, <1>1, PTL DEF Spec

\* Whatever the ticks, workers and people do, the store, the processes and the
\* ticks' snapshots keep their types; no write of a row leaves its columns.
THEOREM TypeCorrect == Spec => []TypeOK
<1>1. TypeInv => TypeOK BY DEF TypeInv
<1>. QED BY TypeInvariant, <1>1, PTL

----------------------------------------------------------------------------
(* The inductive strengthening of StartedInOrder. *)

\* What a row can only say once a worker of the step has been started.
Begun == {"running", "awaiting_approval", "waiting_clarify", "needs_decision"}

\* A step that a tick may claim: ready in its snapshot, or begun there.
MayClaim(seen, s) ==
    s \in Step /\ (s \in ReadyPendingSteps(seen) \/ seen[s].status \in Begun)

\* A row r of a step for which m attempt ids have been minted.
InOrder(r, m) ==
    /\ r.attempt <= m
    /\ r.status \in Begun => m > 0
    /\ r.status = "done" => r.everDone

RowsInOrder == \A s \in Step : InOrder(row[s], minted[s])

SnapsInOrder ==
    \A t \in Ticker : \A s \in Step :
        /\ snap[t][s].status \in Begun => minted[s] > 0
        /\ snap[t][s].status = "done" => row[s].everDone

ClaimsInOrder ==
    \A t \in Ticker :
        pc[t] \in {"claim", "spawn", "record"} =>
            /\ MayClaim(snap[t], cur[t])
            /\ \A s \in todo[t] : s \in ReadyPendingSteps(snap[t])

OrderInv == RowsInOrder /\ SnapsInOrder /\ ClaimsInOrder /\ StartedInOrder

\* A write keeps a row in order and never forgets that its step was done.
Kept(r, q, m) == InOrder(q, m) /\ (r.everDone => q.everDone)

\* Every guarded UPDATE keeps its row; a worker's needs an attempt id.
LEMMA RowsKept ==
    ASSUME NEW r \in Row, NEW m \in Nat, InOrder(r, m), NEW a \in 0 .. MaxAttempt
    PROVE  /\ \A st \in StepStatus : a > 0 => Kept(r, SetStepStatus(r, a, st), m)
           /\ \A st \in Dead : Kept(r, MarkDead(r, a, st), m)
           /\ a > 0 => Kept(r, ReserveStep(r, a), a)
           /\ Kept(r, ResetStepToPending(r), m)
           /\ Kept(r, MarkStepDropped(r), m)
           /\ Kept(r, MarkDoneByCoordinator(r), m)
           /\ Kept(r, GiveUpWrite(r, a), m)
           /\ Kept(r, HaltStep(r), m)
           /\ Kept(r, [r EXCEPT !.status = "failed"], m)
           /\ Kept(r, [r EXCEPT !.pid = a], m)
           /\ Kept(r, [r EXCEPT !.live = TRUE], m)
           /\ Kept(r, [r EXCEPT !.live = FALSE], m)
<1>. USE NumberAssumption DEF Row, Kept, InOrder, Begun
<1>1. ASSUME NEW st \in StepStatus, a > 0 PROVE Kept(r, SetStepStatus(r, a, st), m)
  <2>1. CASE r.attempt # a BY <2>1 DEF SetStepStatus
  <2>2. CASE r.attempt = a
    <3>. DEFINE q == SetStepStatus(r, a, st)
    <3>1. q.attempt = a /\ q.status = st BY <2>2 DEF SetStepStatus
    <3>2. (st = "done" => q.everDone) /\ (r.everDone => q.everDone)
      BY <2>2 DEF SetStepStatus
    <3>. QED BY <1>1, <2>2, <3>1, <3>2
  <2>. QED BY <2>1, <2>2
<1>2. ASSUME NEW st \in Dead PROVE Kept(r, MarkDead(r, a, st), m)
  BY <1>2 DEF MarkDead, Dead
<1>3. a > 0 => Kept(r, ReserveStep(r, a), a) BY DEF ReserveStep
<1>4. Kept(r, ResetStepToPending(r), m) BY DEF ResetStepToPending
<1>5. Kept(r, MarkStepDropped(r), m) BY DEF MarkStepDropped
<1>6. Kept(r, MarkDoneByCoordinator(r), m) BY DEF MarkDoneByCoordinator
<1>7. Kept(r, GiveUpWrite(r, a), m) BY DEF GiveUpWrite
<1>8. Kept(r, HaltStep(r), m) BY DEF HaltStep
<1>9. /\ Kept(r, [r EXCEPT !.status = "failed"], m)
      /\ Kept(r, [r EXCEPT !.pid = a], m)
      /\ Kept(r, [r EXCEPT !.live = TRUE], m)
      /\ Kept(r, [r EXCEPT !.live = FALSE], m) OBVIOUS
<1>. QED BY <1>1, <1>2, <1>3, <1>4, <1>5, <1>6, <1>7, <1>8, <1>9

\* What a step of the system does to the rows, the attempt ids and the
\* snapshots, as far as the order of the steps is concerned.
RowsKeep ==
    \A s \in Step : Kept(row[s], row'[s], minted'[s]) /\ minted'[s] >= minted[s]
SnapsKeep ==
    \A t \in Ticker : snap'[t] = snap[t] \/ snap'[t] = row \/ snap'[t] = NoSnap
MintsKeep ==
    \A s \in Step : minted'[s] > 0 =>
        minted[s] > 0 \/ \A d \in Deps[s] : row[d].everDone

\* Those three facts and the claims are all the order needs.
LEMMA OrderKept ==
    ASSUME TypeInv, TypeInv', OrderInv, RowsKeep, SnapsKeep, MintsKeep, ClaimsInOrder'
    PROVE  OrderInv'
<1>. USE DEF OrderInv
<1>0. /\ minted \in [Step -> 0 .. MaxAttempt] /\ minted' \in [Step -> 0 .. MaxAttempt]
      /\ \A s \in Step : \A d \in Deps[s] : d \in Step
  BY DepsAssumption DEF TypeInv, TypeOK
<1>1. RowsInOrder' BY DEF RowsKeep, Kept, RowsInOrder
<1>2. SnapsInOrder'
  <2>. SUFFICES ASSUME NEW t \in Ticker, NEW s \in Step
       PROVE  /\ snap'[t][s].status \in Begun => minted'[s] > 0
              /\ snap'[t][s].status = "done" => row'[s].everDone
    BY DEF SnapsInOrder
  <2>0. minted'[s] >= minted[s] /\ (row[s].everDone => row'[s].everDone)
    BY DEF RowsKeep, Kept
  <2>1. CASE snap'[t] = snap[t]
    BY <1>0, <2>0, <2>1, NumberAssumption DEF SnapsInOrder
  <2>2. CASE snap'[t] = row
    BY <1>0, <2>0, <2>2, NumberAssumption DEF RowsInOrder, InOrder
  <2>3. CASE snap'[t] = NoSnap BY <2>3 DEF NoSnap, FreshRow, Begun
  <2>. QED BY <2>1, <2>2, <2>3 DEF SnapsKeep
<1>3. StartedInOrder'
  <2>. SUFFICES ASSUME NEW s \in Step, minted'[s] > 0, NEW d \in Deps[s]
       PROVE  row'[d].everDone
    BY DEF StartedInOrder
  <2>1. row[d].everDone BY DEF MintsKeep, StartedInOrder
  <2>. QED BY <1>0, <2>1 DEF RowsKeep, Kept
<1>. QED BY <1>1, <1>2, <1>3

\* A tick that is not about to claim has nothing to claim in order.
LEMMA FinishOrder ==
    ASSUME TypeInv, OrderInv, NEW t \in Ticker, Finish(t)
    PROVE  ClaimsInOrder' /\ SnapsKeep
BY DEF TypeInv, TickTypes, OrderInv, Finish, ClaimsInOrder, SnapsKeep

\* A tick that moves on may claim what it moves on to.
LEMMA GoToOrder ==
    ASSUME TypeInv, OrderInv, NEW t \in Ticker, NEW p, NEW S, NEW s, NEW n,
           GoTo(t, p, S, s, n),
           p \in {"claim", "spawn", "record"} =>
               /\ MayClaim(snap[t], s)
               /\ \A u \in S : u \in ReadyPendingSteps(snap[t])
    PROVE  ClaimsInOrder' /\ SnapsKeep
<1>1. /\ pc' = [pc EXCEPT ![t] = p] /\ todo' = [todo EXCEPT ![t] = S]
      /\ cur' = [cur EXCEPT ![t] = s] /\ snap' = snap
  BY DEF GoTo
<1>. QED BY <1>1 DEF TypeInv, TickTypes, OrderInv, ClaimsInOrder, SnapsKeep

\* dispatch_ready_steps claims ready steps only.
LEMMA ClaimNextOrder ==
    ASSUME TypeInv, OrderInv, NEW t \in Ticker, NEW S, NEW n, ClaimNext(t, S, n),
           \A s \in S : s \in ReadyPendingSteps(snap[t])
    PROVE  ClaimsInOrder' /\ SnapsKeep
<1>1. CASE Finish(t) BY <1>1, FinishOrder
<1>2. CASE \E s \in S : GoTo(t, "claim", S \ {s}, s, n - 1)
  <2>1. PICK s \in S : GoTo(t, "claim", S \ {s}, s, n - 1) BY <1>2
  <2>2. MayClaim(snap[t], s) BY DEF MayClaim, ReadyPendingSteps
  <2>. QED BY <2>1, <2>2, GoToOrder
<1>. QED BY <1>1, <1>2 DEF ClaimNext

\* One row is written, and kept; no attempt id is minted.
LEMMA OneRowKept ==
    ASSUME TypeInv, OrderInv, UNCHANGED minted, NEW s, NEW r, UpdateRow(s, r),
           s \in Step => Kept(row[s], r, minted[s])
    PROVE  RowsKeep /\ MintsKeep
<1>1. \A u \in Step : minted[u] \in Nat /\ Kept(row[u], row[u], minted[u])
  BY NumberAssumption DEF TypeInv, TypeOK, OrderInv, RowsInOrder, Kept
<1>. QED BY <1>1 DEF UpdateRow, RowsKeep, MintsKeep, TypeInv, TypeOK

\* Nothing is written.
LEMMA NoRowKept ==
    ASSUME TypeInv, OrderInv, UNCHANGED minted, UNCHANGED row PROVE RowsKeep /\ MintsKeep
<1>1. \A u \in Step : minted[u] \in Nat /\ Kept(row[u], row[u], minted[u])
  BY NumberAssumption DEF TypeInv, TypeOK, OrderInv, RowsInOrder, Kept
<1>. QED BY <1>1 DEF RowsKeep, MintsKeep

\* The ticks keep the order.
LEMMA TickStepOrder ==
    ASSUME TypeInv, TypeInv', OrderInv, NEW t \in Ticker, TickStep(t) PROVE OrderInv'
<1>0. /\ \A s \in Step : row[s] \in Row /\ minted[s] \in Nat /\ InOrder(row[s], minted[s])
      /\ \A s \in Step : snap[t][s].attempt \in 0 .. MaxAttempt
      /\ \A s \in Step : snap[t][s].status \in Begun => minted[s] > 0
  BY NumberAssumption DEF TypeInv, TypeOK, OrderInv, RowsInOrder, SnapsInOrder, Row
<1>d. {"failed", "timeout"} \subseteq Dead BY DEF Dead
<1>z. 0 \in 0 .. MaxAttempt BY NumberAssumption
<1>c. \A p \in {"visit", "rule", "resolve", "aggregate", "conclude", "sweep"} :
         p \notin {"claim", "spawn", "record"} OBVIOUS
<1>1. CASE TickBegin(t)
  <2>1. RowsKeep /\ MintsKeep BY <1>1, NoRowKept DEF TickBegin, stepVars
  <2>2. ClaimsInOrder' /\ SnapsKeep
    <3>1. CASE Finish(t) BY <3>1, FinishOrder
    <3>2. CASE /\ snap' = [snap EXCEPT ![t] = row]
               /\ todo' = [todo EXCEPT ![t] = ToVisit(row)]
               /\ pc' = [pc EXCEPT ![t] = "visit"]
               /\ UNCHANGED <<cur, slots>>
      BY <3>2 DEF TypeInv, TickTypes, OrderInv, ClaimsInOrder, SnapsKeep
    <3>. QED BY <1>1, <3>1, <3>2 DEF TickBegin
  <2>. QED BY <2>1, <2>2, OrderKept
<1>2. ASSUME NEW s \in Step, PollQuiet(t, s) PROVE OrderInv'
  <2>1. RowsKeep /\ MintsKeep BY <1>2, NoRowKept DEF PollQuiet, OnlyTick, OnlyRow
  <2>2. ClaimsInOrder' /\ SnapsKeep BY <1>2, <1>c, GoToOrder DEF PollQuiet, Skip
  <2>. QED BY <2>1, <2>2, OrderKept
<1>3. ASSUME NEW s \in Step, PollRetry(t, s) PROVE OrderInv'
  <2>1. RowsKeep /\ MintsKeep BY <1>3, NoRowKept DEF PollRetry
  <2>2. MayClaim(snap[t], s) BY <1>3 DEF PollRetry, Visiting, MayClaim, Begun
  <2>3. ClaimsInOrder' /\ SnapsKeep BY <1>3, <2>2, GoToOrder DEF PollRetry
  <2>. QED BY <2>1, <2>3, OrderKept
<1>4. ASSUME NEW s \in Step, PollExhausted(t, s) PROVE OrderInv'
  <2>1. RowsKeep /\ MintsKeep
    BY <1>0, <1>4, <1>d, RowsKept, OneRowKept DEF PollExhausted
  <2>2. ClaimsInOrder' /\ SnapsKeep BY <1>4, FinishOrder DEF PollExhausted
  <2>. QED BY <2>1, <2>2, OrderKept
<1>5. ASSUME NEW s \in Step, PollTimeout(t, s) PROVE OrderInv'
  <2>1. RowsKeep /\ MintsKeep
    BY <1>0, <1>5, <1>d, RowsKept, OneRowKept DEF PollTimeout
  <2>2. ClaimsInOrder' /\ SnapsKeep BY <1>5, FinishOrder DEF PollTimeout
  <2>. QED BY <2>1, <2>2, OrderKept
<1>6. ASSUME NEW s \in Step, PollClarify(t, s) PROVE OrderInv'
  <2>1. RowsKeep /\ MintsKeep BY <1>6, NoRowKept DEF PollClarify, OnlyTick, OnlyRow
  <2>2. MayClaim(snap[t], s) BY <1>6 DEF PollClarify, Visiting, MayClaim, Begun
  <2>3. ClaimsInOrder' /\ SnapsKeep
    <3>1. CASE s \in answered BY <1>6, <2>2, <3>1, GoToOrder DEF PollClarify
    <3>2. CASE s \notin answered
      BY <1>6, <3>2, <1>c, GoToOrder DEF PollClarify, Skip
    <3>. QED BY <3>1, <3>2
  <2>. QED BY <2>1, <2>3, OrderKept
<1>7. ASSUME NEW s \in Step, SpendIntervention(t, s) PROVE OrderInv'
  <2>1. RowsKeep /\ MintsKeep BY <1>7, NoRowKept DEF SpendIntervention
  <2>2. ClaimsInOrder' /\ SnapsKeep BY <1>7, <1>c, GoToOrder DEF SpendIntervention
  <2>. QED BY <2>1, <2>2, OrderKept
<1>8. ASSUME NEW s \in Step, ResolveSelfDo(t, s) PROVE OrderInv'
  <2>1. RowsKeep /\ MintsKeep
    BY <1>0, <1>8, <1>z, RowsKept, OneRowKept DEF ResolveSelfDo, OnlyRow
  <2>2. ClaimsInOrder' /\ SnapsKeep BY <1>8, FinishOrder DEF ResolveSelfDo
  <2>. QED BY <2>1, <2>2, OrderKept
<1>9. ASSUME NEW s \in Step, ResolveSkip(t, s) PROVE OrderInv'
  <2>1. RowsKeep /\ MintsKeep
    <3>1. CASE UpdateRow(s, MarkStepDropped(row[s]))
      BY <1>0, <1>9, <1>z, <3>1, RowsKept, OneRowKept DEF ResolveSkip, OnlyRow
    <3>2. CASE UNCHANGED row BY <1>9, <3>2, NoRowKept DEF ResolveSkip, OnlyRow
    <3>. QED BY <1>9, <3>1, <3>2 DEF ResolveSkip
  <2>2. ClaimsInOrder' /\ SnapsKeep BY <1>9, FinishOrder DEF ResolveSkip
  <2>. QED BY <2>1, <2>2, OrderKept
<1>10. ASSUME NEW s \in Step, ResolveNone(t, s) PROVE OrderInv'
  <2>1. RowsKeep /\ MintsKeep
    <3>1. CASE UpdateRow(s, GiveUpWrite(row[s], snap[t][s].attempt))
      BY <1>0, <1>10, <3>1, RowsKept, OneRowKept DEF ResolveNone, OnlyRow
    <3>2. CASE UNCHANGED row BY <1>10, <3>2, NoRowKept DEF ResolveNone, OnlyRow
    <3>. QED BY <1>10, <3>1, <3>2 DEF ResolveNone
  <2>2. ClaimsInOrder' /\ SnapsKeep BY <1>10, <1>c, GoToOrder DEF ResolveNone
  <2>. QED BY <2>1, <2>2, OrderKept
<1>11. CASE RuleAccept(t)
  <2>1. RowsKeep /\ MintsKeep
    <3>1. CASE UpdateRow(cur[t], MarkDoneByCoordinator(row[cur[t]]))
      BY <1>0, <1>11, <1>z, <3>1, RowsKept, OneRowKept DEF RuleAccept, OnlyRow
    <3>2. CASE UNCHANGED row BY <1>11, <3>2, NoRowKept DEF RuleAccept, OnlyRow
    <3>. QED BY <1>11, <3>1, <3>2 DEF RuleAccept
  <2>2. ClaimsInOrder' /\ SnapsKeep
    BY <1>11, <1>c, FinishOrder, GoToOrder DEF RuleAccept, Skip
  <2>. QED BY <2>1, <2>2, OrderKept
<1>12. CASE RuleRetry(t)
  <2>1. RowsKeep /\ MintsKeep
    BY <1>0, <1>12, <1>z, RowsKept, OneRowKept DEF RuleRetry, OnlyRow
  <2>2. ClaimsInOrder' /\ SnapsKeep BY <1>12, FinishOrder DEF RuleRetry
  <2>. QED BY <2>1, <2>2, OrderKept
<1>13. CASE RuleGiveUp(t)
  <2>1. RowsKeep /\ MintsKeep BY <1>13, NoRowKept DEF RuleGiveUp, OnlyTick, OnlyRow
  <2>2. ClaimsInOrder' /\ SnapsKeep BY <1>13, <1>c, GoToOrder DEF RuleGiveUp
  <2>. QED BY <2>1, <2>2, OrderKept
<1>14. CASE Dispatch(t)
  <2>1. RowsKeep /\ MintsKeep BY <1>14, NoRowKept DEF Dispatch, OnlyTick, OnlyRow
  <2>2. ClaimsInOrder' /\ SnapsKeep BY <1>14, ClaimNextOrder DEF Dispatch
  <2>. QED BY <2>1, <2>2, OrderKept
<1>15. CASE Aggregate(t) \/ DeadEnd(t)
  <2>1. RowsKeep /\ MintsKeep
    BY <1>15, NoRowKept DEF Aggregate, DeadEnd, OnlyTick, OnlyRow
  <2>2. ClaimsInOrder' /\ SnapsKeep BY <1>15, <1>c, GoToOrder DEF Aggregate, DeadEnd
  <2>. QED BY <2>1, <2>2, OrderKept
<1>16. CASE NothingToDo(t) \/ AggregateDone(t) \/ Conclude(t)
  <2>1. RowsKeep /\ MintsKeep
    BY <1>16, NoRowKept
    DEF NothingToDo, AggregateDone, Conclude, OnlyTick, OnlyRow, stepVars
  <2>2. ClaimsInOrder' /\ SnapsKeep
    BY <1>16, FinishOrder DEF NothingToDo, AggregateDone, Conclude
  <2>. QED BY <2>1, <2>2, OrderKept
<1>17. CASE RosterReject(t)
  <2>1. RowsKeep /\ MintsKeep
    BY <1>0, <1>17, <1>z, RowsKept, OneRowKept DEF RosterReject, OnlyRow
  <2>2. ClaimsInOrder' /\ SnapsKeep
    BY <1>17, ClaimNextOrder DEF RosterReject, OrderInv, ClaimsInOrder
  <2>. QED BY <2>1, <2>2, OrderKept
<1>18. CASE Claim(t)
  <2>. DEFINE s == cur[t]
  <2>0. MayClaim(snap[t], s) /\ \A u \in todo[t] : u \in ReadyPendingSteps(snap[t])
    BY <1>18 DEF Claim, OrderInv, ClaimsInOrder
  <2>1. CASE Claimable(row[s], snap[t][s])
    <3>1. /\ minted' = [minted EXCEPT ![s] = @ + 1]
          /\ UpdateRow(s, ReserveStep(row[s], minted'[s]))
          /\ GoTo(t, "spawn", todo[t], s, slots[t])
      BY <1>18, <2>1 DEF Claim
    <3>2. s \in Step BY <2>0 DEF MayClaim
    <3>3. minted'[s] = minted[s] + 1 /\ minted'[s] \in 0 .. MaxAttempt
      BY <3>1, <3>2 DEF TypeInv, TypeOK
    <3>4. Kept(row[s], ReserveStep(row[s], minted'[s]), minted'[s])
      <4>1. row[s] \in Row /\ minted[s] \in Nat /\ InOrder(row[s], minted[s])
        BY <1>0, <3>2
      <4>2. minted'[s] > 0 BY <3>3, <4>1
      <4>. QED BY <3>3, <4>1, <4>2, RowsKept
    <3>5. RowsKeep
      <4>. SUFFICES ASSUME NEW u \in Step
           PROVE Kept(row[u], row'[u], minted'[u]) /\ minted'[u] >= minted[u] BY DEF RowsKeep
      <4>1. CASE u = s
        <5>1. row'[s] = ReserveStep(row[s], minted'[s])
          BY <3>1, <3>2 DEF UpdateRow, TypeInv, TypeOK
        <5>. QED BY <1>0, <3>3, <3>4, <4>1, <5>1
      <4>2. CASE u # s
        <5>1. row'[u] = row[u] /\ minted'[u] = minted[u]
          BY <3>1, <4>2 DEF UpdateRow, TypeInv, TypeOK
        <5>. QED BY <1>0, <5>1 DEF Kept
      <4>. QED BY <4>1, <4>2
    <3>6. MintsKeep
      <4>. SUFFICES ASSUME NEW u \in Step, minted'[u] > 0, ~(minted[u] > 0)
           PROVE  \A d \in Deps[u] : row[d].everDone
        BY DEF MintsKeep
      <4>1. u = s BY <3>1 DEF TypeInv, TypeOK
      <4>2. s \in ReadyPendingSteps(snap[t]) BY <1>0, <2>0, <4>1 DEF MayClaim
      <4>3. \A d \in Deps[u] : d \in Step /\ snap[t][d].status = "done"
        BY <4>1, <4>2, DepsAssumption DEF ReadyPendingSteps
      <4>. QED BY <4>3 DEF OrderInv, SnapsInOrder
    <3>7. ClaimsInOrder' /\ SnapsKeep BY <2>0, <3>1, GoToOrder
    <3>. QED BY <3>5, <3>6, <3>7, OrderKept
  <2>2. CASE ~Claimable(row[s], snap[t][s])
    <3>1. ClaimNext(t, todo[t], slots[t]) /\ UNCHANGED <<row, minted>>
      BY <1>18, <2>2 DEF Claim
    <3>2. RowsKeep /\ MintsKeep BY <3>1, NoRowKept
    <3>3. ClaimsInOrder' /\ SnapsKeep BY <2>0, <3>1, ClaimNextOrder
    <3>. QED BY <3>2, <3>3, OrderKept
  <2>. QED BY <2>1, <2>2
<1>19. CASE Spawn(t)
  <2>1. RowsKeep /\ MintsKeep BY <1>19, NoRowKept DEF Spawn
  <2>2. ClaimsInOrder' /\ SnapsKeep
    BY <1>19, GoToOrder DEF Spawn, OrderInv, ClaimsInOrder
  <2>. QED BY <2>1, <2>2, OrderKept
<1>20. CASE RecordSpawn(t)
  <2>1. cur[t] \in Step BY <1>20 DEF RecordSpawn, OrderInv, ClaimsInOrder, MayClaim
  <2>2. minted[cur[t]] \in 0 .. MaxAttempt BY <2>1 DEF TypeInv, TypeOK
  <2>3. RowsKeep /\ MintsKeep
    BY <1>0, <1>20, <2>1, <2>2, RowsKept, OneRowKept DEF RecordSpawn, OnlyRow
  <2>4. ClaimsInOrder' /\ SnapsKeep
    BY <1>20, ClaimNextOrder DEF RecordSpawn, OrderInv, ClaimsInOrder
  <2>. QED BY <2>3, <2>4, OrderKept
<1>21. CASE Sweep(t)
  <2>1. \A s \in Step : Kept(row[s], HaltStep(row[s]), minted[s]) /\ Kept(row[s], row[s], minted[s])
    BY <1>0, <1>z, RowsKept DEF Kept
  <2>2. minted' = minted /\ \A s \in Step : row'[s] \in {row[s], HaltStep(row[s])}
    BY <1>21 DEF Sweep, TypeInv, TypeOK
  <2>3. RowsKeep /\ MintsKeep BY <1>0, <2>1, <2>2 DEF RowsKeep, MintsKeep
  <2>4. ClaimsInOrder' /\ SnapsKeep
    BY <1>21 DEF Sweep, TypeInv, TickTypes, OrderInv, ClaimsInOrder, SnapsKeep
  <2>. QED BY <2>3, <2>4, OrderKept
<1>. QED
  BY <1>1, <1>2, <1>3, <1>4, <1>5, <1>6, <1>7, <1>8, <1>9, <1>10, <1>11, <1>12, <1>13,
     <1>14, <1>15, <1>16, <1>17, <1>18, <1>19, <1>20, <1>21 DEF TickStep

\* Workers, the clock and the CEO keep it too.
LEMMA OtherStepOrder ==
    ASSUME TypeInv, TypeInv', OrderInv, Next, \A t \in Ticker : ~TickStep(t)
    PROVE  OrderInv'
<1>0. /\ \A s \in Step : row[s] \in Row /\ minted[s] \in Nat /\ InOrder(row[s], minted[s])
      /\ 0 \in 0 .. MaxAttempt
  BY NumberAssumption DEF TypeInv, TypeOK, OrderInv, RowsInOrder
<1>t. UNCHANGED tickVars => ClaimsInOrder' /\ SnapsKeep
  BY DEF tickVars, OrderInv, ClaimsInOrder, SnapsKeep
<1>1. ASSUME NEW t \in Ticker, TickCrash(t) PROVE OrderInv'
  <2>1. RowsKeep /\ MintsKeep BY <1>1, NoRowKept DEF TickCrash, stepVars
  <2>2. ClaimsInOrder' /\ SnapsKeep
    BY <1>1 DEF TickCrash, TypeInv, TickTypes, OrderInv, ClaimsInOrder, SnapsKeep
  <2>. QED BY <2>1, <2>2, OrderKept
<1>2. ASSUME NEW s \in Step, NEW a \in Attempt,
             WorkerStart(s, a) \/ WorkerCrash(s, a)
      PROVE  OrderInv'
  <2>1. RowsKeep /\ MintsKeep BY <1>2, NoRowKept DEF WorkerStart, WorkerCrash
  <2>2. UNCHANGED tickVars BY <1>2 DEF WorkerStart, WorkerCrash, tickVars
  <2>. QED BY <1>t, <2>1, <2>2, OrderKept
<1>3. ASSUME NEW s \in Step, NEW a \in Attempt, NEW o \in Outcome, WorkerEnd(s, a, o)
      PROVE  OrderInv'
  <2>1. o \in StepStatus /\ a \in 0 .. MaxAttempt /\ a > 0
    BY OutcomeAssumption DEF WorkerOutcomes, StepStatus, Attempt
  <2>2. Kept(row[s], SetStepStatus(row[s], a, o), minted[s]) BY <1>0, <2>1, RowsKept
  <2>3. RowsKeep /\ MintsKeep BY <1>3, <2>2, OneRowKept DEF WorkerEnd
  <2>4. UNCHANGED tickVars BY <1>3 DEF WorkerEnd, tickVars
  <2>. QED BY <1>t, <2>3, <2>4, OrderKept
<1>4. ASSUME NEW s \in Step, NEW a \in Attempt, Heartbeat(s, a) PROVE OrderInv'
  <2>1. RowsKeep /\ MintsKeep BY <1>0, <1>4, RowsKept, OneRowKept DEF Heartbeat
  <2>2. UNCHANGED tickVars BY <1>4 DEF Heartbeat, tickVars
  <2>. QED BY <1>t, <2>1, <2>2, OrderKept
<1>5. CASE RetryStalled \/ DropStalled \/ AcceptStalled
  <2>1. \A s \in Step : /\ Kept(row[s], row[s], minted[s])
                        /\ Kept(row[s], ResetStepToPending(row[s]), minted[s])
                        /\ Kept(row[s], MarkStepDropped(row[s]), minted[s])
    BY <1>0, RowsKept DEF Kept
  <2>2. /\ minted' = minted
        /\ \A s \in Step : row'[s] \in {row[s], ResetStepToPending(row[s]),
                                        MarkStepDropped(row[s])}
    BY <1>5 DEF RetryStalled, DropStalled, AcceptStalled, Revive
  <2>3. RowsKeep /\ MintsKeep BY <1>0, <2>1, <2>2 DEF RowsKeep, MintsKeep
  <2>4. UNCHANGED tickVars BY <1>5 DEF RetryStalled, DropStalled, AcceptStalled, Revive, tickVars
  <2>. QED BY <1>t, <2>3, <2>4, OrderKept
<1>6. CASE CancelTask
  <2>1. RowsKeep /\ MintsKeep BY <1>6, NoRowKept DEF CancelTask, stepVars
  <2>2. UNCHANGED tickVars BY <1>6 DEF CancelTask, tickVars
  <2>. QED BY <1>t, <2>1, <2>2, OrderKept
<1>7. ASSUME NEW s \in Step, HumanSettles(s) PROVE OrderInv'
  <2>1. RowsKeep /\ MintsKeep BY <1>7, NoRowKept DEF HumanSettles
  <2>2. UNCHANGED tickVars BY <1>7 DEF HumanSettles, tickVars
  <2>. QED BY <1>t, <2>1, <2>2, OrderKept
<1>8. ASSUME NEW s \in Step, LeaseExpires(s) PROVE OrderInv'
  <2>1. RowsKeep /\ MintsKeep BY <1>0, <1>8, RowsKept, OneRowKept DEF LeaseExpires
  <2>2. UNCHANGED tickVars BY <1>8 DEF LeaseExpires, tickVars
  <2>. QED BY <1>t, <2>1, <2>2, OrderKept
<1>. QED
  BY <1>1, <1>2, <1>3, <1>4, <1>5, <1>6, <1>7, <1>8 DEF Next, WorkerStep

\* Nothing happens.
LEMMA StutterOrder == ASSUME OrderInv, UNCHANGED vars PROVE OrderInv'
BY DEF OrderInv, RowsInOrder, SnapsInOrder, ClaimsInOrder, StartedInOrder,
       vars, stepVars, tickVars, boundVars

\* A fresh plan is in order: nothing has been started.
LEMMA InitOrder == Init => OrderInv
<1>. SUFFICES ASSUME Init PROVE OrderInv OBVIOUS
<1>. USE DEF Init
<1>1. RowsInOrder BY DEF RowsInOrder, InOrder, NoSnap, FreshRow, Begun
<1>2. SnapsInOrder BY DEF SnapsInOrder, NoSnap, FreshRow, Begun
<1>3. ClaimsInOrder BY DEF ClaimsInOrder
<1>4. StartedInOrder BY DEF StartedInOrder
<1>. QED BY <1>1, <1>2, <1>3, <1>4 DEF OrderInv

\* The inductive invariant behind the order of the steps.
THEOREM OrderInvariant == Spec => [](TypeInv /\ OrderInv)
<1>1. Init => TypeInv /\ OrderInv BY InitTypes, InitOrder
<1>2. TypeInv /\ OrderInv /\ [Next]_vars => (TypeInv /\ OrderInv)'
  <2>. SUFFICES ASSUME TypeInv, OrderInv, [Next]_vars PROVE TypeInv' /\ OrderInv' OBVIOUS
  <2>1. TypeInv' BY TickStepTypes, OtherStepTypes, StutterTypes
  <2>2. OrderInv' BY <2>1, TickStepOrder, OtherStepOrder, StutterOrder
  <2>. QED BY <2>1, <2>2
<1>. QED BY <1>1, <1>2, PTL DEF Spec

\* Through every retry, timeout, ruling, skip, revival and crash, no worker of a
\* step is ever started before every step it consumes has been done: readiness
\* is read from a snapshot, but what the snapshot saw done stays recorded.
THEOREM StepsStartInOrder == Spec => []StartedInOrder
<1>1. OrderInv => StartedInOrder BY DEF OrderInv
<1>. QED BY OrderInvariant, <1>1, PTL

----------------------------------------------------------------------------
(* The control of the ticks, for any constants: one of them at a time, each *)
(* acting on what its snapshot shows.                                       *)

Acting(t) == pc[t] \notin {"idle", "sweep"}
Looking == {"visit", "rule", "resolve"}
Claiming == {"claim", "spawn", "record"}

\* One tick at a time; a task a tick acts on is open, or was cancelled under
\* it; a tick that does not act has no snapshot.
LockInv ==
    \A t \in Ticker :
        /\ pc[t] # "idle" => lock = t
        /\ Acting(t) => task \in {"open", "cancelled"}
        /\ ~Acting(t) => snap[t] = NoSnap

\* A tick rules on, resolves and aggregates what its snapshot shows; it
\* claims several steps only when none of them has begun.
PhaseInv ==
    \A t \in Ticker :
        /\ pc[t] = "rule" => cur[t] \in Step /\ snap[t][cur[t]].status = "needs_decision"
        /\ pc[t] = "resolve" => \A s \in todo[t] : snap[t][s].status \in Rulable
        /\ pc[t] = "aggregate" => AllDone(snap[t])
        /\ pc[t] \in Claiming =>
              /\ cur[t] \notin todo[t]
              /\ snap[t][cur[t]].status \in {"pending", "running", "waiting_clarify"}
              /\ snap[t][cur[t]].status # "pending" => (slots[t] = 0 /\ todo[t] = {})

\* An attempt that has not been spawned has no process.
UnspawnedInv ==
    /\ \A s \in Step : \A a \in Attempt : a > minted[s] => worker[s][a] = "none"
    /\ \A t \in Ticker : pc[t] = "spawn" =>
          minted[cur[t]] \in Attempt /\ worker[cur[t]][minted[cur[t]]] = "none"

\* Until a tick claims, what runs is what it saw running: the same attempt,
\* under the same pid.
SeenAs(r, seen) == /\ seen.status = "running"
                   /\ seen.attempt = r.attempt /\ seen.pid = r.pid
SeenRunning ==
    \A t \in Ticker : \A s \in Step :
        pc[t] \in Looking /\ row[s].status = "running" => SeenAs(row[s], snap[t][s])

ControlInv == LockInv /\ PhaseInv /\ UnspawnedInv /\ SeenRunning

\* What a step of the system may do to the snapshots and to the running rows.
SnapsMove ==
    \A t \in Ticker : \/ snap'[t] = snap[t] \/ snap'[t] = NoSnap
                      \/ snap'[t] = row /\ row' = row
NoNewRunning ==
    \A s \in Step : row'[s].status = "running" =>
        /\ row[s].status = "running"
        /\ row'[s].attempt = row[s].attempt /\ row'[s].pid = row[s].pid
NoneStays ==
    \A s \in Step : \A a \in Attempt : worker[s][a] = "none" => worker'[s][a] = "none"

\* Only the holder of the flock does anything.
LEMMA OthersIdle ==
    ASSUME LockInv, NEW t \in Ticker, lock \in {t, NoTicker}, NEW u \in Ticker, u # t
    PROVE  pc[u] = "idle" /\ snap[u] = NoSnap
BY TickerAssumption DEF LockInv, Acting

\* A tick that acts holds the flock, and nobody else acts.
LEMMA ActingAlone ==
    ASSUME LockInv, NEW t \in Ticker, Acting(t)
    PROVE  /\ lock = t /\ task \in {"open", "cancelled"}
           /\ \A u \in Ticker : u # t => pc[u] = "idle" /\ snap[u] = NoSnap
<1>1. lock = t /\ task \in {"open", "cancelled"} BY DEF LockInv, Acting
<1>. QED BY <1>1, OthersIdle

\* The control of a tick that finishes acting, or that never acts.
LEMMA FinishControl ==
    ASSUME TypeInv, ControlInv, NEW t \in Ticker, lock \in {t, NoTicker}, lock' = t, Finish(t)
    PROVE  LockInv' /\ PhaseInv' /\ SeenRunning' /\ SnapsMove
<1>1. \A u \in Ticker : u # t => pc[u] = "idle" /\ snap[u] = NoSnap
  BY OthersIdle DEF ControlInv
<1>2. /\ pc' = [pc EXCEPT ![t] = "sweep"] /\ snap' = [snap EXCEPT ![t] = NoSnap]
      /\ pc \in [Ticker -> TickPC] /\ snap \in [Ticker -> [Step -> Row]]
  BY DEF Finish, TypeInv, TypeOK
<1>3. LockInv' BY <1>1, <1>2 DEF LockInv, Acting
<1>4. PhaseInv' BY <1>1, <1>2 DEF PhaseInv, Claiming
<1>5. SeenRunning' BY <1>1, <1>2 DEF SeenRunning, Looking
<1>6. SnapsMove BY <1>2 DEF SnapsMove
<1>. QED BY <1>3, <1>4, <1>5, <1>6

\* The control of a tick that moves on to a step.
LEMMA GoToControl ==
    ASSUME TypeInv, ControlInv, NEW t \in Ticker, Acting(t), lock' = lock, task' = task,
           NEW p \in TickPC, NEW S, NEW s, NEW n, GoTo(t, p, S, s, n),
           p \notin {"idle", "sweep"},
           p = "rule" => s \in Step /\ snap[t][s].status = "needs_decision",
           p = "resolve" => \A u \in S : snap[t][u].status \in Rulable,
           p = "aggregate" => AllDone(snap[t]),
           p \in Claiming =>
              /\ s \notin S
              /\ snap[t][s].status \in {"pending", "running", "waiting_clarify"}
              /\ snap[t][s].status # "pending" => (n = 0 /\ S = {}),
           p \in Looking => pc[t] \in Looking /\ NoNewRunning
    PROVE  LockInv' /\ PhaseInv' /\ SeenRunning' /\ SnapsMove
<1>0. /\ lock = t /\ task \in {"open", "cancelled"}
      /\ \A u \in Ticker : u # t => pc[u] = "idle" /\ snap[u] = NoSnap
  BY ActingAlone DEF ControlInv
<1>2. /\ pc' = [pc EXCEPT ![t] = p] /\ todo' = [todo EXCEPT ![t] = S]
      /\ cur' = [cur EXCEPT ![t] = s] /\ slots' = [slots EXCEPT ![t] = n] /\ snap' = snap
      /\ pc \in [Ticker -> TickPC] /\ todo \in [Ticker -> SUBSET Step]
      /\ cur \in [Ticker -> Step \cup {0}] /\ slots \in [Ticker -> Nat]
  BY DEF GoTo, TypeInv, TypeOK
<1>3. LockInv' BY <1>0, <1>2 DEF LockInv, Acting
<1>4. PhaseInv'
  <2>. SUFFICES ASSUME NEW u \in Ticker
       PROVE  /\ pc'[u] = "rule" => cur'[u] \in Step /\ snap'[u][cur'[u]].status = "needs_decision"
              /\ pc'[u] = "resolve" => \A v \in todo'[u] : snap'[u][v].status \in Rulable
              /\ pc'[u] = "aggregate" => AllDone(snap'[u])
              /\ pc'[u] \in Claiming =>
                    /\ cur'[u] \notin todo'[u]
                    /\ snap'[u][cur'[u]].status \in {"pending", "running", "waiting_clarify"}
                    /\ snap'[u][cur'[u]].status # "pending" => (slots'[u] = 0 /\ todo'[u] = {})
    BY DEF PhaseInv, AllDone
  <2>1. CASE u = t BY <1>2, <2>1
  <2>2. CASE u # t BY <1>0, <1>2, <2>2 DEF Claiming
  <2>. QED BY <2>1, <2>2
<1>5. SeenRunning'
  <2>. SUFFICES ASSUME NEW u \in Ticker, NEW v \in Step, pc'[u] \in Looking,
                       row'[v].status = "running"
       PROVE  SeenAs(row'[v], snap[u][v])
    BY <1>2 DEF SeenRunning
  <2>1. u = t /\ p \in Looking BY <1>0, <1>2 DEF Looking
  <2>. QED BY <2>1 DEF NoNewRunning, ControlInv, SeenRunning, SeenAs
<1>6. SnapsMove BY <1>2 DEF SnapsMove
<1>. QED BY <1>3, <1>4, <1>5, <1>6

\* The control of dispatch_ready_steps.
LEMMA ClaimNextControl ==
    ASSUME TypeInv, ControlInv, NEW t \in Ticker, Acting(t), lock' = lock, task' = task,
           NEW S, NEW n, ClaimNext(t, S, n), \A s \in S : s \in ReadyPendingSteps(snap[t])
    PROVE  LockInv' /\ PhaseInv' /\ SeenRunning' /\ SnapsMove
<1>0. lock = t BY ActingAlone DEF ControlInv
<1>1. CASE Finish(t) BY <1>0, <1>1, FinishControl
<1>2. CASE \E s \in S : GoTo(t, "claim", S \ {s}, s, n - 1)
  <2>1. PICK s \in S : GoTo(t, "claim", S \ {s}, s, n - 1) BY <1>2
  <2>2. snap[t][s].status = "pending" BY DEF ReadyPendingSteps
  <2>3. "claim" \notin Looking BY DEF Looking
  <2>. QED BY <2>1, <2>2, <2>3, GoToControl DEF TickPC
<1>. QED BY <1>1, <1>2 DEF ClaimNext

\* Unless a tick claims or spawns, what is not spawned stays that way.
LEMMA UnspawnedKept ==
    ASSUME TypeInv, UnspawnedInv, UNCHANGED minted, NoneStays,
           \A t \in Ticker : pc'[t] = "spawn" => pc[t] = "spawn" /\ cur'[t] = cur[t],
           \A t \in Ticker : pc[t] = "spawn" => cur[t] \in Step
    PROVE  UnspawnedInv'
BY DEF UnspawnedInv, NoneStays

\* kill_pid kills no process that was never spawned, and brings none back.
LEMMA KillPidKeeps ==
    ASSUME NEW r \in Row, NEW w \in [Attempt -> WorkerState], NEW a \in Attempt
    PROVE  /\ KillPid(r, w)[a] \in {w[a], "gone"}
           /\ w[a] = "gone" => KillPid(r, w)[a] = "gone"
           /\ w[a] = "none" => KillPid(r, w)[a] = "none"
BY DEF KillPid, WorkerState

\* Every step of a tick keeps the control.
LEMMA TickStepControl ==
    ASSUME TypeInv, TypeInv', OrderInv, ControlInv, NEW t \in Ticker, TickStep(t)
    PROVE  ControlInv' /\ SnapsMove
<1>0. /\ row \in [Step -> Row] /\ worker \in [Step -> [Attempt -> WorkerState]]
      /\ \A s \in Step : row[s] \in Row /\ worker[s] \in [Attempt -> WorkerState]
      /\ \A s \in Step : snap[t][s] \in Row
      /\ pc \in [Ticker -> TickPC]
      /\ LockInv /\ PhaseInv /\ UnspawnedInv /\ SeenRunning
  BY DEF TypeInv, TypeOK, ControlInv
<1>a. UNCHANGED worker => NoneStays BY DEF NoneStays
<1>b. Acting(t) => lock = t BY <1>0, ActingAlone
<1>c. \A u \in Ticker : pc[u] = "spawn" => cur[u] \in Step
  BY DEF OrderInv, ClaimsInOrder, MayClaim
<1>d. ASSUME NEW p, pc' = [pc EXCEPT ![t] = p], p # "spawn", Acting(t) \/ lock = NoTicker,
             UNCHANGED minted, NoneStays
      PROVE  UnspawnedInv'
  <2>1. \A u \in Ticker : u # t => pc[u] = "idle" BY <1>0, <1>b, <1>d, OthersIdle
  <2>2. \A u \in Ticker : pc'[u] = "spawn" => pc[u] = "spawn" /\ cur'[u] = cur[u]
    BY <1>0, <1>d, <2>1
  <2>. QED BY <1>0, <1>c, <1>d, <2>2, UnspawnedKept
<1>e. ASSUME Acting(t), UNCHANGED minted, NoneStays, NEW p, NEW S, NEW s, NEW n,
             GoTo(t, p, S, s, n) \/ Finish(t), p # "spawn"
      PROVE  UnspawnedInv'
  BY <1>d, <1>e DEF GoTo, Finish
<1>f. ASSUME Acting(t), UNCHANGED minted, NoneStays, NEW S, NEW n, ClaimNext(t, S, n)
      PROVE  UnspawnedInv'
  <2>1. CASE Finish(t) BY <1>d, <1>f, <2>1 DEF Finish
  <2>2. ASSUME NEW s \in S, GoTo(t, "claim", S \ {s}, s, n - 1) PROVE UnspawnedInv'
    BY <1>e, <1>f, <2>2
  <2>. QED BY <1>f, <2>1, <2>2 DEF ClaimNext
<1>g. UNCHANGED row => NoNewRunning BY DEF NoNewRunning
<1>h. pc[t] \in Claiming => \A u \in todo[t] : u \in ReadyPendingSteps(snap[t])
  BY DEF OrderInv, ClaimsInOrder, Claiming
<1>p. /\ {"visit", "rule", "resolve", "aggregate", "conclude", "claim", "spawn", "record"}
           \subseteq TickPC
      /\ \A p \in {"visit", "rule", "resolve"} : p \in Looking /\ p \notin Claiming
      /\ \A p \in {"claim", "spawn", "record"} : p \notin Looking /\ p \in Claiming
      /\ \A p \in {"aggregate", "conclude"} : p \notin Looking /\ p \notin Claiming
  BY DEF TickPC, Looking, Claiming
<1>1. CASE TickBegin(t)
  <2>0. lock = NoTicker /\ lock' = t /\ UNCHANGED <<task, row, minted, worker>>
    BY <1>1 DEF TickBegin, LockFree, stepVars
  <2>1. CASE Finish(t)
    <3>1. UnspawnedInv' BY <1>a, <1>d, <2>0, <2>1 DEF Finish
    <3>. QED BY <2>0, <2>1, <3>1, FinishControl DEF ControlInv
  <2>2. CASE /\ task = "open"
             /\ snap' = [snap EXCEPT ![t] = row]
             /\ pc' = [pc EXCEPT ![t] = "visit"]
             /\ UNCHANGED cur
    <3>1. \A u \in Ticker : u # t => pc[u] = "idle" /\ snap[u] = NoSnap
      BY <1>0, <2>0, OthersIdle
    <3>2. LockInv' BY <1>0, <2>0, <2>2, <3>1 DEF LockInv, Acting, TypeInv, TypeOK
    <3>3. PhaseInv' BY <1>0, <2>2, <3>1 DEF PhaseInv, Claiming
    <3>4. snap' \in [Ticker -> [Step -> Row]] /\ snap'[t] = row
      BY <2>2 DEF TypeInv, TypeOK
    <3>5. SeenRunning' BY <1>0, <2>0, <2>2, <3>1, <3>4 DEF SeenRunning, SeenAs, Looking
    <3>6. SnapsMove BY <2>0, <2>2, <3>4 DEF SnapsMove, TypeInv, TypeOK
    <3>7. UnspawnedInv' BY <1>a, <1>d, <2>0, <2>2
    <3>. QED BY <3>2, <3>3, <3>5, <3>6, <3>7 DEF ControlInv
  <2>. QED BY <1>1, <2>1, <2>2 DEF TickBegin
<1>2. ASSUME NEW s \in Step, PollQuiet(t, s) PROVE ControlInv' /\ SnapsMove
  <2>0. /\ Acting(t) /\ pc[t] \in Looking /\ UNCHANGED <<task, row, minted, worker, lock>>
        /\ GoTo(t, "visit", todo[t] \ {s}, 0, 0)
    BY <1>2 DEF PollQuiet, Visiting, Skip, OnlyTick, OnlyRow, Acting, Looking
  <2>1. UnspawnedInv' BY <1>a, <1>e, <2>0
  <2>. QED BY <1>g, <1>p, <2>0, <2>1, GoToControl DEF ControlInv
<1>3. ASSUME NEW s \in Step, PollRetry(t, s) PROVE ControlInv' /\ SnapsMove
  <2>0. /\ Acting(t) /\ UNCHANGED <<task, row, minted, worker, lock>>
        /\ GoTo(t, "claim", {}, s, 0) /\ snap[t][s].status = "running"
    BY <1>3 DEF PollRetry, Visiting, Acting
  <2>1. UnspawnedInv' BY <1>a, <1>e, <2>0
  <2>. QED BY <1>p, <2>0, <2>1, GoToControl DEF ControlInv
<1>4. ASSUME NEW s \in Step, PollExhausted(t, s) \/ PollTimeout(t, s)
      PROVE  ControlInv' /\ SnapsMove
  <2>0. Acting(t) /\ UNCHANGED <<minted, lock>> /\ Finish(t)
    BY <1>4 DEF PollExhausted, PollTimeout, Visiting, Acting
  <2>1. NoneStays
    <3>1. worker' = worker \/ worker' = [worker EXCEPT ![s] = KillPid(snap[t][s], @)]
      BY <1>4 DEF PollExhausted, PollTimeout
    <3>. QED BY <1>0, <3>1, KillPidKeeps DEF NoneStays
  <2>2. UnspawnedInv' BY <1>d, <2>0, <2>1 DEF Finish
  <2>. QED BY <1>b, <2>0, <2>2, FinishControl DEF ControlInv
<1>5. ASSUME NEW s \in Step, PollClarify(t, s) PROVE ControlInv' /\ SnapsMove
  <2>0. /\ Acting(t) /\ pc[t] \in Looking /\ UNCHANGED <<task, row, minted, worker, lock>>
        /\ snap[t][s].status = "waiting_clarify"
        /\ GoTo(t, "claim", {}, s, 0) \/ GoTo(t, "visit", todo[t] \ {s}, 0, 0)
    BY <1>5 DEF PollClarify, Visiting, Skip, OnlyTick, OnlyRow, Acting, Looking
  <2>1. UnspawnedInv' BY <1>a, <1>e, <2>0
  <2>2. CASE GoTo(t, "claim", {}, s, 0)
    BY <1>p, <2>0, <2>1, <2>2, GoToControl DEF ControlInv
  <2>3. CASE GoTo(t, "visit", todo[t] \ {s}, 0, 0)
    BY <1>g, <1>p, <2>0, <2>1, <2>3, GoToControl DEF ControlInv
  <2>. QED BY <2>0, <2>2, <2>3
<1>6. ASSUME NEW s \in Step, SpendIntervention(t, s) PROVE ControlInv' /\ SnapsMove
  <2>0. /\ Acting(t) /\ pc[t] \in Looking /\ UNCHANGED <<task, row, minted, worker, lock>>
        /\ snap[t][s].status = "needs_decision"
        /\ GoTo(t, "resolve", {s}, s, 0) \/ GoTo(t, "rule", todo[t], s, 0)
    BY <1>6 DEF SpendIntervention, Visiting, Acting, Looking
  <2>1. UnspawnedInv' BY <1>a, <1>e, <2>0
  <2>2. CASE GoTo(t, "resolve", {s}, s, 0)
    <3>1. \A u \in {s} : snap[t][u].status \in Rulable BY <2>0 DEF Rulable
    <3>. QED BY <1>g, <1>p, <2>0, <2>1, <2>2, <3>1, GoToControl DEF ControlInv
  <2>3. CASE GoTo(t, "rule", todo[t], s, 0)
    BY <1>g, <1>p, <2>0, <2>1, <2>3, GoToControl DEF ControlInv
  <2>. QED BY <2>0, <2>2, <2>3
<1>7. ASSUME NEW s \in Step, ResolveSelfDo(t, s) \/ ResolveSkip(t, s)
      PROVE  ControlInv' /\ SnapsMove
  <2>0. Acting(t) /\ UNCHANGED <<minted, worker, lock>> /\ Finish(t)
    BY <1>7 DEF ResolveSelfDo, ResolveSkip, OnlyRow, Acting
  <2>1. UnspawnedInv' BY <1>a, <1>d, <2>0 DEF Finish
  <2>. QED BY <1>b, <2>0, <2>1, FinishControl DEF ControlInv
<1>8. ASSUME NEW s \in Step, ResolveNone(t, s) PROVE ControlInv' /\ SnapsMove
  <2>0. /\ Acting(t) /\ pc[t] \in Looking /\ UNCHANGED <<task, minted, worker, lock>>
        /\ \A u \in todo[t] \ {s} : snap[t][u].status \in Rulable
    BY <1>0, <1>8 DEF ResolveNone, OnlyRow, Acting, Looking, PhaseInv
  <2>1. PICK p \in {"conclude", "resolve"} : GoTo(t, p, todo[t] \ {s}, cur[t], 0)
    BY <1>8 DEF ResolveNone
  <2>2. NoNewRunning
    <3>1. \A q : /\ GiveUpWrite(row[s], q).status = "running" => row[s].status = "running"
                 /\ GiveUpWrite(row[s], q).attempt = row[s].attempt
                 /\ GiveUpWrite(row[s], q).pid = row[s].pid
      BY <1>0 DEF GiveUpWrite, Row
    <3>. QED BY <1>0, <1>8, <3>1 DEF ResolveNone, UpdateRow, NoNewRunning
  <2>3. UnspawnedInv' BY <1>a, <1>e, <2>0, <2>1
  <2>. QED BY <1>p, <2>0, <2>1, <2>2, <2>3, GoToControl DEF ControlInv
<1>9. CASE RuleAccept(t)
  <2>0. Acting(t) /\ pc[t] \in Looking /\ UNCHANGED <<task, minted, worker, lock>>
    BY <1>9 DEF RuleAccept, OnlyRow, Acting, Looking
  <2>1. Finish(t) \/ (UNCHANGED row /\ GoTo(t, "visit", todo[t] \ {cur[t]}, 0, 0))
    BY <1>9 DEF RuleAccept, Skip
  <2>2. UnspawnedInv' BY <1>a, <1>e, <2>0, <2>1
  <2>3. CASE Finish(t) BY <1>b, <2>0, <2>2, <2>3, FinishControl DEF ControlInv
  <2>4. CASE UNCHANGED row /\ GoTo(t, "visit", todo[t] \ {cur[t]}, 0, 0)
    BY <1>g, <1>p, <2>0, <2>2, <2>4, GoToControl DEF ControlInv
  <2>. QED BY <2>1, <2>3, <2>4
<1>10. CASE RuleRetry(t) \/ NothingToDo(t) \/ Conclude(t) \/ AggregateDone(t)
  <2>0. Acting(t) /\ UNCHANGED <<minted, worker, lock>> /\ Finish(t)
    BY <1>10 DEF RuleRetry, NothingToDo, Conclude, AggregateDone, CannotDispatch,
                 OnlyTick, OnlyRow, Acting, stepVars
  <2>1. UnspawnedInv' BY <1>a, <1>d, <2>0 DEF Finish
  <2>. QED BY <1>b, <2>0, <2>1, FinishControl DEF ControlInv
<1>11. CASE RuleGiveUp(t)
  <2>0. /\ Acting(t) /\ pc[t] \in Looking /\ UNCHANGED <<task, row, minted, worker, lock>>
        /\ GoTo(t, "resolve", {cur[t]}, cur[t], 0)
        /\ \A u \in {cur[t]} : snap[t][u].status \in Rulable
    BY <1>0, <1>11 DEF RuleGiveUp, OnlyTick, OnlyRow, Acting, Looking, PhaseInv, Rulable
  <2>1. UnspawnedInv' BY <1>a, <1>e, <2>0
  <2>. QED BY <1>g, <1>p, <2>0, <2>1, GoToControl DEF ControlInv
<1>12. CASE Dispatch(t)
  <2>0. /\ Acting(t) /\ UNCHANGED <<task, row, minted, worker, lock>>
        /\ ClaimNext(t, ReadyPendingSteps(snap[t]), FreeSlots(snap[t]))
    BY <1>12 DEF Dispatch, OnlyTick, OnlyRow, Acting
  <2>1. UnspawnedInv' BY <1>a, <1>f, <2>0
  <2>. QED BY <2>0, <2>1, ClaimNextControl DEF ControlInv
<1>13. CASE Aggregate(t) \/ DeadEnd(t)
  <2>0. Acting(t) /\ pc[t] \in Looking /\ UNCHANGED <<task, row, minted, worker, lock>>
    BY <1>13 DEF Aggregate, DeadEnd, CannotDispatch, OnlyTick, OnlyRow, Acting, Looking
  <2>1. \/ AllDone(snap[t]) /\ GoTo(t, "aggregate", {}, 0, 0)
        \/ GoTo(t, "resolve", DeadSteps(snap[t]), 0, 0)
    BY <1>13 DEF Aggregate, DeadEnd
  <2>2. UnspawnedInv' BY <1>a, <1>e, <2>0, <2>1
  <2>3. CASE AllDone(snap[t]) /\ GoTo(t, "aggregate", {}, 0, 0)
    BY <1>p, <2>0, <2>2, <2>3, GoToControl DEF ControlInv
  <2>4. CASE GoTo(t, "resolve", DeadSteps(snap[t]), 0, 0)
    <3>1. \A u \in DeadSteps(snap[t]) : snap[t][u].status \in Rulable
      BY DEF DeadSteps, Rulable
    <3>. QED BY <1>g, <1>p, <2>0, <2>2, <2>4, <3>1, GoToControl DEF ControlInv
  <2>. QED BY <2>1, <2>3, <2>4
<1>14. CASE RosterReject(t) \/ RecordSpawn(t)
  <2>0. /\ Acting(t) /\ pc[t] \in Claiming /\ UNCHANGED <<task, minted, worker, lock>>
        /\ ClaimNext(t, todo[t], slots[t])
    BY <1>14 DEF RosterReject, RecordSpawn, OnlyRow, Acting, Claiming
  <2>1. UnspawnedInv' BY <1>a, <1>f, <2>0
  <2>. QED BY <1>h, <2>0, <2>1, ClaimNextControl DEF ControlInv
<1>15. CASE Claim(t)
  <2>. DEFINE s == cur[t]
  <2>0. /\ Acting(t) /\ pc[t] \in Claiming /\ UNCHANGED <<task, worker, lock>>
        /\ s \in Step
    BY <1>15 DEF Claim, Acting, Claiming, OrderInv, ClaimsInOrder, MayClaim
  <2>1. CASE Claimable(row[s], snap[t][s])
    <3>1. /\ minted' = [minted EXCEPT ![s] = @ + 1] /\ minted[s] < MaxAttempt
          /\ GoTo(t, "spawn", todo[t], s, slots[t])
      BY <1>15, <2>1 DEF Claim
    <3>2. /\ minted \in [Step -> 0 .. MaxAttempt] /\ minted'[s] = minted[s] + 1
          /\ minted'[s] \in 0 .. MaxAttempt
      BY <2>0, <3>1 DEF TypeInv, TypeOK
    <3>3. UnspawnedInv'
      <4>1. \A u \in Step : \A a \in Attempt : a > minted'[u] => worker'[u][a] = "none"
        <5>. SUFFICES ASSUME NEW u \in Step, NEW a \in Attempt, a > minted'[u]
             PROVE  worker[u][a] = "none" BY <2>0
        <5>1. minted'[u] >= minted[u] /\ minted[u] \in Nat /\ minted'[u] \in Nat
          BY <3>1, <3>2
        <5>2. a > minted[u] BY <5>1 DEF Attempt
        <5>. QED BY <1>0, <5>2 DEF UnspawnedInv
      <4>2. minted'[s] \in Attempt /\ minted'[s] > minted[s]
        BY <3>1, <3>2, NumberAssumption DEF Attempt
      <4>3. worker'[s][minted'[s]] = "none" BY <1>0, <2>0, <4>2 DEF UnspawnedInv
      <4>4. \A u \in Ticker : pc'[u] = "spawn" => u = t
        BY <1>0, <1>b, <2>0, <3>1, OthersIdle DEF GoTo
      <4>5. cur'[t] = s BY <3>1 DEF GoTo, TypeInv, TypeOK
      <4>. QED BY <4>1, <4>2, <4>3, <4>4, <4>5 DEF UnspawnedInv
    <3>4. /\ s \notin todo[t]
          /\ snap[t][s].status \in {"pending", "running", "waiting_clarify"}
          /\ snap[t][s].status # "pending" => (slots[t] = 0 /\ todo[t] = {})
      BY <1>0, <2>0 DEF PhaseInv
    <3>. QED BY <1>p, <2>0, <3>1, <3>3, <3>4, GoToControl DEF ControlInv
  <2>2. CASE ~Claimable(row[s], snap[t][s])
    <3>1. ClaimNext(t, todo[t], slots[t]) /\ UNCHANGED <<row, minted>>
      BY <1>15, <2>2 DEF Claim
    <3>2. UnspawnedInv' BY <1>a, <1>f, <2>0, <3>1
    <3>. QED BY <1>h, <2>0, <3>1, <3>2, ClaimNextControl DEF ControlInv
  <2>. QED BY <2>1, <2>2
<1>16. CASE Spawn(t)
  <2>. DEFINE s == cur[t]
  <2>0. /\ Acting(t) /\ pc[t] \in Claiming /\ UNCHANGED <<task, row, minted, lock>>
        /\ s \in Step /\ GoTo(t, "record", todo[t], s, slots[t])
        /\ worker' = [worker EXCEPT ![s][minted[s]] = "starting"]
    BY <1>c, <1>16 DEF Spawn, Acting, Claiming
  <2>1. minted[s] \in Attempt BY <1>0, <1>16 DEF Spawn, UnspawnedInv
  <2>2. UnspawnedInv'
    <3>1. \A u \in Step : \A a \in Attempt : a > minted'[u] => worker'[u][a] = "none"
      <4>. SUFFICES ASSUME NEW u \in Step, NEW a \in Attempt, a > minted[u]
           PROVE  worker'[u][a] = "none" BY <2>0
      <4>1. ~(u = s /\ a = minted[s]) BY <2>1 DEF Attempt
      <4>2. worker'[u][a] = worker[u][a] BY <1>0, <2>0, <2>1, <4>1
      <4>. QED BY <1>0, <4>2 DEF UnspawnedInv
    <3>2. \A u \in Ticker : pc'[u] # "spawn"
      BY <1>0, <1>b, <2>0, OthersIdle DEF GoTo
    <3>. QED BY <3>1, <3>2 DEF UnspawnedInv
  <2>3. /\ s \notin todo[t]
        /\ snap[t][s].status \in {"pending", "running", "waiting_clarify"}
        /\ snap[t][s].status # "pending" => (slots[t] = 0 /\ todo[t] = {})
    BY <1>0, <2>0 DEF PhaseInv
  <2>. QED BY <1>p, <2>0, <2>2, <2>3, GoToControl DEF ControlInv
<1>17. CASE Sweep(t)
  <2>0. /\ pc[t] = "sweep" /\ pc' = [pc EXCEPT ![t] = "idle"]
        /\ UNCHANGED <<task, minted, snap, cur, todo>>
        /\ \A s \in Step : worker'[s] \in {worker[s], KillPid(row[s], worker[s])}
    BY <1>0, <1>17 DEF Sweep
  <2>1. NoneStays BY <1>0, <2>0, KillPidKeeps DEF NoneStays
  <2>2. lock = t BY <1>0, <2>0 DEF LockInv
  <2>3. \A u \in Ticker : pc'[u] = "idle" /\ snap'[u] = NoSnap
    BY <1>0, <2>0, <2>2, OthersIdle DEF LockInv, Acting
  <2>4. LockInv' /\ PhaseInv' /\ SeenRunning' /\ SnapsMove
    BY <2>3 DEF LockInv, PhaseInv, SeenRunning, Looking, Claiming, Acting, SnapsMove
  <2>5. UnspawnedInv' BY <1>0, <1>c, <2>0, <2>1, <2>3, UnspawnedKept
  <2>. QED BY <2>4, <2>5 DEF ControlInv
<1>. QED
  BY <1>1, <1>2, <1>3, <1>4, <1>5, <1>6, <1>7, <1>8, <1>9, <1>10, <1>11, <1>12, <1>13,
     <1>14, <1>15, <1>16, <1>17 DEF TickStep

\* So does every step of a worker, of the clock, of a crash and of the CEO.
LEMMA OtherStepControl ==
    ASSUME TypeInv, TypeInv', OrderInv, ControlInv, Next, \A t \in Ticker : ~TickStep(t)
    PROVE  ControlInv' /\ SnapsMove
<1>0. /\ row \in [Step -> Row] /\ worker \in [Step -> [Attempt -> WorkerState]]
      /\ \A s \in Step : row[s] \in Row
      /\ pc \in [Ticker -> TickPC]
      /\ LockInv /\ PhaseInv /\ UnspawnedInv /\ SeenRunning
  BY DEF TypeInv, TypeOK, ControlInv
<1>a. UNCHANGED worker => NoneStays BY DEF NoneStays
<1>c. \A u \in Ticker : pc[u] = "spawn" => cur[u] \in Step
  BY DEF OrderInv, ClaimsInOrder, MayClaim
<1>r. ASSUME UNCHANGED tickVars, NoNewRunning PROVE SeenRunning'
  BY <1>0, <1>r DEF tickVars, SeenRunning, SeenAs, NoNewRunning
<1>t. ASSUME UNCHANGED tickVars, UNCHANGED <<task, minted>>, NoneStays, NoNewRunning
      PROVE  ControlInv' /\ SnapsMove
  <2>1. LockInv' BY <1>0, <1>t DEF tickVars, LockInv, Acting
  <2>2. PhaseInv' BY <1>0, <1>t DEF tickVars, PhaseInv, AllDone
  <2>3. UnspawnedInv' BY <1>0, <1>c, <1>t, UnspawnedKept DEF tickVars
  <2>4. SnapsMove BY <1>t DEF tickVars, SnapsMove
  <2>. QED BY <1>r, <1>t, <2>1, <2>2, <2>3, <2>4 DEF ControlInv
<1>1. ASSUME NEW t \in Ticker, TickCrash(t) PROVE ControlInv' /\ SnapsMove
  <2>0. /\ pc[t] # "idle" /\ pc' = [pc EXCEPT ![t] = "idle"]
        /\ snap' = [snap EXCEPT ![t] = NoSnap] /\ UNCHANGED <<task, row, minted, worker>>
    BY <1>1 DEF TickCrash, stepVars
  <2>1. lock = t BY <1>0, <2>0 DEF LockInv
  <2>2. \A u \in Ticker : pc'[u] = "idle" /\ snap'[u] = NoSnap
    BY <1>0, <2>0, <2>1, OthersIdle DEF TypeInv, TypeOK
  <2>3. LockInv' /\ PhaseInv' /\ SeenRunning' /\ SnapsMove
    BY <2>2 DEF LockInv, PhaseInv, SeenRunning, Looking, Claiming, Acting, SnapsMove
  <2>4. UnspawnedInv' BY <1>0, <1>a, <1>c, <2>0, <2>2, UnspawnedKept
  <2>. QED BY <2>3, <2>4 DEF ControlInv
<1>2. ASSUME NEW s \in Step, NEW a \in Attempt, WorkerStart(s, a) \/ WorkerCrash(s, a)
      PROVE  ControlInv' /\ SnapsMove
  <2>0. /\ UNCHANGED <<task, row, minted>> /\ UNCHANGED tickVars
        /\ worker[s][a] \in {"starting", "working"}
        /\ \E w \in {"working", "gone"} : worker' = [worker EXCEPT ![s][a] = w]
    BY <1>2 DEF WorkerStart, WorkerCrash, tickVars
  <2>1. NoneStays BY <1>0, <2>0 DEF NoneStays
  <2>2. NoNewRunning BY <2>0 DEF NoNewRunning
  <2>. QED BY <1>t, <2>0, <2>1, <2>2
<1>3. ASSUME NEW s \in Step, NEW a \in Attempt, NEW o \in Outcome, WorkerEnd(s, a, o)
      PROVE  ControlInv' /\ SnapsMove
  <2>0. /\ UNCHANGED <<task, minted>> /\ UNCHANGED tickVars
        /\ worker[s][a] = "working" /\ worker' = [worker EXCEPT ![s][a] = "gone"]
        /\ UpdateRow(s, SetStepStatus(row[s], a, o))
    BY <1>3 DEF WorkerEnd, tickVars
  <2>1. NoneStays BY <1>0, <2>0 DEF NoneStays
  <2>2. NoNewRunning
    <3>1. o # "running" BY OutcomeAssumption DEF WorkerOutcomes
    <3>2. SetStepStatus(row[s], a, o) = row[s] \/ SetStepStatus(row[s], a, o).status = o
      BY <1>0 DEF SetStepStatus, Row
    <3>. QED BY <1>0, <2>0, <3>1, <3>2 DEF UpdateRow, NoNewRunning
  <2>. QED BY <1>t, <2>0, <2>1, <2>2
<1>4. ASSUME NEW s \in Step, (\E a \in Attempt : Heartbeat(s, a)) \/ LeaseExpires(s)
      PROVE  ControlInv' /\ SnapsMove
  <2>0. /\ UNCHANGED <<task, minted, worker>> /\ UNCHANGED tickVars
        /\ \E f \in BOOLEAN : row' = [row EXCEPT ![s] = [row[s] EXCEPT !.live = f]]
    BY <1>4 DEF Heartbeat, LeaseExpires, UpdateRow, tickVars
  <2>1. NoNewRunning BY <1>0, <2>0 DEF NoNewRunning, Row
  <2>. QED BY <1>a, <1>t, <2>0, <2>1
<1>5. ASSUME NEW s \in Step, HumanSettles(s) PROVE ControlInv' /\ SnapsMove
  <2>1. NoNewRunning BY <1>5 DEF HumanSettles, NoNewRunning
  <2>. QED BY <1>5, <1>a, <1>t, <2>1 DEF HumanSettles, tickVars
<1>6. CASE CancelTask
  <2>0. /\ UNCHANGED <<row, minted, worker>> /\ UNCHANGED tickVars
        /\ task' = "cancelled"
    BY <1>6 DEF CancelTask, stepVars, tickVars
  <2>1. LockInv' /\ PhaseInv' /\ SnapsMove
    BY <1>0, <2>0 DEF tickVars, LockInv, Acting, PhaseInv, AllDone, SnapsMove
  <2>2. UnspawnedInv' BY <1>0, <1>a, <1>c, <2>0, UnspawnedKept DEF tickVars
  <2>3. NoNewRunning BY <2>0 DEF NoNewRunning
  <2>. QED BY <1>r, <2>0, <2>1, <2>2, <2>3 DEF ControlInv
<1>7. CASE RetryStalled \/ DropStalled \/ AcceptStalled
  <2>0. /\ UNCHANGED <<minted, worker>> /\ UNCHANGED tickVars
        /\ task = "stalled" /\ task' = "open"
    BY <1>7 DEF RetryStalled, DropStalled, AcceptStalled, Revive, tickVars
  <2>1. \A u \in Ticker : ~Acting(u) /\ snap[u] = NoSnap
    BY <1>0, <2>0 DEF LockInv
  <2>2. LockInv' /\ PhaseInv' /\ SeenRunning' /\ SnapsMove
    BY <1>0, <2>0, <2>1 DEF tickVars, LockInv, Acting, PhaseInv, SeenRunning, Looking,
                            Claiming, SnapsMove
  <2>3. UnspawnedInv' BY <1>0, <1>a, <1>c, <2>0, UnspawnedKept DEF tickVars
  <2>. QED BY <2>2, <2>3 DEF ControlInv
<1>. QED
  BY <1>1, <1>2, <1>3, <1>4, <1>5, <1>6, <1>7 DEF Next, WorkerStep

\* Nothing happens.
LEMMA StutterControl == ASSUME ControlInv, UNCHANGED vars PROVE ControlInv' /\ SnapsMove
<1>. USE DEF vars, stepVars, tickVars, boundVars
<1>1. LockInv' /\ PhaseInv' BY DEF ControlInv, LockInv, Acting, PhaseInv, AllDone
<1>2. UnspawnedInv' BY DEF ControlInv, UnspawnedInv
<1>3. SeenRunning' /\ SnapsMove BY DEF ControlInv, SeenRunning, SeenAs, SnapsMove
<1>. QED BY <1>1, <1>2, <1>3 DEF ControlInv

\* No tick acts on a fresh task, and no process has been spawned.
LEMMA InitControl == Init => ControlInv
<1>. SUFFICES ASSUME Init PROVE ControlInv OBVIOUS
<1>. USE DEF Init
<1>1. LockInv /\ PhaseInv BY DEF LockInv, Acting, PhaseInv, Claiming
<1>2. UnspawnedInv BY DEF UnspawnedInv
<1>3. SeenRunning BY DEF SeenRunning, Looking
<1>. QED BY <1>1, <1>2, <1>3 DEF ControlInv

\* What every theorem about the ticks starts from.
TickInv == TypeInv /\ OrderInv /\ ControlInv

LEMMA InitTick == Init => TickInv
BY InitTypes, InitOrder, InitControl DEF TickInv

LEMMA StepTick == ASSUME TickInv, [Next]_vars PROVE TickInv' /\ SnapsMove
<1>1. TypeInv' BY TickStepTypes, OtherStepTypes, StutterTypes DEF TickInv
<1>2. OrderInv' BY <1>1, TickStepOrder, OtherStepOrder, StutterOrder DEF TickInv
<1>3. ControlInv' /\ SnapsMove
  BY <1>1, TickStepControl, OtherStepControl, StutterControl DEF TickInv
<1>. QED BY <1>1, <1>2, <1>3 DEF TickInv

\* One tick at a time, on an open or just cancelled task, acting on what its
\* snapshot shows: in every state of every instance.
THEOREM ControlInvariant == Spec => []TickInv
<1>1. TickInv /\ [Next]_vars => TickInv' BY StepTick
<1>. QED BY InitTick, <1>1, PTL DEF Spec

----------------------------------------------------------------------------
(* A task that is reported done is done: the aggregate of a tick trusts a   *)
(* snapshot, and the status it writes is guarded by nothing.  The proof     *)
(* rests on the flock, on the attempt fence of the workers' writes, and on  *)
(* the fact that an attempt whose result was accepted has no process left.  *)

\* The attempt that ended in done or needs_decision has no process left.
Retired(r, w) ==
    /\ r.status = "needs_decision" => r.attempt # 0
    /\ r.status \in {"done", "needs_decision"} /\ r.attempt # 0
       => w[r.attempt] = "gone"

RowsRetired == \A s \in Step : Retired(row[s], worker[s])

SnapsRetired ==
    \A t \in Ticker : \A s \in Step :
        snap[t][s].status = "needs_decision" =>
            snap[t][s].attempt # 0 /\ worker[s][snap[t][s].attempt] = "gone"

\* What the snapshot of a tick shows done is done still.
SeenDoneInv ==
    \A t \in Ticker : \A s \in Step :
        snap[t][s].status = "done" => row[s].status = "done"

DoneInv == RowsRetired /\ SnapsRetired /\ SeenDoneInv /\ DoneIsComplete

\* A process that is gone stays gone.
GoneStays ==
    \A s \in Step : \A a \in Attempt : worker[s][a] = "gone" => worker'[s][a] = "gone"

\* What the snapshots show done stays done.
SeenDoneStays ==
    \A t \in Ticker : \A s \in Step :
        snap'[t] = snap[t] /\ snap[t][s].status = "done" => row'[s].status = "done"

\* No process of a step the coordinator may rule on is left.
RulableGone ==
    \A s \in Step : row[s].status \in Rulable /\ row[s].attempt # 0 =>
        worker[s][row[s].attempt] = "gone"

\* A non-NULL attempt id names an attempt.
LEMMA AttemptType ==
    ASSUME NEW r \in Row, r.attempt # 0 PROVE r.attempt \in Attempt
BY NumberAssumption DEF Row, Attempt

\* A row nobody writes stays retired.
LEMMA RetiredStays ==
    ASSUME TypeInv, DoneInv, GoneStays, NEW v \in Step
    PROVE  Retired(row[v], worker'[v])
<1>1. row[v] \in Row /\ Retired(row[v], worker[v])
  BY DEF TypeInv, TypeOK, DoneInv, RowsRetired
<1>2. row[v].attempt # 0 => row[v].attempt \in Attempt BY <1>1, AttemptType
<1>. QED BY <1>1, <1>2 DEF Retired, GoneStays

\* Those facts, with what a step does to the snapshots, are all that is needed.
LEMMA DoneKept ==
    ASSUME TypeInv, TypeInv', DoneInv, GoneStays, SnapsMove, SeenDoneStays,
           RowsRetired', DoneIsComplete'
    PROVE  DoneInv'
<1>1. SnapsRetired'
  <2>. SUFFICES ASSUME NEW t \in Ticker, NEW s \in Step,
                       snap'[t][s].status = "needs_decision"
       PROVE  snap'[t][s].attempt # 0 /\ worker'[s][snap'[t][s].attempt] = "gone"
    BY DEF SnapsRetired
  <2>1. CASE snap'[t] = snap[t]
    <3>1. snap[t][s].attempt # 0 /\ worker[s][snap[t][s].attempt] = "gone"
      BY <2>1 DEF DoneInv, SnapsRetired
    <3>2. snap[t][s] \in Row BY DEF TypeInv, TypeOK
    <3>3. snap[t][s].attempt \in Attempt BY <3>1, <3>2, AttemptType
    <3>. QED BY <2>1, <3>1, <3>3 DEF GoneStays
  <2>2. CASE snap'[t] = row /\ row' = row
    BY <2>2 DEF RowsRetired, Retired
  <2>3. CASE snap'[t] = NoSnap BY <2>3 DEF NoSnap, FreshRow
  <2>. QED BY <2>1, <2>2, <2>3 DEF SnapsMove
<1>2. SeenDoneInv'
  <2>. SUFFICES ASSUME NEW t \in Ticker, NEW s \in Step, snap'[t][s].status = "done"
       PROVE  row'[s].status = "done"
    BY DEF SeenDoneInv
  <2>1. CASE snap'[t] = snap[t] BY <2>1 DEF SeenDoneStays
  <2>2. CASE snap'[t] = row /\ row' = row BY <2>2
  <2>3. CASE snap'[t] = NoSnap BY <2>3 DEF NoSnap, FreshRow
  <2>. QED BY <2>1, <2>2, <2>3 DEF SnapsMove
<1>. QED BY <1>1, <1>2 DEF DoneInv

\* A row that is written only through a tick's own step stays retired, and
\* nothing that was seen done is touched.
LEMMA OneWriteDone ==
    ASSUME TickInv, DoneInv, NEW t \in Ticker, Acting(t), GoneStays,
           NEW s \in Step, NEW r, UpdateRow(s, r),
           snap[t][s].status # "done", Retired(r, worker'[s])
    PROVE  RowsRetired' /\ SeenDoneStays
<1>0. TypeInv BY DEF TickInv
<1>1. \A u \in Ticker : u # t => snap[u] = NoSnap BY ActingAlone DEF TickInv, ControlInv
<1>2. /\ row'[s] = r /\ \A v \in Step : v # s => row'[v] = row[v]
  BY <1>0 DEF UpdateRow, TypeInv, TypeOK
<1>3. \A v \in Step : Retired(row[v], worker'[v]) BY <1>0, RetiredStays
<1>4. RowsRetired' BY <1>2, <1>3 DEF RowsRetired, Retired
<1>5. SeenDoneStays
  <2>. SUFFICES ASSUME NEW u \in Ticker, NEW v \in Step, snap[u][v].status = "done"
       PROVE  row'[v].status = "done"
    BY DEF SeenDoneStays
  <2>1. u = t BY <1>1 DEF NoSnap, FreshRow
  <2>2. v # s BY <2>1
  <2>. QED BY <1>2, <2>2 DEF DoneInv, SeenDoneInv
<1>. QED BY <1>4, <1>5

\* Rows that keep done when they have it, and stay retired.
LEMMA QuietWriteDone ==
    ASSUME TypeInv, DoneInv, \A s \in Step : row[s].status = "done" => row'[s].status = "done"
    PROVE  SeenDoneStays /\ (task' = task => DoneIsComplete')
BY DEF DoneInv, SeenDoneInv, SeenDoneStays, DoneIsComplete, AllDone

\* No row is written.
LEMMA NoWriteDone ==
    ASSUME TypeInv, DoneInv, UNCHANGED row, GoneStays
    PROVE  RowsRetired' /\ SeenDoneStays
<1>1. \A v \in Step : Retired(row[v], worker'[v]) BY RetiredStays
<1>. QED BY <1>1, QuietWriteDone DEF RowsRetired, Retired

\* The writes that cannot make a row done, and those that keep its process gone.
LEMMA WritesRetired ==
    ASSUME NEW r \in Row, NEW a \in 0 .. MaxAttempt, NEW w \in [Attempt -> WorkerState]
    PROVE  /\ \A st \in Dead : Retired(r, w) => Retired(MarkDead(r, a, st), w)
           /\ Retired(ReserveStep(r, a), w)
           /\ Retired(r, w) => Retired(ResetStepToPending(r), w)
           /\ Retired(MarkStepDropped(r), w)
           /\ Retired(r, w) => Retired(GiveUpWrite(r, a), w)
           /\ Retired(r, w) => Retired(HaltStep(r), w)
           /\ Retired([r EXCEPT !.status = "failed"], w)
           /\ Retired(r, w) => Retired([r EXCEPT !.pid = a], w)
           /\ Retired(r, w) => Retired([r EXCEPT !.live = TRUE], w)
           /\ Retired(r, w) => Retired([r EXCEPT !.live = FALSE], w)
<1>. USE DEF Row, Retired
<1>1. ASSUME NEW st \in Dead, Retired(r, w) PROVE Retired(MarkDead(r, a, st), w)
  BY <1>1 DEF MarkDead, Dead
<1>2. Retired(ReserveStep(r, a), w) BY DEF ReserveStep
<1>3. Retired(r, w) => Retired(ResetStepToPending(r), w) BY DEF ResetStepToPending
<1>4. Retired(MarkStepDropped(r), w) BY DEF MarkStepDropped
<1>5. Retired(r, w) => Retired(GiveUpWrite(r, a), w) BY DEF GiveUpWrite
<1>6. Retired(r, w) => Retired(HaltStep(r), w) BY DEF HaltStep
<1>7. /\ Retired([r EXCEPT !.status = "failed"], w)
      /\ Retired(r, w) => Retired([r EXCEPT !.pid = a], w)
      /\ Retired(r, w) => Retired([r EXCEPT !.live = TRUE], w)
      /\ Retired(r, w) => Retired([r EXCEPT !.live = FALSE], w)
  OBVIOUS
<1>. QED BY <1>1, <1>2, <1>3, <1>4, <1>5, <1>6, <1>7

\* What a write of a tick to the step it acts on comes to.
LEMMA TickWriteDone ==
    ASSUME TickInv, TypeInv', SnapsMove, DoneInv, NEW t \in Ticker, Acting(t),
           UNCHANGED task, GoneStays, NEW s \in Step, NEW r, UpdateRow(s, r),
           snap[t][s].status # "done", Retired(r, worker'[s])
    PROVE  DoneInv'
<1>1. RowsRetired' /\ SeenDoneStays BY OneWriteDone
<1>2. task' # "done" BY ActingAlone DEF TickInv, ControlInv
<1>3. DoneIsComplete' BY <1>2 DEF DoneIsComplete
<1>. QED BY <1>1, <1>3, DoneKept DEF TickInv

\* A step that writes neither a row nor done into the task.
LEMMA NoRowDone ==
    ASSUME TickInv, TypeInv', SnapsMove, DoneInv, UNCHANGED row, GoneStays,
           task' = "done" => task = "done"
    PROVE  DoneInv'
<1>1. RowsRetired' /\ SeenDoneStays BY NoWriteDone DEF TickInv
<1>2. DoneIsComplete' BY DEF DoneInv, DoneIsComplete, AllDone
<1>. QED BY <1>1, <1>2, DoneKept DEF TickInv

\* The ticks keep the invariant, provided that what a coordinator writes itself
\* is a step that no process works on.
LEMMA TickStepDone ==
    ASSUME SelfDo => RulableGone, TickInv, TypeInv', SnapsMove, DoneInv,
           NEW t \in Ticker, TickStep(t)
    PROVE  DoneInv'
<1>. TypeInv /\ OrderInv /\ ControlInv BY DEF TickInv
<1>0. /\ row \in [Step -> Row] /\ worker \in [Step -> [Attempt -> WorkerState]]
      /\ \A s \in Step : snap[t][s] \in Row /\ snap[t][s].attempt \in 0 .. MaxAttempt
      /\ \A s \in Step : row[s] \in Row /\ worker[s] \in [Attempt -> WorkerState]
      /\ 0 \in 0 .. MaxAttempt
      /\ LockInv /\ PhaseInv
      /\ \A s \in Step : Retired(row[s], worker[s])
  BY NumberAssumption DEF TypeInv, TypeOK, Row, ControlInv, DoneInv, RowsRetired
<1>a. UNCHANGED worker => GoneStays BY DEF GoneStays
<1>i. {"failed", "timeout"} \subseteq Dead BY DEF Dead
<1>j. pc[t] \in {"claim", "spawn", "record"} =>
        cur[t] \in Step /\ snap[t][cur[t]].status # "done"
  BY DEF OrderInv, ClaimsInOrder, MayClaim, ReadyPendingSteps, Begun
<1>k. pc[t] = "resolve" => \A u \in todo[t] : snap[t][u].status # "done"
  BY <1>0 DEF PhaseInv, Rulable, Dead
<1>l. pc[t] = "rule" => /\ cur[t] \in Step /\ snap[t][cur[t]].status = "needs_decision"
                        /\ snap[t][cur[t]].attempt # 0
                        /\ worker[cur[t]][snap[t][cur[t]].attempt] = "gone"
  BY <1>0 DEF PhaseInv, DoneInv, SnapsRetired
<1>1. CASE \/ TickBegin(t) \/ Dispatch(t) \/ Aggregate(t) \/ DeadEnd(t) \/ NothingToDo(t)
           \/ RuleGiveUp(t) \/ Conclude(t)
           \/ \E s \in Step : \/ PollQuiet(t, s) \/ PollClarify(t, s) \/ PollRetry(t, s)
                              \/ SpendIntervention(t, s)
  <2>1. /\ UNCHANGED <<row, worker>> /\ (task' = task \/ task' = "stalled")
    BY <1>1 DEF TickBegin, Dispatch, Aggregate, DeadEnd, NothingToDo, RuleGiveUp, Conclude,
       PollQuiet, PollClarify, PollRetry, SpendIntervention, OnlyTick, OnlyRow, stepVars
  <2>. QED BY <1>a, <2>1, NoRowDone
<1>4. ASSUME NEW s \in Step, PollExhausted(t, s) PROVE DoneInv'
  <2>0. /\ Acting(t) /\ UNCHANGED <<task, worker>> /\ snap[t][s].status # "done"
        /\ UpdateRow(s, MarkDead(row[s], snap[t][s].attempt, "failed"))
    BY <1>4 DEF PollExhausted, Visiting, Acting
  <2>1. /\ row[s] \in Row /\ snap[t][s].attempt \in 0 .. MaxAttempt
        /\ worker'[s] \in [Attempt -> WorkerState] /\ Retired(row[s], worker'[s])
    BY <1>0, <2>0
  <2>2. Retired(MarkDead(row[s], snap[t][s].attempt, "failed"), worker'[s])
    BY <1>i, <2>1, WritesRetired
  <2>. QED BY <1>a, <2>0, <2>2, TickWriteDone
<1>5. ASSUME NEW s \in Step, PollTimeout(t, s) PROVE DoneInv'
  <2>0. /\ Acting(t) /\ UNCHANGED task /\ snap[t][s].status # "done"
        /\ UpdateRow(s, MarkDead(row[s], snap[t][s].attempt, "timeout"))
        /\ worker' = [worker EXCEPT ![s] = KillPid(snap[t][s], @)]
    BY <1>5 DEF PollTimeout, Visiting, Acting
  <2>1. GoneStays BY <1>0, <2>0, KillPidKeeps DEF GoneStays
  <2>2. Retired(row[s], worker'[s]) BY <2>1, RetiredStays
  <2>3. worker'[s] \in [Attempt -> WorkerState] BY DEF TypeInv, TypeOK
  <2>4. Retired(MarkDead(row[s], snap[t][s].attempt, "timeout"), worker'[s])
    BY <1>0, <1>i, <2>2, <2>3, WritesRetired
  <2>. QED BY <2>0, <2>1, <2>4, TickWriteDone
<1>7. ASSUME NEW s \in Step, ResolveSelfDo(t, s) PROVE DoneInv'
  <2>0. /\ Acting(t) /\ UNCHANGED <<task, worker>> /\ snap[t][s].status # "done"
        /\ UpdateRow(s, MarkDoneByCoordinator(row[s]))
    BY <1>k, <1>7 DEF ResolveSelfDo, First, OnlyRow, Acting
  <2>1. SelfDo /\ row[s].status \in Rulable BY <1>7 DEF ResolveSelfDo, Unmoved
  <2>2. Retired(MarkDoneByCoordinator(row[s]), worker'[s])
    BY <1>0, <2>0, <2>1 DEF RulableGone, MarkDoneByCoordinator, Retired, Row
  <2>. QED BY <1>a, <2>0, <2>2, TickWriteDone
<1>8. ASSUME NEW s \in Step, ResolveSkip(t, s) PROVE DoneInv'
  <2>0. /\ Acting(t) /\ UNCHANGED <<task, worker>> /\ snap[t][s].status # "done"
        /\ UNCHANGED row \/ UpdateRow(s, MarkStepDropped(row[s]))
    BY <1>k, <1>8 DEF ResolveSkip, First, OnlyRow, Acting
  <2>1. Retired(MarkStepDropped(row[s]), worker'[s]) BY <1>0, <2>0, WritesRetired
  <2>. QED BY <1>a, <2>0, <2>1, NoRowDone, TickWriteDone
<1>9. ASSUME NEW s \in Step, ResolveNone(t, s) PROVE DoneInv'
  <2>0. /\ Acting(t) /\ UNCHANGED <<task, worker>> /\ snap[t][s].status # "done"
        /\ UNCHANGED row \/ UpdateRow(s, GiveUpWrite(row[s], snap[t][s].attempt))
    BY <1>k, <1>9 DEF ResolveNone, First, OnlyRow, Acting
  <2>1. /\ row[s] \in Row /\ snap[t][s].attempt \in 0 .. MaxAttempt
        /\ worker'[s] \in [Attempt -> WorkerState] /\ Retired(row[s], worker'[s])
    BY <1>0, <2>0
  <2>2. Retired(GiveUpWrite(row[s], snap[t][s].attempt), worker'[s])
    BY <2>1, WritesRetired
  <2>. QED BY <1>a, <2>0, <2>2, NoRowDone, TickWriteDone
<1>10. CASE RuleAccept(t)
  <2>. DEFINE s == cur[t]
  <2>0. /\ Acting(t) /\ UNCHANGED <<task, worker>> /\ s \in Step
        /\ snap[t][s].status # "done" /\ snap[t][s].attempt # 0
        /\ worker[s][snap[t][s].attempt] = "gone"
    BY <1>l, <1>10 DEF RuleAccept, OnlyRow, Acting
  <2>1. CASE Unmoved(row[s], snap[t][s].attempt)
    <3>1. UpdateRow(s, MarkDoneByCoordinator(row[s])) BY <1>10, <2>1 DEF RuleAccept
    <3>2. row[s].attempt = snap[t][s].attempt BY <2>0, <2>1 DEF Unmoved, Fenced
    <3>3. Retired(MarkDoneByCoordinator(row[s]), worker'[s])
      BY <1>0, <2>0, <3>2 DEF MarkDoneByCoordinator, Retired, Row
    <3>. QED BY <1>a, <2>0, <3>1, <3>3, TickWriteDone
  <2>2. CASE ~Unmoved(row[s], snap[t][s].attempt)
    <3>1. UNCHANGED row BY <1>10, <2>2 DEF RuleAccept
    <3>. QED BY <1>a, <2>0, <3>1, NoRowDone
  <2>. QED BY <2>1, <2>2
<1>11. CASE RuleRetry(t)
  <2>0. /\ Acting(t) /\ UNCHANGED <<task, worker>> /\ cur[t] \in Step
        /\ snap[t][cur[t]].status # "done"
        /\ UpdateRow(cur[t], ResetStepToPending(row[cur[t]]))
    BY <1>l, <1>11 DEF RuleRetry, OnlyRow, Acting
  <2>1. Retired(ResetStepToPending(row[cur[t]]), worker'[cur[t]])
    BY <1>0, <2>0, WritesRetired
  <2>. QED BY <1>a, <2>0, <2>1, TickWriteDone
<1>15. CASE AggregateDone(t)
  <2>0. UNCHANGED <<row, worker>> /\ task' = "done"
    BY <1>15 DEF AggregateDone, stepVars
  <2>1. AllDone(snap[t]) BY <1>0, <1>15 DEF AggregateDone, PhaseInv
  <2>2. AllDone(row) BY <2>1 DEF DoneInv, SeenDoneInv, AllDone
  <2>3. DoneIsComplete' BY <2>0, <2>2 DEF DoneIsComplete, AllDone
  <2>4. RowsRetired' /\ SeenDoneStays BY <1>a, <2>0, NoWriteDone
  <2>. QED BY <1>a, <2>0, <2>3, <2>4, DoneKept
<1>16. CASE RosterReject(t)
  <2>0. /\ Acting(t) /\ UNCHANGED <<task, worker>> /\ cur[t] \in Step
        /\ snap[t][cur[t]].status # "done"
        /\ UpdateRow(cur[t], [row[cur[t]] EXCEPT !.status = "failed"])
    BY <1>j, <1>16 DEF RosterReject, OnlyRow, Acting
  <2>1. Retired([row[cur[t]] EXCEPT !.status = "failed"], worker'[cur[t]])
    BY <1>0, <2>0, WritesRetired
  <2>. QED BY <1>a, <2>0, <2>1, TickWriteDone
<1>17. CASE Claim(t)
  <2>. DEFINE s == cur[t]
  <2>0. /\ Acting(t) /\ UNCHANGED <<task, worker>>
        /\ s \in Step /\ snap[t][s].status # "done"
    BY <1>j, <1>17 DEF Claim, Acting
  <2>1. CASE Claimable(row[s], snap[t][s])
    <3>1. /\ minted' = [minted EXCEPT ![s] = @ + 1] /\ minted[s] < MaxAttempt
          /\ UpdateRow(s, ReserveStep(row[s], minted'[s]))
      BY <1>17, <2>1 DEF Claim
    <3>2. minted'[s] \in 0 .. MaxAttempt BY <2>0, <3>1 DEF TypeInv, TypeOK
    <3>3. Retired(ReserveStep(row[s], minted'[s]), worker'[s])
      BY <1>0, <2>0, <3>2, WritesRetired
    <3>. QED BY <1>a, <2>0, <3>1, <3>3, TickWriteDone
  <2>2. CASE ~Claimable(row[s], snap[t][s])
    <3>1. UNCHANGED row BY <1>17, <2>2 DEF Claim
    <3>. QED BY <1>a, <2>0, <3>1, NoRowDone
  <2>. QED BY <2>1, <2>2
<1>18. CASE Spawn(t)
  <2>. DEFINE s == cur[t]
  <2>0. /\ UNCHANGED <<task, row>> /\ s \in Step
        /\ worker' = [worker EXCEPT ![s][minted[s]] = "starting"]
    BY <1>j, <1>18 DEF Spawn
  <2>1. minted[s] \in Attempt /\ worker[s][minted[s]] = "none"
    BY <1>18 DEF Spawn, ControlInv, UnspawnedInv
  <2>2. GoneStays BY <1>0, <2>0, <2>1 DEF GoneStays
  <2>. QED BY <2>0, <2>2, NoRowDone
<1>19. CASE RecordSpawn(t)
  <2>0. /\ Acting(t) /\ UNCHANGED <<task, minted, worker>> /\ cur[t] \in Step
        /\ snap[t][cur[t]].status # "done"
        /\ UpdateRow(cur[t], [row[cur[t]] EXCEPT !.pid = minted[cur[t]]])
    BY <1>j, <1>19 DEF RecordSpawn, OnlyRow, Acting
  <2>1. minted[cur[t]] \in 0 .. MaxAttempt BY <2>0 DEF TypeInv, TypeOK
  <2>2. Retired([row[cur[t]] EXCEPT !.pid = minted[cur[t]]], worker'[cur[t]])
    BY <1>0, <2>0, <2>1, WritesRetired
  <2>. QED BY <1>a, <2>0, <2>2, TickWriteDone
<1>20. CASE Sweep(t)
  <2>0. /\ UNCHANGED task
        /\ \A s \in Step : row'[s] \in {row[s], HaltStep(row[s])}
        /\ \A s \in Step : worker'[s] \in {worker[s], KillPid(row[s], worker[s])}
    BY <1>0, <1>20 DEF Sweep
  <2>1. GoneStays BY <1>0, <2>0, KillPidKeeps DEF GoneStays
  <2>2. RowsRetired'
    <3>1. \A s \in Step : Retired(row[s], worker'[s]) /\ worker'[s] \in [Attempt -> WorkerState]
      BY <2>1, RetiredStays DEF TypeInv, TypeOK
    <3>2. \A s \in Step : Retired(HaltStep(row[s]), worker'[s])
      BY <1>0, <3>1, WritesRetired
    <3>. QED BY <2>0, <3>1, <3>2 DEF RowsRetired, Retired
  <2>3. \A s \in Step : row[s].status = "done" => row'[s].status = "done"
    BY <2>0 DEF HaltStep
  <2>4. SeenDoneStays /\ DoneIsComplete' BY <2>0, <2>3, QuietWriteDone
  <2>. QED BY <2>1, <2>2, <2>4, DoneKept
<1>. QED
  BY <1>1, <1>4, <1>5, <1>7, <1>8, <1>9, <1>10, <1>11, <1>15, <1>16, <1>17, <1>18,
     <1>19, <1>20 DEF TickStep

\* So do the workers, the clock, the crashes and the CEO.
LEMMA OtherStepDone ==
    ASSUME TickInv, TypeInv', SnapsMove, DoneInv, Next, \A t \in Ticker : ~TickStep(t)
    PROVE  DoneInv'
<1>. TypeInv /\ OrderInv /\ ControlInv BY DEF TickInv
<1>0. /\ row \in [Step -> Row] /\ worker \in [Step -> [Attempt -> WorkerState]]
      /\ worker' \in [Step -> [Attempt -> WorkerState]]
      /\ \A s \in Step : row[s] \in Row /\ worker'[s] \in [Attempt -> WorkerState]
      /\ 0 \in 0 .. MaxAttempt
      /\ \A s \in Step : Retired(row[s], worker[s]) /\ worker[s] \in [Attempt -> WorkerState]
  BY NumberAssumption DEF TypeInv, TypeOK, DoneInv, RowsRetired
<1>a. UNCHANGED worker => GoneStays BY DEF GoneStays
<1>1. CASE CancelTask \/ \E t \in Ticker : TickCrash(t)
  <2>1. UNCHANGED <<row, worker>> /\ (task' = task \/ task' = "cancelled")
    BY <1>1 DEF CancelTask, TickCrash, stepVars
  <2>. QED BY <1>a, <2>1, NoRowDone
<1>2. ASSUME NEW s \in Step, NEW a \in Attempt, WorkerStart(s, a) \/ WorkerCrash(s, a)
      PROVE  DoneInv'
  <2>0. /\ UNCHANGED <<task, row>> /\ worker[s][a] \in {"starting", "working"}
        /\ \E w \in {"working", "gone"} : worker' = [worker EXCEPT ![s][a] = w]
    BY <1>2 DEF WorkerStart, WorkerCrash
  <2>1. GoneStays BY <1>0, <2>0 DEF GoneStays
  <2>. QED BY <2>0, <2>1, NoRowDone
<1>3. ASSUME NEW s \in Step, NEW a \in Attempt, NEW o \in Outcome, WorkerEnd(s, a, o)
      PROVE  DoneInv'
  <2>0. /\ UNCHANGED task
        /\ worker[s][a] = "working" /\ worker' = [worker EXCEPT ![s][a] = "gone"]
        /\ UpdateRow(s, SetStepStatus(row[s], a, o))
    BY <1>3 DEF WorkerEnd
  <2>1. GoneStays BY <1>0, <2>0 DEF GoneStays
  <2>2. a # 0 /\ worker'[s][a] = "gone" BY <1>0, <2>0 DEF Attempt
  <2>3. Retired(row[s], worker'[s]) BY <2>1, RetiredStays
  <2>4. Retired(SetStepStatus(row[s], a, o), worker'[s])
    <3>1. CASE row[s].attempt # a BY <2>3, <3>1 DEF SetStepStatus
    <3>2. CASE row[s].attempt = a
      <4>1. SetStepStatus(row[s], a, o).attempt = a
        BY <1>0, <3>2 DEF SetStepStatus, Row
      <4>. QED BY <2>2, <4>1 DEF Retired
    <3>. QED BY <3>1, <3>2
  <2>5. RowsRetired'
    <3>. SUFFICES ASSUME NEW u \in Step PROVE Retired(row'[u], worker'[u])
      BY DEF RowsRetired, Retired
    <3>1. CASE u = s BY <1>0, <2>0, <2>4, <3>1 DEF UpdateRow
    <3>2. CASE u # s
      <4>1. row'[u] = row[u] BY <1>0, <2>0, <3>2 DEF UpdateRow
      <4>. QED BY <2>1, <4>1, RetiredStays
    <3>. QED BY <3>1, <3>2
  <2>6. \A u \in Step : row[u].status = "done" => row'[u].status = "done"
    <3>1. row[s].status = "done" => row[s].attempt # a
      BY <2>0, <2>2 DEF DoneInv, RowsRetired, Retired
    <3>2. row[s].attempt # a => SetStepStatus(row[s], a, o) = row[s] BY DEF SetStepStatus
    <3>. QED BY <1>0, <2>0, <3>1, <3>2 DEF UpdateRow
  <2>7. SeenDoneStays /\ DoneIsComplete' BY <2>0, <2>6, QuietWriteDone
  <2>. QED BY <2>1, <2>5, <2>7, DoneKept
<1>v. ASSUME UNCHANGED <<task, worker>>,
             \A s \in Step : Retired(row'[s], worker[s]),
             \A s \in Step : row[s].status = "done" => row'[s].status = "done"
      PROVE  DoneInv'
  <2>1. RowsRetired' BY <1>v DEF RowsRetired, Retired
  <2>2. SeenDoneStays /\ DoneIsComplete' BY <1>v, QuietWriteDone
  <2>. QED BY <1>a, <1>v, <2>1, <2>2, DoneKept
<1>4. ASSUME NEW s \in Step, (\E a \in Attempt : Heartbeat(s, a)) \/ LeaseExpires(s)
      PROVE  DoneInv'
  <2>1. /\ UNCHANGED <<task, worker>>
        /\ \E f \in BOOLEAN : row' = [row EXCEPT ![s] = [row[s] EXCEPT !.live = f]]
    BY <1>4 DEF Heartbeat, LeaseExpires, UpdateRow
  <2>2. \A u \in Step : Retired(row'[u], worker[u])
    <3>1. \A f \in BOOLEAN : Retired([row[s] EXCEPT !.live = f], worker[s])
      BY <1>0, WritesRetired
    <3>. QED BY <1>0, <2>1, <3>1
  <2>3. \A u \in Step : row'[u].status = row[u].status BY <1>0, <2>1 DEF Row
  <2>. QED BY <1>v, <2>1, <2>2, <2>3
<1>6. ASSUME NEW s \in Step, HumanSettles(s) PROVE DoneInv'
  BY <1>6, <1>0, <1>v DEF HumanSettles
<1>8. CASE RetryStalled \/ DropStalled \/ AcceptStalled
  <2>0. UNCHANGED worker /\ task' = "open"
    BY <1>8 DEF RetryStalled, DropStalled, AcceptStalled, Revive
  <2>1. /\ \A s \in Step : row'[s] \in {row[s], ResetStepToPending(row[s]),
                                        MarkStepDropped(row[s])}
        /\ \A s \in Step : row[s].status = "done" => row'[s] = row[s]
    BY <1>8 DEF RetryStalled, DropStalled, AcceptStalled, Revive, DeadSteps, Dead
  <2>2. RowsRetired'
    <3>1. \A s \in Step : /\ Retired(ResetStepToPending(row[s]), worker[s])
                          /\ Retired(MarkStepDropped(row[s]), worker[s])
      BY <1>0, WritesRetired
    <3>2. \A s \in Step : Retired(row'[s], worker[s]) BY <1>0, <2>1, <3>1
    <3>. QED BY <2>0, <3>2 DEF RowsRetired, Retired
  <2>3. SeenDoneStays BY <2>1, QuietWriteDone
  <2>4. DoneIsComplete' BY <2>0 DEF DoneIsComplete
  <2>. QED BY <1>a, <2>0, <2>2, <2>3, <2>4, DoneKept
<1>. QED
  BY <1>1, <1>2, <1>3, <1>4, <1>6, <1>8 DEF Next, WorkerStep

\* Nothing happens.
LEMMA StutterDone == ASSUME DoneInv, UNCHANGED vars PROVE DoneInv'
<1>. USE DEF vars, stepVars, tickVars, boundVars
<1>1. RowsRetired' /\ SnapsRetired' BY DEF DoneInv, RowsRetired, Retired, SnapsRetired
<1>2. SeenDoneInv' /\ DoneIsComplete'
  BY DEF DoneInv, SeenDoneInv, DoneIsComplete, AllDone
<1>. QED BY <1>1, <1>2 DEF DoneInv

\* No step of a fresh task is done, and no process has been spawned.
LEMMA InitDone == Init => DoneInv
BY DEF Init, DoneInv, DoneIsComplete, RowsRetired, Retired, SnapsRetired, SeenDoneInv,
       NoSnap, FreshRow

\* A step of the system, where the coordinator writes no running step itself.
LEMMA StepDone ==
    ASSUME SelfDo => RulableGone, TickInv, DoneInv, [Next]_vars PROVE DoneInv'
<1>1. TickInv' /\ SnapsMove BY StepTick
<1>. QED BY <1>1, TickStepDone, OtherStepDone, StutterDone DEF TickInv

\* When the coordinator may not write a step's result itself, a task is never
\* reported done unless every step of its plan is done, however many ticks
\* crash, processes linger and leases run out: the aggregate trusts a snapshot
\* it read earlier and writes the status unguarded, and this is why it may.
THEOREM DoneTaskIsComplete == ASSUME ~SelfDo PROVE Spec => []DoneIsComplete
<1>. DEFINE Inv == TickInv /\ DoneInv
<1>1. Init => Inv BY InitTick, InitDone
<1>2. Inv /\ [Next]_vars => Inv' BY StepTick, StepDone
<1>3. Inv => DoneIsComplete BY DEF DoneInv
<1>. QED BY <1>1, <1>2, <1>3, PTL DEF Spec
=============================================================================
