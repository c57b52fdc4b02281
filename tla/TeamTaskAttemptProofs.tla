------------------------ MODULE TeamTaskAttemptProofs ------------------------
(***************************************************************************)
(* The attempts of a step: who may complete them, what a dropped step      *)
(* keeps, how many run at a time, how many are spent, and that no two work *)
(* on a step as long as no tick process dies.                              *)
(***************************************************************************)
EXTENDS TeamTaskTickProofs

----------------------------------------------------------------------------
(* What the steps of the system write into a row.                          *)

\* What every write leaves of status, attempt id and pid.
LEMMA WriteShapes ==
    ASSUME NEW r \in Row, NEW a, NEW st
    PROVE  /\ LET q == MarkDead(r, a, st) IN
                q.status \in {r.status, st} /\ q.attempt = r.attempt /\ q.pid = r.pid
           /\ LET q == GiveUpWrite(r, a) IN
                q.status \in {r.status, "failed"} /\ q.attempt = r.attempt /\ q.pid = r.pid
           /\ LET q == HaltStep(r) IN
                /\ q.status = IF r.status = "running" THEN "failed" ELSE r.status
                /\ q.attempt = r.attempt /\ q.pid = r.pid
           /\ LET q == ResetStepToPending(r) IN
                IF r.status \in Rulable THEN q.status = "pending" /\ q.attempt = 0 ELSE q = r
           /\ MarkStepDropped(r).status = "done" /\ MarkStepDropped(r).attempt = 0
           /\ LET q == MarkDoneByCoordinator(r) IN q.status = "done" /\ q.attempt = r.attempt
           /\ LET q == ReserveStep(r, a) IN
                q.status = "running" /\ q.attempt = a /\ q.pid = r.pid
           /\ LET q == SetStepStatus(r, a, st) IN
                /\ q.status = IF r.attempt = a THEN st ELSE r.status
                /\ q.attempt = r.attempt /\ q.pid = r.pid
           /\ LET q == [r EXCEPT !.status = "failed"] IN
                q.status = "failed" /\ q.attempt = r.attempt /\ q.pid = r.pid
           /\ LET q == [r EXCEPT !.pid = a] IN
                q.status = r.status /\ q.attempt = r.attempt /\ q.pid = a
           /\ \A f : LET q == [r EXCEPT !.live = f] IN
                q.status = r.status /\ q.attempt = r.attempt /\ q.pid = r.pid
<1>. USE DEF Row
<1>1. LET q == MarkDead(r, a, st) IN
        q.status \in {r.status, st} /\ q.attempt = r.attempt /\ q.pid = r.pid
  BY DEF MarkDead
<1>2. LET q == GiveUpWrite(r, a) IN
        q.status \in {r.status, "failed"} /\ q.attempt = r.attempt /\ q.pid = r.pid
  BY DEF GiveUpWrite
<1>3. LET q == HaltStep(r) IN
        /\ q.status = IF r.status = "running" THEN "failed" ELSE r.status
        /\ q.attempt = r.attempt /\ q.pid = r.pid
  BY DEF HaltStep
<1>4. LET q == ResetStepToPending(r) IN
        IF r.status \in Rulable THEN q.status = "pending" /\ q.attempt = 0 ELSE q = r
  BY DEF ResetStepToPending
<1>5. MarkStepDropped(r).status = "done" /\ MarkStepDropped(r).attempt = 0
  BY DEF MarkStepDropped
<1>6. LET q == MarkDoneByCoordinator(r) IN q.status = "done" /\ q.attempt = r.attempt
  BY DEF MarkDoneByCoordinator
<1>7. LET q == ReserveStep(r, a) IN q.status = "running" /\ q.attempt = a /\ q.pid = r.pid
  BY DEF ReserveStep
<1>8. LET q == SetStepStatus(r, a, st) IN
        /\ q.status = IF r.attempt = a THEN st ELSE r.status
        /\ q.attempt = r.attempt /\ q.pid = r.pid
  BY DEF SetStepStatus
<1>9. /\ LET q == [r EXCEPT !.status = "failed"] IN
           q.status = "failed" /\ q.attempt = r.attempt /\ q.pid = r.pid
      /\ LET q == [r EXCEPT !.pid = a] IN
           q.status = r.status /\ q.attempt = r.attempt /\ q.pid = a
      /\ \A f : LET q == [r EXCEPT !.live = f] IN
           q.status = r.status /\ q.attempt = r.attempt /\ q.pid = r.pid
  OBVIOUS
<1>. QED BY <1>1, <1>2, <1>3, <1>4, <1>5, <1>6, <1>7, <1>8, <1>9

\* What a tick writes into a row of a step, judged by its snapshot.  A tick
\* that completes a row itself ends there.
SameLease(s) == row'[s].attempt = row[s].attempt /\ row'[s].pid = row[s].pid
TickWrite(t, s) ==
    \/ row'[s].status = row[s].status /\ SameLease(s)
    \/ /\ Acting(t) /\ snap[t][s].status # "done"
       /\ \/ row'[s].status \in Dead /\ SameLease(s)
          \/ /\ row[s].status \in Rulable /\ row'[s].status = "done"
             /\ row'[s].attempt \in {row[s].attempt, 0} /\ ~Acting(t)'
          \/ /\ RuleRetry(t) /\ s = cur[t]
             /\ row[s].status \in Rulable /\ row'[s].status = "pending" /\ row'[s].attempt = 0
          \/ /\ Claim(t) /\ s = cur[t] /\ row'[s].status = "running"
             /\ row'[s].attempt = minted'[s] /\ minted'[s] = minted[s] + 1
          \/ /\ RecordSpawn(t) /\ s = cur[t] /\ row'[s].status = row[s].status
             /\ row'[s].attempt = row[s].attempt /\ row'[s].pid = minted[s]
    \/ row[s].status = "running" /\ row'[s].status = "failed" /\ SameLease(s)

\* A tick writes one row at most, except when it halts what a cancelled task
\* still runs.
LEMMA TickWrites ==
    ASSUME TickInv, NEW t \in Ticker, TickStep(t), NEW u \in Step
    PROVE  TickWrite(t, u)
<1>0. /\ row \in [Step -> Row] /\ \A s \in Step : row[s] \in Row
      /\ minted \in [Step -> 0 .. MaxAttempt] /\ PhaseInv /\ ClaimsInOrder
  BY DEF TickInv, TypeInv, TypeOK, ControlInv, OrderInv
<1>j. pc[t] \in Claiming => cur[t] \in Step /\ snap[t][cur[t]].status # "done"
  BY <1>0 DEF ClaimsInOrder, MayClaim, ReadyPendingSteps, Begun, Claiming
<1>k. pc[t] = "resolve" => \A s \in todo[t] : snap[t][s].status # "done"
  BY <1>0 DEF PhaseInv, Rulable, Dead
<1>l. pc[t] = "rule" => cur[t] \in Step /\ snap[t][cur[t]].status # "done"
  BY <1>0 DEF PhaseInv
<1>m. ASSUME NEW s \in Step, NEW r, UpdateRow(s, r)
      PROVE  row'[u] = row[u] \/ (u = s /\ row'[u] = r)
  BY <1>0, <1>m DEF UpdateRow
<1>f. Finish(t) => ~Acting(t)' BY DEF TickInv, TypeInv, TypeOK, Finish, Acting
<1>n. row'[u] = row[u] => TickWrite(t, u) BY DEF TickWrite, SameLease
<1>1. CASE row' = row BY <1>1, <1>n
<1>2. ASSUME NEW s \in Step, PollExhausted(t, s) \/ PollTimeout(t, s) PROVE TickWrite(t, u)
  <2>1. Acting(t) /\ snap[t][s].status # "done"
    BY <1>2 DEF PollExhausted, PollTimeout, Visiting, Acting
  <2>2. PICK st \in Dead : UpdateRow(s, MarkDead(row[s], snap[t][s].attempt, st))
    BY <1>2 DEF PollExhausted, PollTimeout, Dead
  <2>3. LET q == MarkDead(row[s], snap[t][s].attempt, st) IN
          q.status \in {row[s].status, st} /\ q.attempt = row[s].attempt /\ q.pid = row[s].pid
    BY <1>0, WriteShapes
  <2>. QED BY <1>m, <1>n, <2>1, <2>2, <2>3 DEF TickWrite, SameLease
<1>3. ASSUME NEW s \in Step, ResolveSelfDo(t, s) \/ ResolveSkip(t, s) \/ ResolveNone(t, s)
      PROVE  TickWrite(t, u)
  <2>1. Acting(t) /\ snap[t][s].status # "done"
    BY <1>k, <1>3 DEF ResolveSelfDo, ResolveSkip, ResolveNone, First, Acting
  <2>2. \/ UNCHANGED row
        \/ /\ row[s].status \in Rulable /\ Finish(t)
           /\ \/ UpdateRow(s, MarkDoneByCoordinator(row[s]))
              \/ UpdateRow(s, MarkStepDropped(row[s]))
        \/ UpdateRow(s, GiveUpWrite(row[s], snap[t][s].attempt))
    BY <1>3 DEF ResolveSelfDo, ResolveSkip, ResolveNone, Unmoved
  <2>3. /\ LET q == GiveUpWrite(row[s], snap[t][s].attempt) IN
             q.status \in {row[s].status, "failed"} /\ q.attempt = row[s].attempt /\ q.pid = row[s].pid
        /\ LET q == MarkDoneByCoordinator(row[s]) IN q.status = "done" /\ q.attempt = row[s].attempt
        /\ LET q == MarkStepDropped(row[s]) IN q.status = "done" /\ q.attempt = 0
    BY <1>0, WriteShapes
  <2>. QED BY <1>f, <1>m, <1>n, <2>1, <2>2, <2>3 DEF TickWrite, SameLease, Dead
<1>4. CASE RuleAccept(t) \/ RuleRetry(t)
  <2>1. Acting(t) /\ cur[t] \in Step /\ snap[t][cur[t]].status # "done"
    BY <1>l, <1>4 DEF RuleAccept, RuleRetry, Acting
  <2>2. \/ UNCHANGED row
        \/ /\ row[cur[t]].status \in Rulable /\ Finish(t)
           /\ UpdateRow(cur[t], MarkDoneByCoordinator(row[cur[t]]))
        \/ RuleRetry(t) /\ UpdateRow(cur[t], ResetStepToPending(row[cur[t]]))
    BY <1>4 DEF RuleAccept, RuleRetry, Unmoved
  <2>3. LET q == MarkDoneByCoordinator(row[cur[t]]) IN
          q.status = "done" /\ q.attempt = row[cur[t]].attempt
    BY <1>0, <2>1, WriteShapes
  <2>4. LET q == ResetStepToPending(row[cur[t]]) IN
          IF row[cur[t]].status \in Rulable THEN q.status = "pending" /\ q.attempt = 0
          ELSE q = row[cur[t]]
    BY <1>0, <2>1, WriteShapes
  <2>. QED BY <1>f, <1>m, <1>n, <2>1, <2>2, <2>3, <2>4 DEF TickWrite, SameLease
<1>5. CASE RosterReject(t) \/ Claim(t) \/ RecordSpawn(t)
  <2>1. Acting(t) /\ cur[t] \in Step /\ snap[t][cur[t]].status # "done"
    BY <1>j, <1>5 DEF RosterReject, Claim, RecordSpawn, Acting, Claiming
  <2>2. \/ UNCHANGED row
        \/ UpdateRow(cur[t], [row[cur[t]] EXCEPT !.status = "failed"])
        \/ /\ Claim(t) /\ minted'[cur[t]] = minted[cur[t]] + 1
           /\ UpdateRow(cur[t], ReserveStep(row[cur[t]], minted'[cur[t]]))
        \/ RecordSpawn(t) /\ UpdateRow(cur[t], [row[cur[t]] EXCEPT !.pid = minted[cur[t]]])
    BY <1>0, <1>5, <2>1 DEF RosterReject, Claim, RecordSpawn
  <2>c. row[cur[t]] \in Row BY <1>0, <2>1
  <2>3. ASSUME NEW a
        PROVE  LET q == ReserveStep(row[cur[t]], a) IN q.status = "running" /\ q.attempt = a
    BY <2>c, WriteShapes
  <2>4. /\ LET q == [row[cur[t]] EXCEPT !.status = "failed"] IN
             q.status = "failed" /\ q.attempt = row[cur[t]].attempt /\ q.pid = row[cur[t]].pid
        /\ \A a : LET q == [row[cur[t]] EXCEPT !.pid = a] IN
             q.status = row[cur[t]].status /\ q.attempt = row[cur[t]].attempt /\ q.pid = a
    BY <2>c, WriteShapes
  <2>5. CASE UpdateRow(cur[t], [row[cur[t]] EXCEPT !.status = "failed"])
    BY <1>m, <1>n, <2>1, <2>4, <2>5 DEF TickWrite, SameLease, Dead
  <2>6. CASE /\ Claim(t) /\ minted'[cur[t]] = minted[cur[t]] + 1
             /\ UpdateRow(cur[t], ReserveStep(row[cur[t]], minted'[cur[t]]))
    BY <1>m, <1>n, <2>1, <2>3, <2>6 DEF TickWrite
  <2>7. CASE RecordSpawn(t) /\ UpdateRow(cur[t], [row[cur[t]] EXCEPT !.pid = minted[cur[t]]])
    <3>. DEFINE q == [row[cur[t]] EXCEPT !.pid = minted[cur[t]]]
    <3>1. /\ q.status = row[cur[t]].status /\ q.attempt = row[cur[t]].attempt
          /\ q.pid = minted[cur[t]]
      BY <2>4
    <3>2. UpdateRow(cur[t], q) BY <2>7
    <3>. HIDE DEF q
    <3>3. row'[u] = row[u] \/ (u = cur[t] /\ row'[u] = q) BY <1>m, <2>1, <3>2
    <3>4. u = cur[t] /\ row'[u] = q => TickWrite(t, u) BY <2>1, <2>7, <3>1 DEF TickWrite
    <3>. QED BY <1>n, <3>3, <3>4
  <2>. QED BY <1>n, <2>2, <2>5, <2>6, <2>7
<1>6. CASE Sweep(t)
  <2>1. row'[u] = row[u] \/ row'[u] = HaltStep(row[u]) BY <1>6 DEF Sweep
  <2>2. LET q == HaltStep(row[u]) IN
          /\ q.status = IF row[u].status = "running" THEN "failed" ELSE row[u].status
          /\ q.attempt = row[u].attempt /\ q.pid = row[u].pid
    BY <1>0, WriteShapes
  <2>. QED BY <1>n, <2>1, <2>2 DEF TickWrite, SameLease
<1>. QED
  BY <1>1, <1>2, <1>3, <1>4, <1>5, <1>6
     DEF TickStep, TickBegin, PollQuiet, PollRetry, PollClarify, SpendIntervention,
         RuleGiveUp, Dispatch, Aggregate, DeadEnd, NothingToDo, Spawn, AggregateDone,
         Conclude, OnlyTick, stepVars

\* What everybody else writes into a row: a worker its end, into the lease it
\* holds; a heartbeat or the clock the lease; the CEO a dead row.
OtherWrite(s) ==
    \/ row'[s].status = row[s].status /\ SameLease(s)
    \/ \E a \in Attempt : \E o \in Outcome :
          /\ WorkerEnd(s, a, o) /\ row[s].attempt = a
          /\ row'[s].status = o /\ SameLease(s)
    \/ /\ task = "stalled" /\ reopened' = reopened + 1 /\ row[s].status \in Dead
       /\ row'[s].status \in {"pending", "done"} /\ row'[s].attempt = 0

LEMMA OtherWrites ==
    ASSUME TypeInv, [Next]_vars, \A t \in Ticker : ~TickStep(t), NEW u \in Step
    PROVE  OtherWrite(u)
<1>0. row \in [Step -> Row] /\ \A s \in Step : row[s] \in Row BY DEF TypeInv, TypeOK
<1>m. ASSUME NEW s \in Step, NEW r, UpdateRow(s, r)
      PROVE  row'[u] = row[u] \/ (u = s /\ row'[u] = r)
  BY <1>0, <1>m DEF UpdateRow
<1>n. row'[u] = row[u] => OtherWrite(u) BY DEF OtherWrite, SameLease
<1>1. CASE row' = row BY <1>1, <1>n
<1>2. ASSUME NEW s \in Step, NEW a \in Attempt, NEW o \in Outcome, WorkerEnd(s, a, o)
      PROVE  OtherWrite(u)
  <2>1. UpdateRow(s, SetStepStatus(row[s], a, o)) BY <1>2 DEF WorkerEnd
  <2>2. LET q == SetStepStatus(row[s], a, o) IN
          /\ q.status = IF row[s].attempt = a THEN o ELSE row[s].status
          /\ q.attempt = row[s].attempt /\ q.pid = row[s].pid
    BY <1>0, WriteShapes
  <2>. QED BY <1>m, <1>n, <1>2, <2>1, <2>2 DEF OtherWrite, SameLease
<1>3. ASSUME NEW s \in Step, (\E a \in Attempt : Heartbeat(s, a)) \/ LeaseExpires(s)
      PROVE  OtherWrite(u)
  <2>1. PICK f \in BOOLEAN : UpdateRow(s, [row[s] EXCEPT !.live = f])
    BY <1>3 DEF Heartbeat, LeaseExpires
  <2>2. LET q == [row[s] EXCEPT !.live = f] IN
          q.status = row[s].status /\ q.attempt = row[s].attempt /\ q.pid = row[s].pid
    BY <1>0, WriteShapes
  <2>. QED BY <1>m, <1>n, <2>1, <2>2 DEF OtherWrite, SameLease
<1>4. CASE RetryStalled \/ DropStalled
  <2>1. task = "stalled" /\ reopened' = reopened + 1 BY <1>4 DEF RetryStalled, DropStalled, Revive
  <2>2. \/ row'[u] = row[u]
        \/ /\ row[u].status \in Dead
           /\ row'[u] \in {ResetStepToPending(row[u]), MarkStepDropped(row[u])}
    BY <1>4 DEF RetryStalled, DropStalled, Revive, DeadSteps
  <2>3. /\ LET q == ResetStepToPending(row[u]) IN
             row[u].status \in Rulable => q.status = "pending" /\ q.attempt = 0
        /\ LET q == MarkStepDropped(row[u]) IN q.status = "done" /\ q.attempt = 0
    BY <1>0, WriteShapes
  <2>. QED BY <1>n, <2>1, <2>2, <2>3 DEF OtherWrite, Rulable
<1>. QED
  BY <1>1, <1>2, <1>3, <1>4
     DEF Next, TickCrash, WorkerStep, WorkerStart, WorkerCrash, HumanSettles, CancelTask,
         AcceptStalled, Revive, stepVars, vars

----------------------------------------------------------------------------
(* A running step is completed by the process its lease names.             *)

\* The terminal write carries the attempt guard, and what the ticks and the
\* CEO write into a running row is never a result.
THEOREM RunningStepsAreLeased == Spec => CompletedByLeaseHolder
<1>. DEFINE Completed(s) ==
       /\ row[s].status = "running"
       /\ row'[s].status \in {"done", "needs_decision"} \cup Pauses
       => worker[s][row[s].attempt] = "working"
<1>1. TickInv /\ [Next]_vars => [\A s \in Step : Completed(s)]_vars
  <2>. SUFFICES ASSUME TickInv, Next, NEW s \in Step PROVE Completed(s) OBVIOUS
  <2>1. ASSUME NEW t \in Ticker, TickStep(t) PROVE Completed(s)
    <3>1. TickWrite(t, s) BY <2>1, TickWrites
    <3>. QED BY <3>1 DEF TickWrite, Dead, Rulable, Pauses
  <2>2. CASE \A t \in Ticker : ~TickStep(t)
    <3>1. OtherWrite(s) BY <2>2, OtherWrites DEF TickInv
    <3>. QED BY <3>1 DEF OtherWrite, WorkerEnd, Dead, Pauses
  <2>. QED BY <2>1, <2>2
<1>. QED BY <1>1, ControlInvariant, PTL DEF Spec, CompletedByLeaseHolder

----------------------------------------------------------------------------
(* A dropped step stays dropped.                                           *)

Dropped(s) == row[s].status = "done" /\ row[s].attempt = 0

\* A tick that acts knows of every step that is dropped: a step is dropped by
\* the tick itself, which then ends, or while the task has stalled.
DropInv ==
    \A t \in Ticker : \A s \in Step :
        Acting(t) /\ Dropped(s) => snap[t][s].status = "done"

\* A tick acts on after a step of the system only with the snapshot it had,
\* or one just read.
LEMMA ActingMoves ==
    ASSUME TickInv, [Next]_vars, NEW u \in Ticker, Acting(u)'
    PROVE  \/ Acting(u) /\ snap'[u] = snap[u]
           \/ TickBegin(u) /\ pc'[u] = "visit" /\ snap'[u] = row /\ row' = row
<1>0. pc \in [Ticker -> TickPC] /\ snap \in [Ticker -> [Step -> Row]]
  BY DEF TickInv, TypeInv, TypeOK
<1>1. ASSUME NEW t \in Ticker, TickStep(t)
      PROVE  \/ Acting(u) /\ snap'[u] = snap[u]
             \/ TickBegin(u) /\ pc'[u] = "visit" /\ snap'[u] = row /\ row' = row
  <2>1. CASE TickBegin(t) BY <1>0, <2>1 DEF TickBegin, Finish, Acting, stepVars
  <2>2. CASE Sweep(t) BY <1>0, <2>2 DEF Sweep, Acting
  <2>3. CASE Acting(t) /\ (Finish(t) \/ \E p, S, s, n : GoTo(t, p, S, s, n))
    BY <1>0, <2>3 DEF Finish, GoTo, Acting
  <2>. QED
    BY <1>1, <2>1, <2>2, <2>3
       DEF TickStep, PollQuiet, PollRetry, PollExhausted, PollTimeout, PollClarify,
           SpendIntervention, RuleAccept, RuleRetry, RuleGiveUp, ResolveSelfDo, ResolveSkip,
           ResolveNone, Dispatch, CannotDispatch, Aggregate, DeadEnd, NothingToDo,
           RosterReject, Claim, Spawn, RecordSpawn, AggregateDone, Conclude, ClaimNext,
           Visiting, Skip, Acting
<1>2. ASSUME NEW t \in Ticker, TickCrash(t) PROVE Acting(u) /\ snap'[u] = snap[u]
  BY <1>0, <1>2 DEF TickCrash, Acting
<1>3. CASE UNCHANGED <<pc, snap>> BY <1>3 DEF Acting
<1>. QED
  BY <1>1, <1>2, <1>3
     DEF Next, WorkerStep, WorkerStart, WorkerCrash, WorkerEnd, Heartbeat, LeaseExpires,
         HumanSettles, CancelTask, RetryStalled, DropStalled, AcceptStalled, Revive,
         tickVars, vars

\* While a tick acts no other does.
LEMMA OneTickSteps ==
    ASSUME TickInv, NEW u \in Ticker, Acting(u), NEW t \in Ticker, TickStep(t)
    PROVE  t = u
<1>0. /\ lock = u /\ \A v \in Ticker : v # u => pc[v] = "idle"
  BY ActingAlone DEF TickInv, ControlInv
<1>1. ASSUME pc[t] = "idle" PROVE lock = NoTicker
  BY <1>1
     DEF TickStep, TickBegin, LockFree, PollQuiet, PollRetry, PollExhausted, PollTimeout,
         PollClarify, SpendIntervention, RuleAccept, RuleRetry, RuleGiveUp, ResolveSelfDo,
         ResolveSkip, ResolveNone, Dispatch, CannotDispatch, Aggregate, DeadEnd, NothingToDo,
         RosterReject, Claim, Spawn, RecordSpawn, AggregateDone, Conclude, Sweep, Visiting
<1>. QED BY <1>0, <1>1, TickerAssumption

\* What is not a step of a tick leaves a tick that acts on where it is.
LEMMA TickStays ==
    ASSUME TypeInv, [Next]_vars, \A t \in Ticker : ~TickStep(t), NEW u \in Ticker, Acting(u)',
           \A t \in Ticker : t # u => pc[t] = "idle"
    PROVE  UNCHANGED tickVars
<1>1. ~TickCrash(u) BY DEF TypeInv, TypeOK, TickCrash, Acting
<1>. QED
  BY <1>1
     DEF Next, TickCrash, WorkerStep, WorkerStart, WorkerCrash, WorkerEnd, Heartbeat,
         LeaseExpires, HumanSettles, CancelTask, RetryStalled, DropStalled, AcceptStalled,
         Revive, vars

LEMMA StepDropped == ASSUME TickInv, DropInv, [Next]_vars PROVE DropInv'
<1>0. TypeInv /\ LockInv /\ \A s \in Step : row[s] \in Row
  BY DEF TickInv, TypeInv, TypeOK, ControlInv
<1>. SUFFICES ASSUME NEW t \in Ticker, NEW s \in Step, Acting(t)', Dropped(s)'
     PROVE  snap'[t][s].status = "done"
  BY DEF DropInv
<1>1. CASE snap'[t] = row /\ row' = row BY <1>1 DEF Dropped
<1>2. CASE Acting(t) /\ snap'[t] = snap[t]
  <2>1. CASE Dropped(s) BY <1>2, <2>1 DEF DropInv
  <2>2. CASE ~Dropped(s)
    <3>1. ASSUME NEW u \in Ticker, TickStep(u) PROVE FALSE
      <4>1. TickWrite(u, s) BY <3>1, TickWrites
      <4>2. Acting(u) => u = t BY <1>0, <1>2, ActingAlone DEF Acting
      <4>. QED
        BY <1>2, <2>2, <4>1, <4>2 DEF TickWrite, SameLease, Dropped, Dead
    <3>2. CASE \A u \in Ticker : ~TickStep(u)
      <4>1. OtherWrite(s) BY <1>0, <3>2, OtherWrites
      <4>2. task # "stalled" BY <1>0, <1>2 DEF LockInv
      <4>. QED BY <2>2, <4>1, <4>2 DEF OtherWrite, SameLease, Dropped, Attempt
    <3>. QED BY <3>1, <3>2
  <2>. QED BY <2>1, <2>2
<1>. QED BY <1>1, <1>2, ActingMoves

\* The placeholder of a dropped step is never taken back: no late worker, no
\* tick that saw the step before, no revival of the task rewrites it.
THEOREM DroppedStaysDropped == Spec => DroppedSticks
<1>1. Init => DropInv BY DEF Init, DropInv, Acting
<1>2. TickInv /\ DropInv /\ [Next]_vars => DropInv' BY StepDropped
<1>3. TickInv /\ DropInv /\ [Next]_vars
      => [\A s \in Step : Dropped(s) => row'[s].status = "done"]_vars
  <2>. SUFFICES ASSUME TickInv, DropInv, Next, NEW s \in Step, Dropped(s)
       PROVE  row'[s].status = "done"
    OBVIOUS
  <2>1. ASSUME NEW t \in Ticker, TickStep(t) PROVE row'[s].status = "done"
    <3>1. TickWrite(t, s) BY <2>1, TickWrites
    <3>. QED BY <3>1 DEF TickWrite, DropInv, Dropped
  <2>2. CASE \A t \in Ticker : ~TickStep(t)
    <3>1. OtherWrite(s) BY <2>2, OtherWrites DEF TickInv
    <3>. QED BY <3>1 DEF OtherWrite, Dropped, Attempt, Dead
  <2>. QED BY <2>1, <2>2
<1>. QED
  BY <1>1, <1>2, <1>3, ControlInvariant, PTL DEF Spec, DroppedSticks, Dropped

----------------------------------------------------------------------------
(* How many steps run at a time.  A pause on a question frees its place, and *)
(* the answer claims without counting: what can be promised is about steps  *)
(* that have never paused, or about workers that never ask.                 *)

Counted(s) == asked[s] = 0 \/ "waiting_clarify" \notin Outcome
Running == {s \in Step : row[s].status = "running" /\ Counted(s)}

\* What a tick has to count as running: what runs, and what it saw running.
Occupied(t) ==
    {s \in Step : /\ Counted(s)
                  /\ row[s].status = "running" \/ snap[t][s].status = "running"}

\* The places a dispatching tick has set aside and not yet filled.
Reserved(t) ==
    IF pc[t] \notin Claiming THEN 0
    ELSE slots[t] + (IF pc[t] = "claim" /\ snap[t][cur[t]].status = "pending" THEN 1 ELSE 0)

\* A step that waits for an answer has paused.
AskedInv ==
    /\ \A s \in Step : row[s].status = "waiting_clarify" => ~Counted(s)
    /\ \A t \in Ticker, s \in Step : snap[t][s].status = "waiting_clarify" => ~Counted(s)

OccupiedInv ==
    /\ Cardinality(Running) <= Concurrency
    /\ \A t \in Ticker : Acting(t) => Cardinality(Occupied(t)) + Reserved(t) <= Concurrency

PlacesInv == AskedInv /\ OccupiedInv

\* Nothing is ever given back: the counters only grow.
CountersGrow ==
    /\ \A s \in Step : asked'[s] >= asked[s] /\ interv'[s] >= interv[s]
    /\ reopened' >= reopened /\ crashes' >= crashes

LEMMA StepCounters == ASSUME TypeInv, [Next]_vars PROVE CountersGrow
<1>0. /\ asked \in [Step -> Nat] /\ interv \in [Step -> Nat]
      /\ reopened \in Nat /\ crashes \in Nat
  BY DEF TypeInv, TypeOK
<1>1. CASE UNCHANGED <<asked, interv, reopened, crashes>> BY <1>0, <1>1 DEF CountersGrow
<1>2. ASSUME NEW t \in Ticker, NEW s \in Step, SpendIntervention(t, s) PROVE CountersGrow
  BY <1>0, <1>2 DEF SpendIntervention, boundVars, CountersGrow
<1>3. ASSUME NEW t \in Ticker, TickStep(t) PROVE CountersGrow
  BY <1>1, <1>2, <1>3
     DEF TickStep, TickBegin, PollQuiet, PollRetry, PollExhausted, PollTimeout, PollClarify,
         RuleAccept, RuleRetry, RuleGiveUp, ResolveSelfDo, ResolveSkip, ResolveNone, Dispatch,
         Aggregate, DeadEnd, NothingToDo, RosterReject, Claim, Spawn, RecordSpawn,
         AggregateDone, Conclude, Sweep, OnlyTick, OnlyRow, stepVars, boundVars
<1>4. ASSUME NEW s \in Step, NEW a \in Attempt, NEW o \in Outcome, WorkerEnd(s, a, o)
      PROVE  CountersGrow
  BY <1>0, <1>4 DEF WorkerEnd, boundVars, CountersGrow
<1>5. CASE RetryStalled \/ DropStalled \/ AcceptStalled \/ \E t \in Ticker : TickCrash(t)
  BY <1>0, <1>5 DEF RetryStalled, DropStalled, AcceptStalled, Revive, TickCrash, stepVars, CountersGrow
<1>. QED
  BY <1>1, <1>3, <1>4, <1>5
     DEF Next, WorkerStep, WorkerStart, WorkerCrash, Heartbeat, LeaseExpires, HumanSettles,
         CancelTask, stepVars, boundVars, vars

LEMMA StepAsked ==
    ASSUME TickInv, AskedInv, [Next]_vars
    PROVE  AskedInv' /\ \A s \in Step : Counted(s)' => Counted(s)
<1>0. TypeInv /\ SnapsMove /\ asked \in [Step -> Nat] /\ asked' \in [Step -> Nat]
  BY StepTick DEF TickInv, TypeInv, TypeOK
<1>1. \A s \in Step : Counted(s)' => Counted(s)
  BY <1>0, StepCounters DEF CountersGrow, Counted
<1>2. ASSUME NEW u \in Step, row'[u].status = "waiting_clarify" PROVE ~Counted(u)'
  <2>1. ASSUME row[u].status = "waiting_clarify" PROVE ~Counted(u)'
    BY <1>1, <2>1 DEF AskedInv
  <2>2. ASSUME NEW t \in Ticker, TickStep(t) PROVE row[u].status = "waiting_clarify"
    <3>1. TickWrite(t, u) BY <2>2, TickWrites
    <3>. QED BY <1>2, <3>1 DEF TickWrite, Dead
  <2>3. CASE \A t \in Ticker : ~TickStep(t)
    <3>1. OtherWrite(u) BY <1>0, <2>3, OtherWrites
    <3>2. ASSUME NEW a \in Attempt, WorkerEnd(u, a, "waiting_clarify"),
                 "waiting_clarify" \in Outcome
          PROVE  ~Counted(u)'
      <4>1. asked'[u] = asked[u] + 1 BY <1>0, <3>2 DEF WorkerEnd, Pauses
      <4>. QED BY <1>0, <3>2, <4>1 DEF Counted
    <3>. QED BY <1>2, <2>1, <3>1, <3>2 DEF OtherWrite
  <2>. QED BY <2>1, <2>2, <2>3
<1>3. ASSUME NEW t \in Ticker, NEW s \in Step, snap'[t][s].status = "waiting_clarify"
      PROVE  ~Counted(s)'
  <2>1. CASE snap'[t] = snap[t] BY <1>1, <1>3, <2>1 DEF AskedInv
  <2>2. CASE snap'[t] = NoSnap BY <1>3, <2>2 DEF NoSnap, FreshRow
  <2>3. CASE snap'[t] = row /\ row' = row BY <1>1, <1>3, <2>3 DEF AskedInv
  <2>. QED BY <1>0, <2>1, <2>2, <2>3 DEF SnapsMove
<1>. QED BY <1>1, <1>2, <1>3 DEF AskedInv

\* Only a claim makes a step run.
LEMMA OnlyClaimRuns ==
    ASSUME TickInv, [Next]_vars, NEW s \in Step, row'[s].status = "running"
    PROVE  row[s].status = "running" \/ \E t \in Ticker : Claim(t) /\ s = cur[t]
<1>1. ASSUME NEW t \in Ticker, TickStep(t)
      PROVE  row[s].status = "running" \/ (Claim(t) /\ s = cur[t])
  <2>1. TickWrite(t, s) BY <1>1, TickWrites
  <2>. QED BY <2>1 DEF TickWrite, Dead
<1>2. CASE \A t \in Ticker : ~TickStep(t)
  <2>1. OtherWrite(s) BY <1>2, OtherWrites DEF TickInv
  <2>. QED BY <2>1, OutcomeAssumption DEF OtherWrite, WorkerOutcomes
<1>. QED BY <1>1, <1>2

\* The running steps, and what a tick counts as running, are finite sets.
LEMMA PlacesFinite ==
    /\ IsFiniteSet(Running) /\ Cardinality(Running) \in Nat
    /\ \A t : IsFiniteSet(Occupied(t)) /\ Cardinality(Occupied(t)) \in Nat
BY StepAssumption, FS_Subset, FS_CardinalityType DEF Running, Occupied

\* dispatch_ready_steps sets no more places aside than it has slots.
LEMMA ClaimNextReserves ==
    ASSUME TypeInv, NEW t \in Ticker, NEW S, NEW n \in Nat, ClaimNext(t, S, n), Acting(t)'
    PROVE  Reserved(t)' <= n
<1>0. /\ pc \in [Ticker -> TickPC] /\ slots \in [Ticker -> Nat]
      /\ cur \in [Ticker -> Step \cup {0}]
  BY DEF TypeInv, TypeOK
<1>1. ~Finish(t) BY <1>0 DEF Finish, Acting
<1>2. n > 0 /\ \E s \in S : GoTo(t, "claim", S \ {s}, s, n - 1) BY <1>1 DEF ClaimNext
<1>3. slots'[t] = n - 1 BY <1>0, <1>2 DEF GoTo
<1>. QED BY <1>2, <1>3 DEF Reserved

\* The steps a tick saw running and the slots it dispatches into make up the
\* concurrency.
LEMMA SlotsLeft ==
    ASSUME TickInv, NEW t \in Ticker, pc[t] = "visit", FreeSlots(snap[t]) > 0
    PROVE  Cardinality(Occupied(t)) + FreeSlots(snap[t]) <= Concurrency
<1>. DEFINE R == {s \in Step : snap[t][s].status = "running"}
<1>1. Occupied(t) \subseteq R
  BY DEF Occupied, TickInv, ControlInv, SeenRunning, SeenAs, Looking
<1>2. IsFiniteSet(R) /\ Cardinality(R) \in Nat BY StepAssumption, FS_Subset, FS_CardinalityType
<1>3. Cardinality(Occupied(t)) <= Cardinality(R) BY <1>1, <1>2, FS_Subset
<1>4. Cardinality(R) < Concurrency /\ FreeSlots(snap[t]) = Concurrency - Cardinality(R)
  BY DEF FreeSlots
<1>. QED BY <1>2, <1>3, <1>4, PlacesFinite, NumberAssumption

\* Nothing starts to run, and no place is set aside.
LEMMA PlacesKept ==
    ASSUME TickInv, PlacesInv, [Next]_vars, NEW u \in Ticker, Acting(u), snap'[u] = snap[u],
           \A s \in Step : row'[s].status = "running" => row[s].status = "running",
           Reserved(u)' <= Reserved(u), Reserved(u) \in Nat, Reserved(u)' \in Nat
    PROVE  Cardinality(Occupied(u)') + Reserved(u)' <= Concurrency
<1>1. Occupied(u)' \subseteq Occupied(u) BY StepAsked DEF Occupied, PlacesInv
<1>2. Cardinality(Occupied(u)') <= Cardinality(Occupied(u)) /\ Cardinality(Occupied(u)') \in Nat
  BY <1>1, PlacesFinite, FS_Subset, FS_CardinalityType
<1>. QED BY <1>2, PlacesFinite, NumberAssumption DEF PlacesInv, OccupiedInv

LEMMA StepPlaces == ASSUME TickInv, PlacesInv, [Next]_vars PROVE PlacesInv'
<1>0. TypeInv' /\ AskedInv' /\ \A s \in Step : Counted(s)' => Counted(s)
  BY StepTick, StepAsked DEF PlacesInv, TickInv
<1>t. /\ TypeInv /\ ControlInv /\ row \in [Step -> Row]
      /\ pc \in [Ticker -> TickPC] /\ slots \in [Ticker -> Nat]
      /\ cur \in [Ticker -> Step \cup {0}] /\ ClaimsInOrder /\ PhaseInv
  BY DEF TickInv, TypeInv, TypeOK, OrderInv, ControlInv
<1>r. \A t \in Ticker : Reserved(t) \in Nat /\ Reserved(t)' \in Nat
  BY <1>0, <1>t DEF TypeInv, TypeOK, Reserved
<1>1. ASSUME NEW u \in Ticker, Acting(u)'
      PROVE  Cardinality(Occupied(u)') + Reserved(u)' <= Concurrency
  <2>1. CASE pc'[u] = "visit" /\ snap'[u] = row /\ row' = row
    <3>1. Occupied(u)' \subseteq Running BY <1>0, <2>1 DEF Occupied, Running
    <3>2. /\ Cardinality(Occupied(u)') <= Cardinality(Running)
          /\ Cardinality(Occupied(u)') \in Nat
      BY <3>1, PlacesFinite, FS_Subset, FS_CardinalityType
    <3>3. Reserved(u)' = 0 BY <2>1 DEF Reserved, Claiming
    <3>. QED BY <3>2, <3>3, PlacesFinite, NumberAssumption DEF PlacesInv, OccupiedInv
  <2>2. CASE Acting(u) /\ snap'[u] = snap[u]
    <3>. DEFINE Keeps == Cardinality(Occupied(u)') + Reserved(u)' <= Concurrency
    <3>a. ASSUME \A s \in Step : row'[s].status = "running" => row[s].status = "running",
                 Reserved(u)' <= Reserved(u)
          PROVE  Keeps
      BY <1>r, <2>2, <3>a, PlacesKept
    <3>b. \A t \in Ticker : t # u => pc[t] = "idle"
      BY <1>t, <2>2, ActingAlone DEF ControlInv
    <3>c. ASSUME row' = row \/ ~Claim(u), NEW s \in Step, row'[s].status = "running"
          PROVE  row[s].status = "running"
      <4>1. \A t \in Ticker : Claim(t) => t = u BY <3>b DEF Claim
      <4>. QED BY <3>c, <4>1, OnlyClaimRuns
    <3>d. Cardinality(Occupied(u)) + Reserved(u) <= Concurrency
      BY <2>2 DEF PlacesInv, OccupiedInv
    <3>1. CASE ~TickStep(u)
      <4>1. \A t \in Ticker : ~TickStep(t) BY <2>2, <3>1, OneTickSteps
      <4>2. UNCHANGED tickVars BY <1>1, <1>t, <3>b, <4>1, TickStays
      <4>3. Reserved(u)' = Reserved(u) BY <4>2, <2>2 DEF Reserved, tickVars
      <4>4. ~Claim(u) BY <3>1 DEF TickStep
      <4>. QED BY <1>r, <3>a, <3>c, <4>3, <4>4
    <3>2. CASE pc'[u] \notin Claiming
      <4>1. Reserved(u)' = 0 BY <3>2 DEF Reserved
      <4>2. Claim(u) => row' = row
        BY <1>1, <1>t, <3>2 DEF Claim, GoTo, Claiming
      <4>. QED BY <1>r, <3>a, <3>c, <4>1, <4>2
    <3>3. ASSUME NEW s \in Step, PollRetry(u, s) \/ PollClarify(u, s), pc'[u] \in Claiming
          PROVE  Keeps
      <4>1. /\ row' = row /\ cur'[u] = s /\ slots'[u] = 0 /\ pc[u] \notin Claiming
            /\ snap[u][s].status # "pending"
        BY <1>t, <3>3 DEF PollRetry, PollClarify, OnlyTick, GoTo, Skip, Visiting, Claiming
      <4>2. Reserved(u)' = 0 BY <2>2, <4>1 DEF Reserved
      <4>. QED BY <1>r, <3>a, <3>c, <4>1, <4>2
    <3>4. CASE Dispatch(u)
      <4>. DEFINE n == FreeSlots(snap[u])
      <4>1. /\ ClaimNext(u, ReadyPendingSteps(snap[u]), n)
            /\ pc[u] = "visit" /\ n > 0 /\ row' = row
        BY <3>4 DEF Dispatch, OnlyTick
      <4>2. n \in Nat BY FreeSlotsType
      <4>3. Cardinality(Occupied(u)) + n <= Concurrency BY <4>1, SlotsLeft
      <4>. HIDE DEF n
      <4>4. Reserved(u)' <= n BY <1>1, <1>t, <4>1, <4>2, ClaimNextReserves
      <4>5. Occupied(u)' \subseteq Occupied(u) BY <1>0, <2>2, <4>1 DEF Occupied
      <4>6. /\ Cardinality(Occupied(u)') <= Cardinality(Occupied(u))
            /\ Cardinality(Occupied(u)') \in Nat
        BY <4>5, PlacesFinite, FS_Subset, FS_CardinalityType
      <4>. QED BY <1>r, <4>2, <4>3, <4>4, <4>6, PlacesFinite, NumberAssumption
    <3>5. CASE pc[u] \in Claiming /\ ClaimNext(u, todo[u], slots[u]) /\ (Claim(u) => row' = row)
      <4>1. slots[u] \in Nat BY <1>t
      <4>2. Reserved(u)' <= slots[u] BY <1>1, <1>t, <3>5, <4>1, ClaimNextReserves
      <4>3. Reserved(u) >= slots[u] BY <3>5, <4>1 DEF Reserved
      <4>. QED BY <1>r, <3>a, <3>c, <3>5, <4>1, <4>2, <4>3
    <3>6. CASE Spawn(u)
      <4>1. /\ pc[u] = "spawn" /\ pc'[u] = "record" /\ slots'[u] = slots[u] /\ row' = row
        BY <1>t, <3>6 DEF Spawn, GoTo
      <4>2. Reserved(u)' = Reserved(u) BY <4>1 DEF Reserved, Claiming
      <4>. QED BY <1>r, <3>a, <3>c, <4>1, <4>2
    <3>7. CASE Claim(u) /\ GoTo(u, "spawn", todo[u], cur[u], slots[u])
      <4>. DEFINE s == cur[u]
      <4>1. /\ pc[u] = "claim" /\ pc'[u] = "spawn" /\ slots'[u] = slots[u] /\ cur'[u] = s
            /\ s \in Step /\ slots[u] \in Nat
        BY <1>t, <3>7 DEF Claim, GoTo, ClaimsInOrder, MayClaim
      <4>2. /\ snap[u][s].status \in {"pending", "running", "waiting_clarify"}
            /\ snap[u][s].status # "pending" => slots[u] = 0
        BY <1>t, <4>1 DEF PhaseInv, Claiming
      <4>3. Reserved(u)' = slots[u] BY <4>1 DEF Reserved, Claiming
      <4>4. \A v \in Step : row'[v].status = "running" => row[v].status = "running" \/ v = s
        <5>1. \A t \in Ticker : Claim(t) => t = u BY <3>b DEF Claim
        <5>. QED BY <5>1, OnlyClaimRuns
      <4>5. CASE snap[u][s].status = "pending"
        <5>1. Reserved(u) = slots[u] + 1 BY <4>1, <4>5 DEF Reserved, Claiming
        <5>2. Occupied(u)' \subseteq Occupied(u) \cup {s} BY <1>0, <2>2, <4>4 DEF Occupied
        <5>. DEFINE O == Occupied(u)
        <5>o. IsFiniteSet(O) /\ Cardinality(O) \in Nat BY PlacesFinite
        <5>. HIDE DEF O, s
        <5>3. /\ IsFiniteSet(O \cup {s}) /\ Cardinality(O \cup {s}) \in Nat
              /\ Cardinality(O \cup {s}) <= Cardinality(O) + 1
          BY <5>o, FS_AddElement
        <5>. USE DEF O
        <5>4. /\ Cardinality(Occupied(u)') <= Cardinality(Occupied(u) \cup {s})
              /\ Cardinality(Occupied(u)') \in Nat
          BY <5>2, <5>3, FS_Subset, FS_CardinalityType
        <5>. QED BY <3>d, <4>1, <4>3, <5>1, <5>3, <5>4, PlacesFinite, NumberAssumption
      <4>6. CASE snap[u][s].status # "pending"
        <5>1. snap[u][s].status = "waiting_clarify" => ~Counted(s) BY <4>1 DEF PlacesInv, AskedInv
        <5>2. Occupied(u)' \subseteq Occupied(u)
          BY <1>0, <2>2, <4>2, <4>4, <4>6, <5>1 DEF Occupied
        <5>3. /\ Cardinality(Occupied(u)') <= Cardinality(Occupied(u))
              /\ Cardinality(Occupied(u)') \in Nat
          BY <5>2, PlacesFinite, FS_Subset, FS_CardinalityType
        <5>4. Reserved(u)' = 0 BY <4>2, <4>3, <4>6
        <5>. QED BY <1>r, <3>d, <5>3, <5>4, PlacesFinite, NumberAssumption
      <4>. QED BY <4>5, <4>6
    <3>. QED
      BY <1>t, <3>1, <3>2, <3>3, <3>4, <3>5, <3>6, <3>7
         DEF TickStep, TickBegin, PollQuiet, PollExhausted, PollTimeout, SpendIntervention,
             RuleAccept, RuleRetry, RuleGiveUp, ResolveSelfDo, ResolveSkip, ResolveNone,
             Aggregate, DeadEnd, NothingToDo, RosterReject, Claim, RecordSpawn,
             AggregateDone, Conclude, Sweep, Finish, GoTo, Skip, Claiming
  <2>. QED BY <1>1, <2>1, <2>2, ActingMoves
<1>2. Cardinality(Running') <= Concurrency
  <2>1. CASE \E u \in Ticker : Acting(u)'
    <3>1. PICK u \in Ticker : Acting(u)' BY <2>1
    <3>2. Cardinality(Occupied(u)') + Reserved(u)' <= Concurrency BY <1>1, <3>1
    <3>3. Running' \subseteq Occupied(u)' BY DEF Running, Occupied
    <3>4. IsFiniteSet(Occupied(u)') BY StepAssumption, FS_Subset DEF Occupied
    <3>5. /\ Cardinality(Running') <= Cardinality(Occupied(u)')
          /\ Cardinality(Running') \in Nat /\ Cardinality(Occupied(u)') \in Nat
      BY <3>3, <3>4, FS_Subset, FS_CardinalityType
    <3>. QED BY <1>r, <3>2, <3>5, NumberAssumption
  <2>2. CASE \A u \in Ticker : ~Acting(u)'
    <3>1. \A t \in Ticker : Claim(t) => row' = row
      BY <1>t, <2>2 DEF Claim, GoTo, Acting
    <3>2. Running' \subseteq Running BY <1>0, <3>1, OnlyClaimRuns DEF Running
    <3>3. Cardinality(Running') <= Cardinality(Running) /\ Cardinality(Running') \in Nat
      BY <3>2, PlacesFinite, FS_Subset, FS_CardinalityType
    <3>. QED BY <3>3, PlacesFinite, NumberAssumption DEF PlacesInv, OccupiedInv
  <2>. QED BY <2>1, <2>2
<1>. QED BY <1>0, <1>1, <1>2 DEF PlacesInv, OccupiedInv

\* The invariant behind the limit on running steps: an acting tick's slots and
\* the steps it counted or reserved fit under the limit together.
THEOREM PlacesInvariant == Spec => [](TickInv /\ PlacesInv)
<1>1. Init => PlacesInv
  <2>. SUFFICES ASSUME Init PROVE PlacesInv OBVIOUS
  <2>1. AskedInv BY DEF Init, AskedInv, NoSnap, FreshRow
  <2>2. Running = {} /\ \A t \in Ticker : ~Acting(t)
    BY DEF Init, Running, NoSnap, FreshRow, Acting
  <2>3. Cardinality(Running) = 0 BY <2>2, FS_EmptySet
  <2>. QED BY <2>1, <2>2, <2>3, NumberAssumption DEF PlacesInv, OccupiedInv
<1>2. TickInv /\ PlacesInv /\ [Next]_vars => PlacesInv' BY StepPlaces
<1>. QED BY <1>1, <1>2, ControlInvariant, PTL DEF Spec

\* A tick never runs more steps at a time than company.team_task_concurrency,
\* those apart that have paused on a human: though it counts once, in its
\* snapshot, and claims one by one while workers end, die and are retried.
THEOREM UnpausedStepsFit ==
    Spec => [](Cardinality({s \in Step : row[s].status = "running" /\ asked[s] = 0}) <= Concurrency)
<1>. DEFINE Unpaused == {s \in Step : row[s].status = "running" /\ asked[s] = 0}
<1>1. TickInv /\ PlacesInv => Cardinality(Unpaused) <= Concurrency
  <2>. SUFFICES ASSUME PlacesInv PROVE Cardinality(Unpaused) <= Concurrency OBVIOUS
  <2>1. Unpaused \subseteq Running BY DEF Running, Counted
  <2>2. Cardinality(Unpaused) <= Cardinality(Running) /\ Cardinality(Unpaused) \in Nat
    BY <2>1, PlacesFinite, FS_Subset, FS_CardinalityType
  <2>. QED BY <2>2, PlacesFinite, NumberAssumption DEF PlacesInv, OccupiedInv
<1>. QED BY <1>1, PlacesInvariant, PTL

\* Where workers put no question to a human the bound is on all running steps.
THEOREM ConcurrencyIsRespected ==
    ASSUME "waiting_clarify" \notin Outcome PROVE Spec => []ConcurrencyRespected
<1>1. TickInv /\ PlacesInv => ConcurrencyRespected
  <2>1. Running = {s \in Step : row[s].status = "running"} BY DEF Running, Counted
  <2>. QED BY <2>1 DEF PlacesInv, OccupiedInv, ConcurrencyRespected
<1>. QED BY <1>1, PlacesInvariant, PTL

----------------------------------------------------------------------------
(* The attempts a step may burn.  Every first dispatch, ruling, revival and *)
(* answer grants it one attempt and the retries of a dead process; a ruling *)
(* grants only within MaxInterventions.                                     *)

Grants(s) ==
    1 + (IF interv[s] < MaxInterventions THEN interv[s] ELSE MaxInterventions)
      + reopened + asked[s]
Budget(s) == (1 + MaxStepRetries) * Grants(s)

\* What a step must have left when its row, or a snapshot of it, is in status st.
Left(s, st) ==
    /\ st \in {"pending", "waiting_clarify"} => minted[s] + 1 + MaxStepRetries <= Budget(s)
    /\ st = "running" => minted[s] + MaxStepRetries <= Budget(s) + retries[s]

RowBudget ==
    \A s \in Step : /\ retries[s] <= MaxStepRetries /\ minted[s] <= Budget(s)
                    /\ Left(s, row[s].status)

\* A tick that looks at its snapshot, or claims what it found there, claims
\* what is left.
SnapBudget ==
    \A t \in Ticker : \A s \in Step :
        /\ pc[t] \in {"visit", "rule"} => Left(s, snap[t][s].status)
        /\ pc[t] = "rule" /\ s = cur[t] => Left(s, "pending")
        /\ pc[t] = "claim" /\ s = cur[t] =>
              minted[s] + 1 + MaxStepRetries <= Budget(s) + retries[s]
        /\ pc[t] \in Claiming /\ s \in todo[t] => Left(s, "pending")

BudgetInv == RowBudget /\ SnapBudget

\* The product grows with the grants, by a whole round with each.
LEMMA MoreGrants ==
    \A k, m, n \in Nat : /\ (1 + k) * m \in Nat
                         /\ m <= n => (1 + k) * m <= (1 + k) * n
                         /\ m + 1 <= n => (1 + k) * m + 1 + k <= (1 + k) * n
<1>. TAKE k, m, n \in Nat
<1>1. (1 + k) * m \in Nat OBVIOUS
<1>2. \A d \in Nat : /\ (1 + k) * (m + d) = (1 + k) * m + d + k * d
                     /\ k * d \in Nat /\ k * (1 + d) = k + k * d
  OBVIOUS
<1>3. ASSUME m <= n PROVE (1 + k) * m <= (1 + k) * n
  <2>1. PICK d \in Nat : d = n - m BY <1>3
  <2>2. (1 + k) * n = (1 + k) * m + d + k * d
    <3>1. n = m + d BY <2>1
    <3>. QED BY <1>2, <3>1
  <2>3. (1 + k) * n \in Nat /\ k * d \in Nat OBVIOUS
  <2>. QED BY <1>1, <2>2, <2>3
<1>4. ASSUME m + 1 <= n PROVE (1 + k) * m + 1 + k <= (1 + k) * n
  <2>1. PICK d \in Nat : d = n - m - 1 BY <1>4
  <2>2. (1 + k) * n = (1 + k) * m + (1 + d) + k * (1 + d)
    <3>1. n = m + (1 + d) BY <2>1
    <3>. QED BY <1>2, <3>1
  <2>3. k * (1 + d) = k + k * d /\ k * d \in Nat BY <1>2
  <2>. QED BY <1>1, <2>2, <2>3
<1>. QED BY <1>1, <1>3, <1>4

\* The budget only grows, by one round of attempts with every grant.
LEMMA BudgetGrows ==
    ASSUME TypeInv, TypeInv', CountersGrow, NEW s \in Step
    PROVE  /\ Budget(s) \in Nat /\ Budget(s)' \in Nat /\ Budget(s) <= Budget(s)'
           /\ \/ reopened' > reopened
              \/ asked'[s] > asked[s]
              \/ interv'[s] > interv[s] /\ interv'[s] <= MaxInterventions
              => Budget(s) + 1 + MaxStepRetries <= Budget(s)'
<1>0. /\ interv[s] \in Nat /\ asked[s] \in Nat /\ reopened \in Nat
      /\ interv'[s] \in Nat /\ asked'[s] \in Nat /\ reopened' \in Nat
      /\ MaxInterventions \in Nat /\ MaxStepRetries \in Nat
  BY NumberAssumption DEF TypeInv, TypeOK
<1>1. /\ Grants(s) \in Nat /\ Grants(s)' \in Nat /\ Grants(s) <= Grants(s)'
      /\ \/ reopened' > reopened
         \/ asked'[s] > asked[s]
         \/ interv'[s] > interv[s] /\ interv'[s] <= MaxInterventions
         => Grants(s) + 1 <= Grants(s)'
  BY <1>0 DEF Grants, CountersGrow
<1>2. \A k, m, n \in Nat : /\ (1 + k) * m \in Nat
                           /\ m <= n => (1 + k) * m <= (1 + k) * n
                           /\ m + 1 <= n => (1 + k) * m + 1 + k <= (1 + k) * n
  BY MoreGrants
<1>. QED BY <1>0, <1>1, <1>2 DEF Budget

\* The same after a step of the system.
LeftNext(s, st) ==
    /\ st \in {"pending", "waiting_clarify"} => minted'[s] + 1 + MaxStepRetries <= Budget(s)'
    /\ st = "running" => minted'[s] + MaxStepRetries <= Budget(s)' + retries'[s]

LEMMA LeftKept ==
    ASSUME TypeInv, TypeInv', CountersGrow, NEW s \in Step, minted'[s] = minted[s],
           retries'[s] >= retries[s]
    PROVE  \A st : Left(s, st) => LeftNext(s, st)
<1>1. /\ minted[s] \in Nat /\ retries[s] \in Nat /\ retries'[s] \in Nat
      /\ MaxStepRetries \in Nat
  BY NumberAssumption DEF TypeInv, TypeOK
<1>2. Budget(s) \in Nat /\ Budget(s)' \in Nat /\ Budget(s) <= Budget(s)' BY BudgetGrows
<1>. QED BY <1>1, <1>2 DEF Left, LeftNext

\* How a step of the system spends attempts and retries of a step of the plan.
CountsMove(s) ==
    \/ minted'[s] = minted[s] /\ retries'[s] = retries[s]
    \/ /\ minted'[s] = minted[s] + 1 /\ retries'[s] = retries[s]
       /\ \E t \in Ticker : Claim(t) /\ s = cur[t]
    \/ /\ minted'[s] = minted[s]
       /\ \/ retries'[s] = retries[s] + 1 /\ RetryLeft(s) /\ UNCHANGED row
          \/ retries'[s] = 0 /\ \E t \in Ticker : PollExhausted(t, s)

LEMMA CountsMoves == ASSUME TypeInv, [Next]_vars, NEW s \in Step PROVE CountsMove(s)
<1>0. minted \in [Step -> 0 .. MaxAttempt] /\ retries \in [Step -> Nat] BY DEF TypeInv, TypeOK
<1>1. CASE UNCHANGED <<minted, retries>> BY <1>1 DEF CountsMove
<1>2. ASSUME NEW t \in Ticker, NEW v \in Step, PollRetry(t, v) \/ PollExhausted(t, v)
      PROVE  CountsMove(s)
  BY <1>0, <1>2 DEF PollRetry, PollExhausted, RetryLeft, CountsMove
<1>3. ASSUME NEW t \in Ticker, Claim(t) PROVE CountsMove(s)
  <2>1. UNCHANGED retries /\ (minted' = minted \/ minted' = [minted EXCEPT ![cur[t]] = @ + 1])
    BY <1>3 DEF Claim
  <2>. QED BY <1>0, <1>3, <2>1 DEF CountsMove
<1>4. ASSUME NEW t \in Ticker, TickStep(t) PROVE CountsMove(s)
  BY <1>1, <1>2, <1>3, <1>4
     DEF TickStep, TickBegin, PollQuiet, PollTimeout, PollClarify, SpendIntervention,
         RuleAccept, RuleRetry, RuleGiveUp, ResolveSelfDo, ResolveSkip, ResolveNone, Dispatch,
         Aggregate, DeadEnd, NothingToDo, RosterReject, Spawn, RecordSpawn, AggregateDone,
         Conclude, Sweep, OnlyTick, OnlyRow, stepVars
<1>. QED
  BY <1>1, <1>4
     DEF Next, TickCrash, WorkerStep, WorkerStart, WorkerCrash, WorkerEnd, Heartbeat,
         LeaseExpires, HumanSettles, CancelTask, RetryStalled, DropStalled, AcceptStalled,
         Revive, stepVars, vars

LEMMA StepRowBudget == ASSUME TickInv, BudgetInv, [Next]_vars PROVE RowBudget'
<1>0. TypeInv /\ TypeInv' /\ CountersGrow /\ ControlInv BY StepTick, StepCounters DEF TickInv
<1>. SUFFICES ASSUME NEW s \in Step
     PROVE  /\ retries'[s] <= MaxStepRetries /\ minted'[s] <= Budget(s)'
            /\ Left(s, row[s].status)'
  BY DEF RowBudget
<1>1. /\ minted[s] \in Nat /\ minted'[s] \in Nat /\ retries[s] \in Nat /\ retries'[s] \in Nat
      /\ MaxStepRetries \in Nat
  BY <1>0, NumberAssumption DEF TypeInv, TypeOK
<1>2. /\ Budget(s) \in Nat /\ Budget(s)' \in Nat /\ Budget(s) <= Budget(s)'
      /\ reopened' > reopened \/ asked'[s] > asked[s]
         => Budget(s) + 1 + MaxStepRetries <= Budget(s)'
  BY <1>0, BudgetGrows
<1>3. retries[s] <= MaxStepRetries /\ minted[s] <= Budget(s) /\ Left(s, row[s].status)
  BY DEF BudgetInv, RowBudget
<1>4. CASE minted'[s] = minted[s] /\ retries'[s] = retries[s]
  <2>1. Left(s, row[s].status)'
    <3>1. ASSUME row'[s].status = row[s].status PROVE Left(s, row[s].status)'
      BY <1>1, <1>2, <1>3, <1>4, <3>1 DEF Left
    <3>2. ASSUME row'[s].status = "pending", minted[s] + 1 + MaxStepRetries <= Budget(s)'
          PROVE  Left(s, row[s].status)'
      BY <1>4, <3>2 DEF Left
    <3>3. ASSUME NEW t \in Ticker, TickStep(t) PROVE Left(s, row[s].status)'
      <4>1. TickWrite(t, s) BY <3>3, TickWrites
      <4>2. CASE RuleRetry(t) /\ s = cur[t] /\ row'[s].status = "pending"
        <5>1. Left(s, "pending") BY <4>2 DEF RuleRetry, BudgetInv, SnapBudget
        <5>2. minted[s] + 1 + MaxStepRetries <= Budget(s) BY <5>1 DEF Left
        <5>. QED BY <1>1, <1>2, <3>2, <4>2, <5>2
      <4>3. row'[s].status \in Dead \cup {"done", "failed"} => Left(s, row[s].status)'
        BY DEF Left, Dead
      <4>4. ~(minted'[s] = minted[s] + 1) BY <1>1, <1>4
      <4>. QED BY <3>1, <4>1, <4>2, <4>3, <4>4 DEF TickWrite
    <3>4. CASE \A t \in Ticker : ~TickStep(t)
      <4>1. OtherWrite(s) BY <1>0, <3>4, OtherWrites
      <4>2. ASSUME NEW a \in Attempt, NEW o \in Outcome, WorkerEnd(s, a, o), row'[s].status = o
            PROVE  Left(s, row[s].status)'
        <5>1. o \in Pauses => asked'[s] > asked[s]
          BY <1>0, <4>2 DEF WorkerEnd, TypeInv, TypeOK
        <5>2. o # "running" /\ o # "pending" BY OutcomeAssumption DEF WorkerOutcomes
        <5>. QED BY <1>1, <1>2, <1>3, <1>4, <4>2, <5>1, <5>2 DEF Left, Pauses
      <4>3. ASSUME reopened' = reopened + 1, row'[s].status \in {"pending", "done"}
            PROVE  Left(s, row[s].status)'
        <5>1. reopened' > reopened BY <1>0, <4>3 DEF TypeInv, TypeOK
        <5>. QED BY <1>1, <1>2, <1>3, <1>4, <4>3, <5>1 DEF Left
      <4>. QED BY <3>1, <4>1, <4>2, <4>3 DEF OtherWrite
    <3>. QED BY <3>3, <3>4
  <2>. QED BY <1>1, <1>2, <1>3, <1>4, <2>1
<1>5. ASSUME NEW t \in Ticker, Claim(t), s = cur[t],
             minted'[s] = minted[s] + 1, retries'[s] = retries[s]
      PROVE  /\ retries'[s] <= MaxStepRetries /\ minted'[s] <= Budget(s)'
             /\ Left(s, row[s].status)'
  <2>1. minted[s] + 1 + MaxStepRetries <= Budget(s) + retries[s]
    BY <1>5 DEF Claim, BudgetInv, SnapBudget
  <2>2. row'[s].status = "running"
    <3>2. UpdateRow(s, ReserveStep(row[s], minted'[s]))
      BY <1>0, <1>1, <1>5 DEF Claim
    <3>3. row'[s] = ReserveStep(row[s], minted'[s]) /\ row[s] \in Row
      BY <1>0, <3>2 DEF UpdateRow, TypeInv, TypeOK
    <3>. QED BY <3>3, WriteShapes
  <2>. QED BY <1>1, <1>2, <1>3, <1>5, <2>1, <2>2 DEF Left
<1>6. CASE minted'[s] = minted[s] /\ retries'[s] = retries[s] + 1 /\ RetryLeft(s) /\ UNCHANGED row
  <2>1. Left(s, row[s].status)' BY <1>1, <1>2, <1>3, <1>6 DEF Left
  <2>. QED BY <1>1, <1>2, <1>3, <1>6, <2>1 DEF RetryLeft
<1>7. ASSUME NEW t \in Ticker, PollExhausted(t, s), minted'[s] = minted[s], retries'[s] = 0
      PROVE  /\ retries'[s] <= MaxStepRetries /\ minted'[s] <= Budget(s)'
             /\ Left(s, row[s].status)'
  <2>. DEFINE a == snap[t][s].attempt
  <2>1. row'[s] = MarkDead(row[s], a, "failed") /\ row[s] \in Row /\ pc[t] = "visit"
    BY <1>0, <1>7 DEF PollExhausted, Visiting, UpdateRow, TypeInv, TypeOK
  <2>2. row[s].status = "running" => Fenced(row[s], a)
    BY <1>0, <2>1 DEF ControlInv, SeenRunning, SeenAs, Looking, Fenced
  <2>3. \/ row'[s].status = "failed"
        \/ row'[s].status = row[s].status /\ row[s].status # "running"
    BY <2>1, <2>2 DEF MarkDead, Row
  <2>. QED BY <1>1, <1>2, <1>3, <1>7, <2>3 DEF Left
<1>. QED BY <1>0, <1>4, <1>5, <1>6, <1>7, CountsMoves DEF CountsMove

LEMMA StepSnapBudget ==
    ASSUME MaxInterventions # 0, TickInv, BudgetInv, [Next]_vars PROVE SnapBudget'
<1>0. TypeInv /\ TypeInv' /\ CountersGrow /\ ControlInv /\ OrderInv
  BY StepTick, StepCounters DEF TickInv
<1>t. /\ row \in [Step -> Row] /\ pc \in [Ticker -> TickPC] /\ slots \in [Ticker -> Nat]
      /\ cur \in [Ticker -> Step \cup {0}] /\ todo \in [Ticker -> SUBSET Step]
      /\ minted \in [Step -> 0 .. MaxAttempt] /\ retries \in [Step -> Nat]
      /\ ClaimsInOrder /\ PhaseInv
  BY <1>0 DEF TypeInv, TypeOK, OrderInv, ControlInv
<1>k. ASSUME UNCHANGED <<minted, retries>>
      PROVE  \A s \in Step : \A st : Left(s, st) => LeftNext(s, st)
  BY <1>0, <1>k, <1>t, LeftKept
<1>b. \A s \in Step : Budget(s) \in Nat /\ Budget(s)' \in Nat /\ Budget(s) <= Budget(s)'
  BY <1>0, BudgetGrows
<1>n. /\ MaxStepRetries \in Nat
      /\ \A s \in Step : minted[s] \in Nat /\ retries[s] \in Nat
  BY <1>t, NumberAssumption
<1>. DEFINE AsBefore(u, s) ==
       /\ pc'[u] \in {"visit", "rule"} => LeftNext(s, snap'[u][s].status)
       /\ pc'[u] = "rule" /\ s = cur'[u] => LeftNext(s, "pending")
       /\ pc'[u] = "claim" /\ s = cur'[u] =>
             minted'[s] + 1 + MaxStepRetries <= Budget(s)' + retries'[s]
       /\ pc'[u] \in Claiming /\ s \in todo'[u] => LeftNext(s, "pending")
<1>. SUFFICES ASSUME NEW u \in Ticker, Acting(u)', NEW s \in Step PROVE AsBefore(u, s)
  BY DEF SnapBudget, Acting, Claiming, Left, LeftNext
<1>a. ASSUME Acting(u)
      PROVE  /\ pc[u] \in {"visit", "rule"} => Left(s, snap[u][s].status)
             /\ pc[u] = "rule" /\ s = cur[u] => Left(s, "pending")
             /\ pc[u] = "claim" /\ s = cur[u] =>
                   minted[s] + 1 + MaxStepRetries <= Budget(s) + retries[s]
             /\ pc[u] \in Claiming /\ s \in todo[u] => Left(s, "pending")
  BY DEF BudgetInv, SnapBudget
<1>1. CASE TickBegin(u) /\ pc'[u] = "visit" /\ snap'[u] = row /\ row' = row
  <2>1. UNCHANGED <<minted, retries>> BY <1>1 DEF TickBegin, stepVars
  <2>2. Left(s, row[s].status) BY DEF BudgetInv, RowBudget
  <2>. QED BY <1>k, <1>1, <2>1, <2>2 DEF Claiming
<1>2. CASE Acting(u) /\ snap'[u] = snap[u]
  <2>1. CASE ~TickStep(u)
    <3>1. \A t \in Ticker : ~TickStep(t) BY <1>2, <2>1, OneTickSteps
    <3>2. \A t \in Ticker : t # u => pc[t] = "idle"
      BY <1>0, <1>2, ActingAlone DEF ControlInv
    <3>3. UNCHANGED tickVars BY <1>0, <3>1, <3>2, TickStays
    <3>4. UNCHANGED <<minted, retries>>
      BY <3>1 DEF Next, TickCrash, WorkerStep, WorkerStart, WorkerCrash, WorkerEnd, Heartbeat,
         LeaseExpires, HumanSettles, CancelTask, RetryStalled, DropStalled, AcceptStalled,
         Revive, stepVars, vars
    <3>. QED BY <1>a, <1>b, <1>k, <1>n, <1>2, <3>3, <3>4 DEF tickVars
  <2>2. CASE UNCHANGED <<minted, retries>> /\ pc[u] \in {"visit", "rule"} /\ pc'[u] = "visit"
    BY <1>a, <1>k, <1>2, <2>2 DEF Claiming
  <2>3. ASSUME NEW v \in Step, PollRetry(u, v) PROVE AsBefore(u, s)
    <3>1. /\ pc[u] = "visit" /\ snap[u][v].status = "running" /\ retries'[v] = retries[v] + 1
          /\ pc'[u] = "claim" /\ todo'[u] = {} /\ cur'[u] = v /\ minted' = minted
      BY <1>t, <2>3 DEF PollRetry, Visiting, GoTo
    <3>2. s = v => minted[s] + MaxStepRetries <= Budget(s) + retries[s]
      BY <1>a, <1>2, <3>1 DEF Left
    <3>. QED BY <1>b, <1>n, <3>1, <3>2
  <2>4. ASSUME NEW v \in Step, PollClarify(u, v), pc'[u] # "visit" PROVE AsBefore(u, s)
    <3>1. /\ pc[u] = "visit" /\ snap[u][v].status = "waiting_clarify"
          /\ pc'[u] = "claim" /\ todo'[u] = {} /\ cur'[u] = v /\ UNCHANGED <<minted, retries>>
      BY <1>t, <2>4 DEF PollClarify, Visiting, GoTo, Skip, OnlyTick, OnlyRow
    <3>2. s = v => minted[s] + 1 + MaxStepRetries <= Budget(s)
      BY <1>a, <1>2, <3>1 DEF Left
    <3>. QED BY <1>b, <1>n, <3>1, <3>2
  <2>5. ASSUME NEW v \in Step, SpendIntervention(u, v) PROVE AsBefore(u, s)
    <3>0. interv \in [Step -> Nat] BY <1>0 DEF TypeInv, TypeOK
    <3>1. /\ pc[u] = "visit" /\ UNCHANGED <<minted, retries>> /\ cur'[u] = v
          /\ pc'[u] \in {"rule", "resolve"}
          /\ interv'[v] > interv[v] /\ (interv'[v] > InterventionCap(v) => pc'[u] = "resolve")
      BY <1>t, <2>5, <3>0 DEF SpendIntervention, Visiting, GoTo
    <3>2. InterventionCap(v) <= MaxInterventions BY NumberAssumption DEF InterventionCap
    <3>3. ASSUME pc'[u] = "rule", s = v PROVE LeftNext(s, "pending")
      <4>1. interv'[s] > interv[s] /\ interv'[s] <= MaxInterventions
        BY <1>0, <3>1, <3>2, <3>3, NumberAssumption DEF TypeInv, TypeOK, InterventionCap
      <4>2. Budget(s) + 1 + MaxStepRetries <= Budget(s)' BY <1>0, <4>1, BudgetGrows
      <4>3. minted[s] <= Budget(s) BY DEF BudgetInv, RowBudget
      <4>. QED BY <1>b, <1>n, <3>1, <4>2, <4>3 DEF LeftNext
    <3>. QED BY <1>a, <1>k, <1>2, <3>1, <3>3 DEF Claiming
  <2>7. CASE Dispatch(u)
    <3>1. /\ pc[u] = "visit" /\ UNCHANGED <<minted, retries>>
          /\ ClaimNext(u, ReadyPendingSteps(snap[u]), FreeSlots(snap[u]))
      BY <2>7 DEF Dispatch, OnlyTick, OnlyRow
    <3>2. /\ pc'[u] = "claim" /\ cur'[u] \in ReadyPendingSteps(snap[u])
          /\ todo'[u] \subseteq ReadyPendingSteps(snap[u])
      BY <1>t, <3>1 DEF ClaimNext, Finish, GoTo, Acting
    <3>3. s \in ReadyPendingSteps(snap[u]) => Left(s, "pending")
      BY <1>a, <1>2, <3>1 DEF ReadyPendingSteps
    <3>. QED BY <1>b, <1>k, <1>n, <3>1, <3>2, <3>3 DEF Left
  <2>8. CASE pc[u] \in Claiming /\ ClaimNext(u, todo[u], slots[u]) /\ UNCHANGED <<minted, retries>>
    <3>2. pc'[u] = "claim" /\ cur'[u] \in todo[u] /\ todo'[u] \subseteq todo[u]
      BY <1>t, <2>8 DEF ClaimNext, Finish, GoTo, Acting
    <3>3. s \in todo[u] => Left(s, "pending") BY <1>a, <1>2, <2>8
    <3>. QED BY <1>b, <1>k, <1>n, <2>8, <3>2, <3>3 DEF Left
  <2>9. CASE Claim(u) /\ GoTo(u, "spawn", todo[u], cur[u], slots[u])
    <3>1. /\ pc[u] = "claim" /\ pc'[u] = "spawn" /\ todo'[u] = todo[u] /\ cur[u] \notin todo[u]
          /\ \A v \in Step : v # cur[u] => minted'[v] = minted[v] /\ retries'[v] = retries[v]
      BY <1>t, <2>9 DEF Claim, GoTo, PhaseInv, Claiming
    <3>2. s \in todo[u] => minted'[s] = minted[s] /\ retries'[s] = retries[s] BY <3>1
    <3>. QED BY <1>0, <1>a, <1>n, <1>2, <3>1, <3>2, LeftKept DEF Claiming
  <2>10. CASE Spawn(u)
    <3>1. /\ pc[u] = "spawn" /\ pc'[u] = "record" /\ todo'[u] = todo[u]
          /\ UNCHANGED <<minted, retries>>
      BY <1>t, <2>10 DEF Spawn, GoTo
    <3>. QED BY <1>a, <1>k, <1>2, <3>1 DEF Claiming
  <2>11. CASE pc'[u] \notin {"visit", "rule"} \cup Claiming
    BY <2>11 DEF Claiming
  <2>. HIDE DEF AsBefore
  <2>12. ASSUME NEW v \in Step,
                \/ PollQuiet(u, v) \/ PollExhausted(u, v) \/ PollTimeout(u, v)
                \/ PollClarify(u, v) /\ pc'[u] = "visit"
                \/ ResolveSelfDo(u, v) \/ ResolveSkip(u, v) \/ ResolveNone(u, v)
         PROVE  AsBefore(u, s)
    <3>1. CASE PollQuiet(u, v) \/ (PollClarify(u, v) /\ pc'[u] = "visit")
      BY <1>t, <2>2, <3>1 DEF PollQuiet, PollClarify, Visiting, OnlyTick, OnlyRow, Skip, GoTo
    <3>2. CASE PollExhausted(u, v) \/ PollTimeout(u, v)
      <4>1. pc'[u] = "sweep" BY <1>t, <3>2 DEF PollExhausted, PollTimeout, Finish
      <4>. QED BY <2>11, <4>1 DEF Claiming
    <3>3. CASE ResolveSelfDo(u, v) \/ ResolveSkip(u, v) \/ ResolveNone(u, v)
      <4>1. pc'[u] \in {"sweep", "conclude", "resolve"}
        BY <1>t, <3>3 DEF ResolveSelfDo, ResolveSkip, ResolveNone, Finish, GoTo
      <4>. QED BY <2>11, <4>1 DEF Claiming
    <3>. QED BY <2>12, <3>1, <3>2, <3>3
  <2>13. CASE RuleAccept(u) \/ RuleRetry(u) \/ RuleGiveUp(u)
    <3>1. CASE RuleAccept(u) /\ pc'[u] = "visit"
      BY <2>2, <3>1 DEF RuleAccept, OnlyRow
    <3>2. CASE pc'[u] # "visit"
      <4>1. pc'[u] \in {"sweep", "resolve"}
        BY <1>t, <2>13, <3>2 DEF RuleAccept, RuleRetry, RuleGiveUp, Skip, Finish, GoTo
      <4>. QED BY <2>11, <4>1 DEF Claiming
    <3>3. CASE ~RuleAccept(u)
      <4>1. pc'[u] \in {"sweep", "resolve"}
        BY <1>t, <2>13, <3>3 DEF RuleRetry, RuleGiveUp, Finish, GoTo
      <4>. QED BY <2>11, <4>1 DEF Claiming
    <3>. QED BY <3>1, <3>2, <3>3
  <2>14. CASE \/ Aggregate(u) \/ DeadEnd(u) \/ NothingToDo(u) \/ AggregateDone(u)
              \/ Conclude(u) \/ Sweep(u)
    <3>1. pc'[u] \in {"aggregate", "resolve", "sweep", "idle"}
      BY <1>t, <2>14 DEF Aggregate, DeadEnd, NothingToDo, AggregateDone, Conclude, Sweep,
                         Finish, GoTo
    <3>. QED BY <2>11, <3>1 DEF Claiming
  <2>15. CASE RosterReject(u) \/ RecordSpawn(u)
    BY <2>8, <2>15 DEF RosterReject, RecordSpawn, OnlyRow, Claiming
  <2>16. CASE Claim(u)
    BY <2>8, <2>9, <2>16 DEF Claim, Claiming
  <2>17. ~TickBegin(u) BY <1>2 DEF TickBegin, Acting
  <2>. QED
    BY <2>1, <2>3, <2>4, <2>5, <2>7, <2>10, <2>12, <2>13, <2>14, <2>15, <2>16, <2>17 DEF TickStep
<1>. QED BY <1>0, <1>1, <1>2, ActingMoves DEF TickInv

LEMMA InitBudget == Init => BudgetInv
<1>. SUFFICES ASSUME Init PROVE BudgetInv OBVIOUS
<1>0. MaxStepRetries \in Nat /\ MaxInterventions \in Nat BY NumberAssumption
<1>1. \A s \in Step : Grants(s) = 1 BY <1>0 DEF Init, Grants
<1>2. \A s \in Step : Budget(s) = 1 + MaxStepRetries
  <2>1. (1 + MaxStepRetries) * 1 = 1 + MaxStepRetries BY <1>0
  <2>. QED BY <1>1, <2>1 DEF Budget
<1>3. \A s \in Step : minted[s] = 0 /\ retries[s] = 0 /\ row[s].status = "pending"
  BY DEF Init, NoSnap, FreshRow
<1>. QED BY <1>0, <1>2, <1>3 DEF Init, BudgetInv, RowBudget, SnapBudget, Left, Claiming

\* However ticks, deaths, timeouts, rulings, pauses and revivals interleave,
\* the attempts of a step never outgrow what was granted for it: the retry
\* sidecar is spent before the claim it pays for.  (With no intervention at
\* all the floor of one for a final deliverable would exceed the cap.)
THEOREM AttemptsAreBudgeted ==
    ASSUME MaxInterventions # 0 PROVE Spec => []AttemptBudget
<1>1. TickInv /\ BudgetInv /\ [Next]_vars => BudgetInv'
  <2>. SUFFICES ASSUME TickInv, BudgetInv, [Next]_vars PROVE BudgetInv' OBVIOUS
  <2>1. RowBudget' BY StepRowBudget
  <2>2. SnapBudget' BY StepSnapBudget
  <2>. QED BY <2>1, <2>2 DEF BudgetInv
<1>2. TickInv /\ BudgetInv => AttemptBudget
  <2>. SUFFICES ASSUME TickInv, BudgetInv, NEW s \in Step
       PROVE  minted[s] <= (1 + MaxStepRetries) *
                           (1 + MaxInterventions + reopened + asked[s])
    BY DEF AttemptBudget
  <2>. DEFINE G == 1 + MaxInterventions + reopened + asked[s]
  <2>0. /\ interv[s] \in Nat /\ asked[s] \in Nat /\ reopened \in Nat /\ minted[s] \in Nat
        /\ MaxInterventions \in Nat /\ MaxStepRetries \in Nat
    BY NumberAssumption DEF TickInv, TypeInv, TypeOK
  <2>1. Grants(s) \in Nat /\ G \in Nat /\ Grants(s) <= G BY <2>0 DEF Grants
  <2>2. \A k, m, n \in Nat : m <= n => (1 + k) * m <= (1 + k) * n BY MoreGrants
  <2>3. Budget(s) <= (1 + MaxStepRetries) * G BY <2>0, <2>1, <2>2 DEF Budget
  <2>4. \A k, m \in Nat : (1 + k) * m \in Nat OBVIOUS
  <2>5. Budget(s) \in Nat /\ (1 + MaxStepRetries) * G \in Nat
    BY <2>0, <2>1, <2>4 DEF Budget
  <2>6. minted[s] <= Budget(s) BY DEF BudgetInv, RowBudget
  <2>. HIDE DEF G
  <2>7. minted[s] <= (1 + MaxStepRetries) * G BY <2>0, <2>3, <2>5, <2>6
  <2>. QED BY <2>7 DEF G
<1>. QED BY <1>1, <1>2, InitBudget, ControlInvariant, PTL DEF Spec

----------------------------------------------------------------------------
(* One process works on a step.  A tick that dies between the claim and the *)
(* record of the pid leaves a worker nobody can name, and the next tick     *)
(* takes it for dead: what can be promised holds until a first such crash.  *)

Live == {"starting", "working"}
NoWorker(s) == \A a \in Attempt : worker[s][a] \notin Live

\* A tick is between the reservation of the step and the record of its pid.
Spawning(s) == \E t \in Ticker : pc[t] \in {"spawn", "record"} /\ cur[t] = s

\* A process that lives holds the lease of a running row.
LiveInv ==
    \A s \in Step : \A a \in Attempt :
        worker[s][a] \in Live => row[s].status = "running" /\ row[s].attempt = a

\* The pid of a running row is the process of its attempt.
PidInv ==
    \A s \in Step : row[s].status = "running" =>
        row[s].attempt # 0 /\ (Spawning(s) \/ row[s].pid = row[s].attempt)

\* What a tick claims has no process; what it spawns is what it reserved.
SpawnInv ==
    \A t \in Ticker :
        /\ pc[t] = "spawn" =>
              row[cur[t]].status = "running" /\ row[cur[t]].attempt = minted[cur[t]]
        /\ pc[t] = "record" /\ row[cur[t]].status = "running" =>
              row[cur[t]].attempt = minted[cur[t]]
        /\ pc[t] = "claim" => NoWorker(cur[t])
        /\ pc[t] \in Claiming => \A s \in todo[t] : NoWorker(s)

\* The attempt a row names has been spawned.
StartedInv ==
    \A s \in Step : row[s].attempt # 0 =>
        \/ worker[s][row[s].attempt] # "none"
        \/ \E t \in Ticker : pc[t] = "spawn" /\ cur[t] = s

WorkersInv == LiveInv /\ PidInv /\ SpawnInv /\ StartedInv

\* Only a crash of a tick counts as one.
LEMMA CrashesCounted ==
    ASSUME [Next]_vars, \A t \in Ticker : ~TickCrash(t) PROVE crashes' = crashes
<1>1. ASSUME NEW t \in Ticker, TickStep(t) PROVE crashes' = crashes
  BY <1>1
     DEF TickStep, TickBegin, PollQuiet, PollRetry, PollExhausted, PollTimeout, PollClarify,
         SpendIntervention, RuleAccept, RuleRetry, RuleGiveUp, ResolveSelfDo, ResolveSkip,
         ResolveNone, Dispatch, Aggregate, DeadEnd, NothingToDo, RosterReject, Claim, Spawn,
         RecordSpawn, AggregateDone, Conclude, Sweep, OnlyTick, OnlyRow, boundVars
<1>. QED
  BY <1>1
     DEF Next, WorkerStep, WorkerStart, WorkerCrash, WorkerEnd, Heartbeat, LeaseExpires,
         HumanSettles, CancelTask, RetryStalled, DropStalled, AcceptStalled, Revive,
         boundVars, vars

\* No crash so far: none in this step either.
LEMMA NoCrash ==
    ASSUME TypeInv, [Next]_vars, crashes' = 0
    PROVE  crashes = 0 /\ \A t \in Ticker : ~TickCrash(t)
<1>1. crashes \in Nat BY DEF TypeInv, TypeOK
<1>2. \A t \in Ticker : ~TickCrash(t) BY <1>1 DEF TickCrash
<1>. QED BY <1>2, CrashesCounted

\* A tick that acts takes the step, or stays where it is.
LEMMA TickOrStays ==
    ASSUME TickInv, [Next]_vars, \A t \in Ticker : ~TickCrash(t), NEW u \in Ticker, Acting(u)
    PROVE  TickStep(u) \/ (UNCHANGED <<tickVars, minted>> /\ \A t \in Ticker : ~TickStep(t))
<1>1. CASE \A t \in Ticker : ~TickStep(t)
  BY <1>1
     DEF Next, WorkerStep, WorkerStart, WorkerCrash, WorkerEnd, Heartbeat, LeaseExpires,
         HumanSettles, CancelTask, RetryStalled, DropStalled, AcceptStalled, Revive,
         stepVars, vars
<1>. QED BY <1>1, OneTickSteps

\* How a step of the system moves a process.
WorkerMove(s, a) ==
    \/ worker'[s][a] \in {worker[s][a], "gone"}
    \/ worker[s][a] \in Live /\ worker'[s][a] \in Live
    \/ \E t \in Ticker :
          Spawn(t) /\ s = cur[t] /\ a = minted[s] /\ worker'[s][a] = "starting"

LEMMA WorkerMoves ==
    ASSUME TypeInv, [Next]_vars, NEW s \in Step, NEW a \in Attempt PROVE WorkerMove(s, a)
<1>0. /\ worker \in [Step -> [Attempt -> WorkerState]]
      /\ \A v \in Step : row[v] \in Row /\ worker[v] \in [Attempt -> WorkerState]
      /\ \A t \in Ticker : \A v \in Step : snap[t][v] \in Row
  BY DEF TypeInv, TypeOK
<1>1. CASE worker' = worker BY <1>1 DEF WorkerMove
<1>2. ASSUME NEW t \in Ticker, NEW v \in Step, PollTimeout(t, v) PROVE WorkerMove(s, a)
  <2>1. worker' = [worker EXCEPT ![v] = KillPid(snap[t][v], @)] BY <1>2 DEF PollTimeout
  <2>2. KillPid(snap[t][v], worker[v])[a] \in {worker[v][a], "gone"} BY <1>0, KillPidKeeps
  <2>. QED BY <1>0, <2>1, <2>2 DEF WorkerMove
<1>3. ASSUME NEW t \in Ticker, Sweep(t) PROVE WorkerMove(s, a)
  <2>1. KillPid(row[s], worker[s])[a] \in {worker[s][a], "gone"} BY <1>0, KillPidKeeps
  <2>2. worker'[s][a] \in {worker[s][a], KillPid(row[s], worker[s])[a]}
    BY <1>0, <1>3 DEF Sweep
  <2>. QED BY <2>1, <2>2 DEF WorkerMove
<1>4. ASSUME NEW t \in Ticker, Spawn(t) PROVE WorkerMove(s, a)
  <2>1. worker' = [worker EXCEPT ![cur[t]][minted[cur[t]]] = "starting"] BY <1>4 DEF Spawn
  <2>2. worker'[s][a] = worker[s][a]
        \/ (s = cur[t] /\ a = minted[s] /\ worker'[s][a] = "starting")
    BY <1>0, <2>1
  <2>. QED BY <1>4, <2>2 DEF WorkerMove
<1>5. ASSUME NEW v \in Step, NEW b \in Attempt,
             WorkerStep(v, b)
      PROVE  WorkerMove(s, a)
  BY <1>0, <1>5 DEF WorkerStep, WorkerStart, WorkerCrash, WorkerEnd, WorkerMove, Live
<1>6. ASSUME NEW t \in Ticker, TickStep(t) PROVE WorkerMove(s, a)
  BY <1>1, <1>2, <1>3, <1>4, <1>6
     DEF TickStep, TickBegin, PollQuiet, PollRetry, PollExhausted, PollClarify,
         SpendIntervention, RuleAccept, RuleRetry, RuleGiveUp, ResolveSelfDo, ResolveSkip,
         ResolveNone, Dispatch, Aggregate, DeadEnd, NothingToDo, RosterReject, Claim,
         RecordSpawn, AggregateDone, Conclude, OnlyTick, OnlyRow, stepVars
<1>. QED
  BY <1>1, <1>5, <1>6
     DEF Next, TickCrash, Heartbeat, LeaseExpires, HumanSettles, CancelTask, RetryStalled,
         DropStalled, AcceptStalled, Revive, stepVars, vars

\* How a step of the system moves a row: it reserves it, stops it, or leaves
\* its lease alone but for the pid.
RowMove(s) ==
    \/ /\ row'[s].status = row[s].status /\ row'[s].attempt = row[s].attempt
       /\ \/ row'[s].pid = row[s].pid
          \/ \E t \in Ticker : RecordSpawn(t) /\ s = cur[t] /\ row'[s].pid = minted[s]
    \/ row'[s].status # "running" /\ row'[s].attempt \in {row[s].attempt, 0}
    \/ /\ row'[s].attempt = minted'[s] /\ minted'[s] = minted[s] + 1
       /\ \E t \in Ticker : Claim(t) /\ s = cur[t]

LEMMA RowMoves == ASSUME TickInv, [Next]_vars, NEW s \in Step PROVE RowMove(s)
<1>1. ASSUME NEW t \in Ticker, TickStep(t) PROVE RowMove(s)
  <2>1. TickWrite(t, s) BY <1>1, TickWrites
  <2>. QED BY <2>1 DEF TickWrite, RowMove, SameLease, Dead
<1>2. CASE \A t \in Ticker : ~TickStep(t)
  <2>1. OtherWrite(s) BY <1>2, OtherWrites DEF TickInv
  <2>. QED BY <2>1, OutcomeAssumption DEF OtherWrite, RowMove, SameLease, WorkerOutcomes
<1>. QED BY <1>1, <1>2

\* kill_pid kills the process of the row's attempt, when the pid names it.
LEMMA KillPidKills ==
    ASSUME NEW r, NEW w \in [Attempt -> WorkerState], NEW a \in Attempt,
           r.pid = a, r.attempt = a, w[a] # "none"
    PROVE  KillPid(r, w)[a] = "gone"
<1>1. a # 0 BY NumberAssumption DEF Attempt
<1>. QED BY <1>1 DEF KillPid

\* Whatever takes the lease of a running row has killed its process, or found
\* it dead: the tick judges a pid it read, and the row still carries that pid.
LEMMA StepLive == ASSUME TickInv, WorkersInv, [Next]_vars PROVE LiveInv'
<1>0. /\ TypeInv /\ PhaseInv /\ LockInv /\ SeenRunning /\ LiveInv /\ PidInv /\ SpawnInv
      /\ row \in [Step -> Row] /\ pc \in [Ticker -> TickPC]
      /\ worker \in [Step -> [Attempt -> WorkerState]]
      /\ \A s \in Step : row[s] \in Row /\ worker[s] \in [Attempt -> WorkerState]
  BY DEF TickInv, ControlInv, TypeInv, TypeOK, WorkersInv
<1>. SUFFICES ASSUME NEW s \in Step, NEW a \in Attempt, worker'[s][a] \in Live
     PROVE  row'[s].status = "running" /\ row'[s].attempt = a
  BY DEF LiveInv
<1>. DEFINE Goal == row'[s].status = "running" /\ row'[s].attempt = a
<1>1. ASSUME NEW t \in Ticker, Spawn(t), s = cur[t], a = minted[s] PROVE Goal
  BY <1>0, <1>1 DEF Spawn, SpawnInv
<1>2. CASE worker[s][a] \in Live
  <2>1. row[s].status = "running" /\ row[s].attempt = a BY <1>0, <1>2 DEF LiveInv
  <2>2. row'[s] = row[s] => Goal BY <2>1
  <2>3. worker'[s][a] # "gone" BY DEF Live
  <2>4. worker[s][a] # "none" BY <1>2 DEF Live
  <2>m. ASSUME NEW v \in Step, NEW r, UpdateRow(v, r)
        PROVE  row'[s] = row[s] \/ (s = v /\ row'[s] = r)
    BY <1>0, <2>m DEF UpdateRow
  <2>p. ASSUME NEW t \in Ticker, Acting(t) \/ lock = t, pc[t] \notin {"spawn", "record"}
        PROVE  row[s].pid = a
    <3>1. \A u \in Ticker : u # t => pc[u] = "idle" BY <1>0, <2>p, ActingAlone, OthersIdle
    <3>2. ~Spawning(s) BY <2>p, <3>1 DEF Spawning
    <3>. QED BY <1>0, <2>1, <3>2 DEF PidInv
  <2>5. ASSUME NEW t \in Ticker, NEW v \in Step, PollExhausted(t, v) PROVE Goal
    <3>1. row'[s] = row[s] \/ s = v BY <2>m, <2>5 DEF PollExhausted
    <3>2. pc[t] = "visit" /\ LooksDead(snap[t], v) BY <2>5 DEF PollExhausted, Visiting
    <3>3. s = v => worker[s][a] = "gone"
      BY <1>0, <2>1, <2>p, <3>2, NumberAssumption
         DEF SeenRunning, SeenAs, Looking, LooksDead, Acting, Attempt
    <3>. QED BY <1>2, <2>2, <3>1, <3>3 DEF Live
  <2>6. ASSUME NEW t \in Ticker, NEW v \in Step, PollTimeout(t, v) PROVE Goal
    <3>1. row'[s] = row[s] \/ s = v BY <2>m, <2>6 DEF PollTimeout
    <3>2. pc[t] = "visit" /\ worker' = [worker EXCEPT ![v] = KillPid(snap[t][v], @)]
      BY <2>6 DEF PollTimeout, Visiting
    <3>3. s = v => snap[t][s].pid = a /\ snap[t][s].attempt = a
      BY <1>0, <2>1, <2>p, <3>2 DEF SeenRunning, SeenAs, Looking, Acting
    <3>4. s = v => KillPid(snap[t][s], worker[s])[a] = "gone"
      BY <1>0, <2>4, <3>3, KillPidKills
    <3>. QED BY <1>0, <2>2, <2>3, <3>1, <3>2, <3>4
  <2>7. ASSUME NEW t \in Ticker, Sweep(t) PROVE Goal
    <3>1. pc[t] = "sweep" BY <2>7 DEF Sweep
    <3>2. row[s].pid = a BY <1>0, <2>p, <3>1 DEF LockInv
    <3>3. KillPid(row[s], worker[s])[a] = "gone" BY <1>0, <2>1, <2>4, <3>2, KillPidKills
    <3>4. ~ToReap
      <4>1. ToReap => worker'[s] = KillPid(row[s], worker[s]) BY <1>0, <2>1, <2>7 DEF Sweep
      <4>. QED BY <2>3, <3>3, <4>1
    <3>. QED BY <2>2, <2>7, <3>4 DEF Sweep
  <2>8. ASSUME NEW t \in Ticker, NEW v \in Step, ResolveNone(t, v) PROVE Goal
    <3>1. row'[s] = row[s] \/ s = v BY <2>m, <2>8 DEF ResolveNone
    <3>2. pc[t] = "resolve" /\ v \in todo[t] BY <2>8 DEF ResolveNone, First
    <3>3. s = v => snap[t][s].status \in Rulable /\ snap[t][s].status = "running"
      BY <1>0, <2>1, <3>2 DEF PhaseInv, SeenRunning, SeenAs, Looking
    <3>. QED BY <2>2, <3>1, <3>3 DEF Rulable, Dead
  <2>9. ASSUME NEW t \in Ticker, NEW v \in Step, ResolveSelfDo(t, v) \/ ResolveSkip(t, v)
        PROVE  Goal
    <3>1. row'[s] = row[s] \/ (s = v /\ row[v].status \in Rulable)
      BY <2>m, <2>9 DEF ResolveSelfDo, ResolveSkip, Unmoved
    <3>. QED BY <2>1, <2>2, <3>1 DEF Rulable, Dead
  <2>10. ASSUME NEW t \in Ticker, RuleAccept(t) \/ RuleRetry(t) PROVE Goal
    <3>1. pc[t] = "rule" /\ cur[t] \in Step BY <1>0, <2>10 DEF RuleAccept, RuleRetry, PhaseInv
    <3>2. row'[s] = row[s] \/ (s = cur[t] /\ row[s].status \in Rulable)
      <4>1. CASE RuleAccept(t) BY <2>m, <3>1, <4>1 DEF RuleAccept, Unmoved
      <4>2. CASE RuleRetry(t) BY <2>m, <3>1, <4>2 DEF RuleRetry, ResetStepToPending
      <4>. QED BY <2>10, <4>1, <4>2
    <3>. QED BY <2>1, <2>2, <3>2 DEF Rulable, Dead
  <2>11. ASSUME NEW t \in Ticker, RosterReject(t) \/ Claim(t) PROVE Goal
    <3>1. pc[t] = "claim" BY <2>11 DEF RosterReject, Claim
    <3>2. s # cur[t] BY <1>0, <1>2, <3>1 DEF SpawnInv, NoWorker
    <3>. QED BY <1>0, <2>2, <2>11, <3>2 DEF RosterReject, Claim, UpdateRow
  <2>12. ASSUME NEW t \in Ticker, RecordSpawn(t) PROVE Goal
    <3>1. row'[s] = row[s] \/ row'[s] = [row[s] EXCEPT !.pid = minted[cur[t]]]
      BY <1>0, <2>12 DEF RecordSpawn, UpdateRow
    <3>2. LET q == [row[s] EXCEPT !.pid = minted[cur[t]]] IN
            q.status = row[s].status /\ q.attempt = row[s].attempt
      BY <1>0, WriteShapes
    <3>. QED BY <2>1, <2>2, <3>1, <3>2
  <2>. HIDE DEF Goal
  <2>13. ASSUME NEW t \in Ticker, TickStep(t) PROVE Goal
    BY <2>2, <2>5, <2>6, <2>7, <2>8, <2>9, <2>10, <2>11, <2>12, <2>13
       DEF TickStep, TickBegin, PollQuiet, PollRetry, PollClarify, SpendIntervention,
           RuleGiveUp, Dispatch, Aggregate, DeadEnd, NothingToDo, Spawn, AggregateDone,
           Conclude, OnlyTick, stepVars
  <2>14. CASE \A t \in Ticker : ~TickStep(t)
    <3>1. OtherWrite(s) BY <1>0, <2>14, OtherWrites
    <3>2. ASSUME NEW b \in Attempt, NEW o \in Outcome, WorkerEnd(s, b, o),
                 row[s].attempt = b
          PROVE  FALSE
      <4>1. worker'[s][b] = "gone" BY <1>0, <3>2 DEF WorkerEnd
      <4>. QED BY <2>1, <2>3, <3>2, <4>1
    <3>. QED BY <2>1, <3>1, <3>2 DEF OtherWrite, SameLease, Goal, Dead
  <2>. QED BY <2>13, <2>14 DEF Goal
<1>3. WorkerMove(s, a) BY <1>0, WorkerMoves
<1>4. CASE worker'[s][a] = worker[s][a] BY <1>2, <1>4
<1>. QED BY <1>1, <1>2, <1>3, <1>4 DEF WorkerMove, Live

\* A claim that mints reserves the step and goes on to spawn it.
LEMMA ClaimSpawns ==
    ASSUME TypeInv, NEW t \in Ticker, Claim(t), NEW s \in Step, s = cur[t],
           minted'[s] = minted[s] + 1
    PROVE  /\ GoTo(t, "spawn", todo[t], s, slots[t]) /\ pc'[t] = "spawn" /\ cur'[t] = s
           /\ row'[s].status = "running" /\ row'[s].attempt = minted'[s]
<1>0. /\ minted[s] \in Nat /\ pc \in [Ticker -> TickPC] /\ row[s] \in Row
      /\ cur \in [Ticker -> Step \cup {0}] /\ row \in [Step -> Row]
  BY DEF TypeInv, TypeOK
<1>1. /\ UpdateRow(s, ReserveStep(row[s], minted'[s]))
      /\ GoTo(t, "spawn", todo[t], s, slots[t])
  BY <1>0 DEF Claim
<1>2. row'[s] = ReserveStep(row[s], minted'[s]) BY <1>0, <1>1 DEF UpdateRow
<1>. QED BY <1>0, <1>1, <1>2, WriteShapes DEF GoTo

\* A tick at the spawn or at the record of a step leaves it by that action only.
LEMMA SpawnThenRecord ==
    ASSUME TypeInv, NEW t \in Ticker, TickStep(t), pc[t] \in {"spawn", "record"}
    PROVE  IF pc[t] = "spawn" THEN Spawn(t) ELSE RecordSpawn(t)
BY DEF TickStep, TickBegin, PollQuiet, PollRetry, PollExhausted, PollTimeout, PollClarify,
       SpendIntervention, RuleAccept, RuleRetry, RuleGiveUp, ResolveSelfDo, ResolveSkip,
       ResolveNone, Dispatch, CannotDispatch, Aggregate, DeadEnd, NothingToDo, RosterReject,
       Claim, Spawn, RecordSpawn, AggregateDone, Conclude, Sweep, Visiting

LEMMA StepPid ==
    ASSUME TickInv, WorkersInv, [Next]_vars, \A t \in Ticker : ~TickCrash(t) PROVE PidInv'
<1>0. /\ TypeInv /\ PidInv /\ SpawnInv /\ \A s \in Step : minted[s] \in Nat
      /\ pc \in [Ticker -> TickPC] /\ cur \in [Ticker -> Step \cup {0}]
  BY DEF TickInv, TypeInv, TypeOK, WorkersInv
<1>. SUFFICES ASSUME NEW s \in Step, row'[s].status = "running"
     PROVE  row'[s].attempt # 0 /\ (Spawning(s)' \/ row'[s].pid = row'[s].attempt)
  BY DEF PidInv
<1>1. ASSUME NEW t \in Ticker, Claim(t), s = cur[t], row'[s].attempt = minted'[s],
             minted'[s] = minted[s] + 1
      PROVE  row'[s].attempt # 0 /\ Spawning(s)'
  BY <1>0, <1>1, ClaimSpawns DEF Spawning
<1>2. ASSUME row[s].status = "running", row'[s].attempt = row[s].attempt,
             NEW t \in Ticker, RecordSpawn(t), s = cur[t], row'[s].pid = minted[s]
      PROVE  row'[s].pid = row'[s].attempt
  BY <1>0, <1>2 DEF RecordSpawn, SpawnInv
<1>3. ASSUME row[s].status = "running", row'[s].attempt = row[s].attempt,
             row'[s].pid = row[s].pid
      PROVE  Spawning(s)' \/ row'[s].pid = row'[s].attempt
  <2>1. CASE row[s].pid = row[s].attempt BY <1>3, <2>1
  <2>2. CASE Spawning(s)
    <3>1. PICK t \in Ticker : pc[t] \in {"spawn", "record"} /\ cur[t] = s BY <2>2 DEF Spawning
    <3>2. CASE UNCHANGED tickVars BY <3>1, <3>2 DEF Spawning, tickVars
    <3>3. CASE TickStep(t)
      <4>1. CASE Spawn(t) BY <1>0, <3>1, <4>1 DEF Spawn, GoTo, Spawning
      <4>2. CASE RecordSpawn(t)
        <5>1. row'[s].pid = minted[s]
          <6>1. row'[s] = [row[s] EXCEPT !.pid = minted[s]] /\ row[s] \in Row
            BY <1>0, <3>1, <4>2 DEF RecordSpawn, UpdateRow, TypeInv, TypeOK
          <6>. QED BY <6>1, WriteShapes
        <5>. QED BY <1>2, <1>3, <3>1, <4>2, <5>1
      <4>. QED BY <1>0, <3>1, <3>3, <4>1, <4>2, SpawnThenRecord
    <3>. QED BY <3>1, <3>2, <3>3, TickOrStays DEF Acting
  <2>. QED BY <1>0, <1>3, <2>1, <2>2 DEF PidInv
<1>. QED BY <1>0, <1>1, <1>2, <1>3, RowMoves DEF RowMove, PidInv

LEMMA StepStarted ==
    ASSUME TickInv, WorkersInv, [Next]_vars, \A t \in Ticker : ~TickCrash(t)
    PROVE  StartedInv'
<1>0. /\ TypeInv /\ StartedInv /\ SpawnInv /\ \A s \in Step : minted[s] \in Nat
      /\ pc \in [Ticker -> TickPC] /\ cur \in [Ticker -> Step \cup {0}]
      /\ worker \in [Step -> [Attempt -> WorkerState]] /\ \A s \in Step : row[s] \in Row
      /\ UnspawnedInv
  BY DEF TickInv, TypeInv, TypeOK, WorkersInv, ControlInv
<1>. SUFFICES ASSUME NEW s \in Step, row'[s].attempt # 0,
                     ~ \E t \in Ticker : pc'[t] = "spawn" /\ cur'[t] = s
     PROVE  worker'[s][row'[s].attempt] # "none"
  BY DEF StartedInv
<1>1. ~ \E t \in Ticker : Claim(t) /\ s = cur[t] /\ minted'[s] = minted[s] + 1
  BY <1>0, ClaimSpawns
<1>2. row'[s].attempt = row[s].attempt /\ row[s].attempt \in Attempt
  <2>1. row'[s].attempt \in {row[s].attempt, 0} BY <1>1, RowMoves DEF RowMove
  <2>. QED BY <1>0, <2>1, AttemptType
<1>3. CASE \E t \in Ticker : pc[t] = "spawn" /\ cur[t] = s
  <2>1. PICK t \in Ticker : pc[t] = "spawn" /\ cur[t] = s BY <1>3
  <2>2. ~ UNCHANGED tickVars BY <2>1 DEF tickVars
  <2>3. Spawn(t) BY <1>0, <2>1, <2>2, TickOrStays, SpawnThenRecord DEF Acting
  <2>4. row[s].attempt = minted[s] BY <1>0, <2>1 DEF SpawnInv
  <2>5. worker'[s][minted[s]] = "starting" BY <1>0, <1>2, <2>1, <2>3, <2>4 DEF Spawn
  <2>. QED BY <1>2, <2>4, <2>5
<1>4. CASE worker[s][row[s].attempt] # "none"
  <2>. DEFINE a == row[s].attempt
  <2>1. a \in Attempt /\ worker[s][a] # "none" BY <1>2, <1>4
  <2>. HIDE DEF a
  <2>2. WorkerMove(s, a) BY <1>0, <2>1, WorkerMoves
  <2>3. worker'[s][a] # "none" BY <2>1, <2>2 DEF WorkerMove, Live
  <2>. QED BY <1>2, <2>3 DEF a
<1>. QED BY <1>0, <1>2, <1>3, <1>4 DEF StartedInv, Attempt

LEMMA StepSpawn ==
    ASSUME TickInv, WorkersInv, [Next]_vars, \A t \in Ticker : ~TickCrash(t) PROVE SpawnInv'
<1>0. /\ TypeInv /\ PhaseInv /\ LockInv /\ SeenRunning /\ LiveInv /\ PidInv /\ SpawnInv
      /\ UnspawnedInv /\ ClaimsInOrder
      /\ row \in [Step -> Row] /\ pc \in [Ticker -> TickPC]
      /\ cur \in [Ticker -> Step \cup {0}] /\ todo \in [Ticker -> SUBSET Step]
      /\ slots \in [Ticker -> Nat]
      /\ minted \in [Step -> 0 .. MaxAttempt]
      /\ worker \in [Step -> [Attempt -> WorkerState]] /\ \A s \in Step : row[s] \in Row
  BY DEF TickInv, ControlInv, OrderInv, TypeInv, TypeOK, WorkersInv
<1>r. \A s \in Step : row[s].status # "running" => NoWorker(s) BY <1>0 DEF LiveInv, NoWorker
<1>w. ASSUME worker' = worker, NEW s \in Step, NoWorker(s) PROVE \A a \in Attempt : worker'[s][a] \notin Live
  BY <1>w DEF NoWorker
<1>. SUFFICES ASSUME NEW u \in Ticker, pc'[u] \in Claiming
     PROVE  /\ pc'[u] = "spawn" => /\ row'[cur'[u]].status = "running"
                                   /\ row'[cur'[u]].attempt = minted'[cur'[u]]
            /\ pc'[u] = "record" /\ row'[cur'[u]].status = "running" =>
                  row'[cur'[u]].attempt = minted'[cur'[u]]
            /\ pc'[u] = "claim" => \A a \in Attempt : worker'[cur'[u]][a] \notin Live
            /\ \A s \in todo'[u] : \A a \in Attempt : worker'[s][a] \notin Live
  BY DEF SpawnInv, NoWorker, Claiming
<1>. DEFINE Next1 ==
       /\ pc'[u] = "spawn" => /\ row'[cur'[u]].status = "running"
                              /\ row'[cur'[u]].attempt = minted'[cur'[u]]
       /\ pc'[u] = "record" /\ row'[cur'[u]].status = "running" =>
             row'[cur'[u]].attempt = minted'[cur'[u]]
       /\ pc'[u] = "claim" => \A a \in Attempt : worker'[cur'[u]][a] \notin Live
       /\ \A s \in todo'[u] : \A a \in Attempt : worker'[s][a] \notin Live
<1>1. Acting(u) /\ snap'[u] = snap[u]
  BY ActingMoves DEF Acting, Claiming
<1>2. CASE UNCHANGED <<tickVars, minted>> /\ \A t \in Ticker : ~TickStep(t)
  <2>0. /\ pc'[u] = pc[u] /\ cur'[u] = cur[u] /\ todo'[u] = todo[u] /\ minted' = minted
        /\ cur[u] \in Step
    BY <1>0, <1>2 DEF tickVars, ClaimsInOrder, MayClaim, Claiming
  <2>1. ASSUME NEW s \in Step, NoWorker(s) PROVE \A a \in Attempt : worker'[s][a] \notin Live
    <3>1. \A t \in Ticker : ~Spawn(t) BY <1>2 DEF TickStep
    <3>2. ASSUME NEW a \in Attempt PROVE worker'[s][a] \notin Live
      <4>1. WorkerMove(s, a) BY <1>0, WorkerMoves
      <4>. QED BY <2>1, <3>1, <4>1 DEF WorkerMove, NoWorker, Live
    <3>. QED BY <3>2
  <2>2. OtherWrite(cur[u]) BY <1>0, <1>2, <2>0, OtherWrites
  <2>3. pc[u] = "spawn" => row'[cur[u]].status = row[cur[u]].status /\ SameLease(cur[u])
    <3>1. ASSUME pc[u] = "spawn", NEW a \in Attempt, NEW o \in Outcome,
                 WorkerEnd(cur[u], a, o), row[cur[u]].attempt = a
          PROVE  FALSE
      BY <1>0, <3>1 DEF WorkerEnd, SpawnInv, UnspawnedInv
    <3>. QED BY <1>0, <2>2, <3>1 DEF OtherWrite, SpawnInv, Dead
  <2>4. row'[cur[u]].status = "running" =>
          row[cur[u]].status = "running" /\ row'[cur[u]].attempt = row[cur[u]].attempt
    BY <2>2, OutcomeAssumption DEF OtherWrite, SameLease, WorkerOutcomes
  <2>. QED BY <1>0, <2>0, <2>1, <2>3, <2>4 DEF SpawnInv, SameLease, Claiming
<1>3. ASSUME NEW v \in Step, PollRetry(u, v) PROVE Next1
  <2>1. /\ pc[u] = "visit" /\ LooksDead(snap[u], v) /\ worker' = worker
        /\ pc'[u] = "claim" /\ cur'[u] = v /\ todo'[u] = {}
    BY <1>0, <1>3 DEF PollRetry, Visiting, GoTo
  <2>2. ASSUME NEW a \in Attempt, worker[v][a] \in Live PROVE FALSE
    <3>1. row[v].status = "running" /\ row[v].attempt = a BY <1>0, <2>2 DEF LiveInv
    <3>2. \A t \in Ticker : t # u => pc[t] = "idle" BY <1>0, <1>1, ActingAlone
    <3>3. row[v].pid = a BY <1>0, <2>1, <3>1, <3>2 DEF PidInv, Spawning
    <3>4. snap[u][v].pid = a BY <1>0, <2>1, <3>1, <3>3 DEF SeenRunning, SeenAs, Looking
    <3>5. a # 0 BY NumberAssumption DEF Attempt
    <3>. QED BY <2>1, <2>2, <3>4, <3>5 DEF LooksDead, Live
  <2>. QED BY <2>1, <2>2
<1>4. ASSUME NEW v \in Step, PollClarify(u, v) PROVE Next1
  <2>1. /\ pc[u] = "visit" /\ snap[u][v].status = "waiting_clarify" /\ worker' = worker
        /\ pc'[u] = "claim" /\ cur'[u] = v /\ todo'[u] = {}
    BY <1>0, <1>4 DEF PollClarify, Visiting, GoTo, Skip, OnlyTick, OnlyRow, Claiming
  <2>2. NoWorker(v) BY <1>0, <1>r, <2>1 DEF SeenRunning, SeenAs, Looking
  <2>. QED BY <1>w, <2>1, <2>2
<1>5. CASE Dispatch(u)
  <2>1. /\ pc[u] = "visit" /\ worker' = worker
        /\ ClaimNext(u, ReadyPendingSteps(snap[u]), FreeSlots(snap[u]))
    BY <1>5 DEF Dispatch, OnlyTick, OnlyRow
  <2>2. /\ pc'[u] = "claim" /\ cur'[u] \in ReadyPendingSteps(snap[u])
        /\ todo'[u] \subseteq ReadyPendingSteps(snap[u])
    BY <1>0, <2>1 DEF ClaimNext, Finish, GoTo, Claiming
  <2>3. \A s \in ReadyPendingSteps(snap[u]) : s \in Step /\ NoWorker(s)
    BY <1>0, <1>r, <2>1 DEF ReadyPendingSteps, SeenRunning, SeenAs, Looking
  <2>. QED BY <1>w, <2>1, <2>2, <2>3
<1>6. CASE pc[u] \in Claiming /\ ClaimNext(u, todo[u], slots[u]) /\ worker' = worker
  <2>1. pc'[u] = "claim" /\ cur'[u] \in todo[u] /\ todo'[u] \subseteq todo[u]
    BY <1>0, <1>6 DEF ClaimNext, Finish, GoTo, Claiming
  <2>2. \A s \in todo[u] : s \in Step /\ NoWorker(s) BY <1>0, <1>6 DEF SpawnInv
  <2>. QED BY <1>w, <1>6, <2>1, <2>2
<1>7. CASE Claim(u)
  <2>1. pc[u] = "claim" /\ worker' = worker /\ cur[u] \in Step
    BY <1>0, <1>7 DEF Claim, ClaimsInOrder, MayClaim
  <2>2. CASE ClaimNext(u, todo[u], slots[u]) BY <1>6, <2>1, <2>2 DEF Claiming
  <2>3. CASE minted' = [minted EXCEPT ![cur[u]] = @ + 1]
    <3>1. minted'[cur[u]] = minted[cur[u]] + 1 BY <1>0, <2>1, <2>3
    <3>2. /\ GoTo(u, "spawn", todo[u], cur[u], slots[u]) /\ pc'[u] = "spawn"
          /\ cur'[u] = cur[u] /\ row'[cur[u]].status = "running"
          /\ row'[cur[u]].attempt = minted'[cur[u]]
      BY <1>0, <1>7, <2>1, <3>1, ClaimSpawns
    <3>3. todo'[u] = todo[u] BY <1>0, <3>2 DEF GoTo
    <3>4. \A s \in todo[u] : s \in Step /\ NoWorker(s) BY <1>0, <2>1 DEF SpawnInv, Claiming
    <3>. QED BY <1>w, <2>1, <3>2, <3>3, <3>4
  <2>. QED BY <1>7, <2>2, <2>3 DEF Claim
<1>8. CASE Spawn(u)
  <2>1. /\ pc[u] = "spawn" /\ pc'[u] = "record" /\ cur'[u] = cur[u] /\ todo'[u] = todo[u]
        /\ row' = row /\ minted' = minted /\ cur[u] \notin todo[u]
        /\ worker' = [worker EXCEPT ![cur[u]][minted[cur[u]]] = "starting"]
    BY <1>0, <1>8 DEF Spawn, GoTo, PhaseInv, Claiming
  <2>2. \A s \in todo[u] : s \in Step /\ NoWorker(s) /\ worker'[s] = worker[s]
    BY <1>0, <2>1 DEF SpawnInv, Claiming
  <2>. QED BY <1>0, <2>1, <2>2 DEF SpawnInv, NoWorker
<1>9. CASE RosterReject(u) \/ RecordSpawn(u)
  BY <1>6, <1>9 DEF RosterReject, RecordSpawn, OnlyRow, Claiming
<1>. HIDE DEF Next1
<1>10. ASSUME TickStep(u) PROVE Next1
  <2>1. pc'[u] \notin {"visit", "rule", "resolve", "aggregate", "conclude", "sweep", "idle"}
    BY DEF Claiming
  <2>2. ASSUME NEW v \in Step,
               \/ PollQuiet(u, v) \/ PollExhausted(u, v) \/ PollTimeout(u, v)
               \/ SpendIntervention(u, v)
               \/ ResolveSelfDo(u, v) \/ ResolveSkip(u, v) \/ ResolveNone(u, v)
        PROVE  FALSE
    BY <1>0, <2>1, <2>2
       DEF PollQuiet, PollExhausted, PollTimeout, SpendIntervention, ResolveSelfDo,
           ResolveSkip, ResolveNone, Skip, Finish, GoTo
  <2>3. ~ \/ TickBegin(u) \/ RuleAccept(u) \/ RuleRetry(u) \/ RuleGiveUp(u) \/ Aggregate(u)
          \/ DeadEnd(u) \/ NothingToDo(u) \/ AggregateDone(u) \/ Conclude(u) \/ Sweep(u)
    BY <1>0, <2>1
       DEF TickBegin, RuleAccept, RuleRetry, RuleGiveUp, Aggregate, DeadEnd, NothingToDo,
           AggregateDone, Conclude, Sweep, Skip, Finish, GoTo
  <2>. QED BY <1>3, <1>4, <1>5, <1>7, <1>8, <1>9, <1>10, <2>2, <2>3 DEF TickStep, Next1
<1>. QED BY <1>1, <1>2, <1>10, TickOrStays DEF Next1

UntilCrash == crashes = 0 => WorkersInv

LEMMA StepWorkers == ASSUME TickInv, UntilCrash, [Next]_vars PROVE UntilCrash'
<1>. SUFFICES ASSUME crashes' = 0 PROVE WorkersInv' BY DEF UntilCrash
<1>1. crashes = 0 /\ \A t \in Ticker : ~TickCrash(t) BY NoCrash DEF TickInv
<1>2. WorkersInv BY <1>1 DEF UntilCrash
<1>. QED BY <1>1, <1>2, StepLive, StepPid, StepSpawn, StepStarted DEF WorkersInv

LEMMA InitWorkers == Init => UntilCrash
BY DEF Init, UntilCrash, WorkersInv, LiveInv, PidInv, SpawnInv, StartedInv, NoSnap, FreshRow,
       Live, Claiming

\* The invariant behind the single worker: until the first crash of a tick,
\* a process that works is the one the row's lease and pid name.
THEOREM WorkersInvariant == Spec => [](TickInv /\ UntilCrash)
BY InitWorkers, StepWorkers, ControlInvariant, PTL DEF Spec

LEMMA LeaseIsSingle == ASSUME LiveInv PROVE SingleWorker
<1>. SUFFICES ASSUME NEW s \in Step
     PROVE  Cardinality({a \in Attempt : worker[s][a] = "working"}) <= 1
  BY DEF SingleWorker
<1>. DEFINE W == {a \in Attempt : worker[s][a] = "working"}
            b == row[s].attempt
<1>1. W \subseteq {b} BY DEF LiveInv, Live
<1>. HIDE DEF W, b
<1>2. IsFiniteSet({b}) /\ Cardinality({b}) = 1 BY FS_Singleton
<1>3. Cardinality(W) <= Cardinality({b}) /\ Cardinality(W) \in Nat
  BY <1>1, <1>2, FS_Subset, FS_CardinalityType
<1>4. Cardinality(W) <= 1 BY <1>2, <1>3
<1>. QED BY <1>4 DEF W

\* Until the first crash of a tick, two processes never work on one step:
\* retries, timeouts, rulings, halts and revivals all see to the old process
\* before a new one starts, though each of them judges it by a pid it read.
THEOREM OneWorkerUntilCrash == Spec => [](crashes = 0 => SingleWorker)
<1>1. UntilCrash => (crashes = 0 => SingleWorker)
  BY LeaseIsSingle DEF UntilCrash, WorkersInv
<1>. QED BY <1>1, WorkersInvariant, PTL

\* The bound of zero crashes means there is none.
LEMMA NeverCrashes == ASSUME MaxCrash = 0 PROVE Spec => [](crashes = 0)
<1>1. Init => crashes = 0 BY DEF Init
<1>2. crashes = 0 /\ [Next]_vars => (crashes = 0)'
  <2>. SUFFICES ASSUME crashes = 0, [Next]_vars PROVE crashes' = 0 OBVIOUS
  <2>1. \A t \in Ticker : ~TickCrash(t) BY DEF TickCrash
  <2>. QED BY <2>1, CrashesCounted
<1>. QED BY <1>1, <1>2, PTL DEF Spec

\* Where no tick process ever dies, a step has one worker at a time.
THEOREM OneWorkerAtATime == ASSUME MaxCrash = 0 PROVE Spec => []SingleWorker
BY NeverCrashes, OneWorkerUntilCrash, PTL

----------------------------------------------------------------------------
(* And where no tick has died, the coordinator may write a step's result    *)
(* itself: the step it rules on has no process left to overwrite it.        *)

LEMMA NobodyToOverwrite == ASSUME TypeInv, WorkersInv PROVE RulableGone
<1>. SUFFICES ASSUME NEW s \in Step, row[s].status \in Rulable, row[s].attempt # 0
     PROVE  worker[s][row[s].attempt] = "gone"
  BY DEF RulableGone
<1>0. /\ row[s] \in Row /\ worker[s] \in [Attempt -> WorkerState]
      /\ LiveInv /\ SpawnInv /\ StartedInv
  BY DEF TypeInv, TypeOK, WorkersInv
<1>1. row[s].attempt \in Attempt BY <1>0, AttemptType
<1>2. row[s].status # "running" BY DEF Rulable, Dead
<1>3. worker[s][row[s].attempt] \notin Live BY <1>0, <1>1, <1>2 DEF LiveInv
<1>4. worker[s][row[s].attempt] # "none" BY <1>0, <1>2 DEF StartedInv, SpawnInv
<1>5. worker[s][row[s].attempt] \in WorkerState BY <1>0, <1>1
<1>. QED BY <1>3, <1>4, <1>5 DEF WorkerState, Live

\* Until the first crash of a tick, a task is reported done only with every
\* step of its plan done, whoever wrote the results, the coordinator included.
THEOREM DoneUntilCrash == Spec => [](crashes = 0 => DoneIsComplete)
<1>. DEFINE Inv == crashes = 0 => DoneInv
<1>1. Init => Inv BY InitDone
<1>2. TickInv /\ UntilCrash /\ Inv /\ [Next]_vars => Inv'
  <2>. SUFFICES ASSUME TickInv, UntilCrash, Inv, [Next]_vars, crashes' = 0 PROVE DoneInv'
    BY DEF Inv
  <2>1. crashes = 0 BY NoCrash DEF TickInv
  <2>2. RulableGone BY <2>1, NobodyToOverwrite DEF UntilCrash, TickInv
  <2>3. DoneInv BY <2>1
  <2>. HIDE DEF Inv
  <2>. QED BY <2>2, <2>3, StepDone
<1>3. Inv => (crashes = 0 => DoneIsComplete) BY DEF DoneInv
<1>. QED BY <1>1, <1>2, <1>3, WorkersInvariant, PTL DEF Spec

\* Where no tick process ever dies, a task reported done is done.
THEOREM DoneWithoutCrash == ASSUME MaxCrash = 0 PROVE Spec => []DoneIsComplete
BY NeverCrashes, DoneUntilCrash, PTL

----------------------------------------------------------------------------
(* The life of a step: every step of the system is one of StepLife.        *)

\* A row names no attempt, or the latest; one that waits names none.
LatestInv ==
    \A s \in Step : /\ row[s].attempt \in {0, minted[s]}
                    /\ row[s].status = "pending" => row[s].attempt = 0

\* An attempt is minted by the claim that writes it into the row.
LEMMA OnlyClaimMints ==
    ASSUME TypeInv, [Next]_vars, NEW s \in Step, minted'[s] # minted[s]
    PROVE  \E t \in Ticker : /\ Claim(t) /\ s = cur[t]
                             /\ row'[s].status = "running" /\ row'[s].attempt = minted'[s]
<1>0. /\ minted \in [Step -> 0 .. MaxAttempt] /\ row \in [Step -> Row]
      /\ cur \in [Ticker -> Step \cup {0}]
  BY DEF TypeInv, TypeOK
<1>1. ASSUME NEW t \in Ticker, Claim(t)
      PROVE  s = cur[t] /\ row'[s].status = "running" /\ row'[s].attempt = minted'[s]
  <2>1. /\ s = cur[t] /\ row' = [row EXCEPT ![s] = ReserveStep(row[s], minted'[s])]
    BY <1>0, <1>1 DEF Claim, UpdateRow
  <2>2. row'[s] = ReserveStep(row[s], minted'[s]) /\ row[s] \in Row BY <1>0, <2>1
  <2>3. LET q == ReserveStep(row[s], minted'[s]) IN
          q.status = "running" /\ q.attempt = minted'[s]
    BY <2>2, WriteShapes
  <2>. QED BY <2>1, <2>2, <2>3
<1>2. ASSUME NEW t \in Ticker, TickStep(t), ~Claim(t) PROVE minted' = minted
  BY <1>2
     DEF TickStep, TickBegin, PollQuiet, PollRetry, PollExhausted, PollTimeout, PollClarify,
         SpendIntervention, RuleAccept, RuleRetry, RuleGiveUp, ResolveSelfDo, ResolveSkip,
         ResolveNone, Dispatch, Aggregate, DeadEnd, NothingToDo, RosterReject, Spawn,
         RecordSpawn, AggregateDone, Conclude, Sweep, OnlyTick, OnlyRow, stepVars
<1>. QED
  BY <1>1, <1>2
     DEF Next, TickCrash, WorkerStep, WorkerStart, WorkerCrash, WorkerEnd, Heartbeat,
         LeaseExpires, HumanSettles, CancelTask, RetryStalled, DropStalled, AcceptStalled,
         Revive, stepVars, vars

LEMMA StepLatest == ASSUME TickInv, LatestInv, [Next]_vars PROVE LatestInv'
<1>. SUFFICES ASSUME NEW s \in Step
     PROVE  /\ row'[s].attempt \in {0, minted'[s]}
            /\ row'[s].status = "pending" => row'[s].attempt = 0
  BY DEF LatestInv
<1>0. row[s].attempt \in {0, minted[s]} /\ (row[s].status = "pending" => row[s].attempt = 0)
  BY DEF LatestInv
<1>1. CASE minted'[s] # minted[s] BY <1>1, OnlyClaimMints DEF TickInv
<1>2. CASE minted'[s] = minted[s]
  <2>1. ASSUME NEW t \in Ticker, TickStep(t)
        PROVE  /\ row'[s].attempt \in {0, minted'[s]}
               /\ row'[s].status = "pending" => row'[s].attempt = 0
    <3>1. TickWrite(t, s) BY <2>1, TickWrites
    <3>. QED BY <1>0, <1>2, <3>1 DEF TickWrite, SameLease, Dead
  <2>2. CASE \A t \in Ticker : ~TickStep(t)
    <3>1. OtherWrite(s) BY <2>2, OtherWrites DEF TickInv
    <3>2. "pending" \notin Outcome BY OutcomeAssumption DEF WorkerOutcomes
    <3>. QED BY <1>0, <1>2, <3>1, <3>2 DEF OtherWrite, SameLease
  <2>. QED BY <2>1, <2>2
<1>. QED BY <1>1, <1>2

\* How a write changes what StepLife sees of a row.
SameLook(q, r) == PhaseOf(q) = PhaseOf(r) /\ (q.everDone <=> r.everDone)
Enters(q, r, p) == PhaseOf(q) = p /\ (q.everDone <=> r.everDone \/ p \in Life!Settled)

Looks(r, a) ==
    /\ \A st \in Dead : LET q == MarkDead(r, a, st) IN q = r \/ Enters(q, r, "dead")
    /\ LET q == GiveUpWrite(r, a) IN q = r \/ Enters(q, r, "dead")
    /\ LET q == HaltStep(r) IN q = r \/ Enters(q, r, "dead")
    /\ Enters([r EXCEPT !.status = "failed"], r, "dead")
    /\ LET q == ResetStepToPending(r) IN
         IF r.status \in Rulable THEN Enters(q, r, "waiting") ELSE q = r
    /\ Enters(MarkStepDropped(r), r, "sealed")
    /\ \E p \in Life!Settled : Enters(MarkDoneByCoordinator(r), r, p)
    /\ Enters(ReserveStep(r, a), r, "leased")
    /\ SameLook([r EXCEPT !.pid = a], r)
    /\ \A f : SameLook([r EXCEPT !.live = f], r)

LEMMA WriteLooks ==
    ASSUME NEW r \in Row, r.status = "done" => r.everDone, NEW a \in 0 .. MaxAttempt
    PROVE  Looks(r, a)
<1>. USE DEF Row, Enters, SameLook, PhaseOf, Life!Settled, Dead, Pauses
<1>1. \A st \in Dead : LET q == MarkDead(r, a, st) IN q = r \/ Enters(q, r, "dead")
  BY DEF MarkDead
<1>2. LET q == GiveUpWrite(r, a) IN q = r \/ Enters(q, r, "dead") BY DEF GiveUpWrite
<1>3. LET q == HaltStep(r) IN q = r \/ Enters(q, r, "dead") BY DEF HaltStep
<1>4. Enters([r EXCEPT !.status = "failed"], r, "dead") OBVIOUS
<1>5. LET q == ResetStepToPending(r) IN
        IF r.status \in Rulable THEN Enters(q, r, "waiting") ELSE q = r
  BY DEF ResetStepToPending, Rulable
<1>6. Enters(MarkStepDropped(r), r, "sealed") BY DEF MarkStepDropped
<1>7. \E p \in Life!Settled : Enters(MarkDoneByCoordinator(r), r, p)
  BY DEF MarkDoneByCoordinator
<1>8. Enters(ReserveStep(r, a), r, "leased") BY DEF ReserveStep
<1>9. SameLook([r EXCEPT !.pid = a], r) /\ \A f : SameLook([r EXCEPT !.live = f], r) OBVIOUS
<1>. QED BY <1>1, <1>2, <1>3, <1>4, <1>5, <1>6, <1>7, <1>8, <1>9 DEF Looks

\* Rows that enter a phase, and rows that look as before, make an Enter.
LEMMA RowsEnter ==
    ASSUME NEW S, S \subseteq Step, NEW p,
           \A s \in S : Enters(row'[s], row[s], p),
           \A s \in Step \ S : SameLook(row'[s], row[s])
    PROVE  Life!Enter(S, p)
<1>1. Phase' = [s \in Step |-> IF s \in S THEN p ELSE Phase[s]]
  BY DEF Phase, Enters, SameLook
<1>2. Achieved' = IF p \in Life!Settled THEN Achieved \cup S ELSE Achieved
  BY DEF Achieved, Enters, SameLook
<1>. QED BY <1>1, <1>2 DEF Life!Enter

\* Where no row changes its look, nor minted nor worker, nothing is seen.
LEMMA LooksSame ==
    ASSUME \A s \in Step : SameLook(row'[s], row[s]), UNCHANGED <<minted, worker>>
    PROVE  UNCHANGED Life!life
<1>1. Phase' = Phase BY DEF Phase, SameLook
<1>2. Achieved' = Achieved BY DEF Achieved, SameLook
<1>3. AtWork' = AtWork BY DEF AtWork
<1>. QED BY <1>1, <1>2, <1>3 DEF Life!life

\* An UPDATE of one row writes that row only.
LEMMA RowWritten ==
    ASSUME TypeInv, NEW s \in Step, NEW r, UpdateRow(s, r)
    PROVE  row'[s] = r /\ \A u \in Step \ {s} : row'[u] = row[u]
BY DEF TypeInv, TypeOK, UpdateRow

\* A row is given up, and processes leave: at most a failure.
LEMMA RowFails ==
    ASSUME NEW S, S \subseteq Step,
           \A s \in S : Phase[s] # "sealed"
                        /\ (row'[s] = row[s] \/ Enters(row'[s], row[s], "dead")),
           \A s \in Step \ S : row'[s] = row[s],
           \A s \in Step : \A a \in Attempt :
               worker'[s][a] = "working" => worker[s][a] = "working",
           minted' = minted
    PROVE  \E T \in SUBSET Step : Life!Fail(T)
<1>. DEFINE T == {s \in S : row'[s] # row[s]}
<1>1. Life!Enter(T, "dead") BY RowsEnter DEF SameLook
<1>2. \A s \in Step : AtWork'[s] \subseteq AtWork[s] BY DEF AtWork
<1>. QED BY <1>1, <1>2 DEF Life!Fail

\* The same for one row.
LEMMA OneRowFails ==
    ASSUME NEW s \in Step, Phase[s] # "sealed",
           row'[s] = row[s] \/ Enters(row'[s], row[s], "dead"),
           \A u \in Step \ {s} : row'[u] = row[u],
           \A u \in Step : \A a \in Attempt :
               worker'[u][a] = "working" => worker[u][a] = "working",
           minted' = minted
    PROVE  Life!Next
<1>. DEFINE S == {s}
<1>1. /\ S \subseteq Step /\ \A u \in Step \ S : row'[u] = row[u]
      /\ \A u \in S : Phase[u] # "sealed"
                      /\ (row'[u] = row[u] \/ Enters(row'[u], row[u], "dead"))
  OBVIOUS
<1>. HIDE DEF S
<1>2. \E T \in SUBSET Step : Life!Fail(T) BY <1>1, RowFails
<1>. QED BY <1>2 DEF Life!Next

\* And for none: processes leave.
LEMMA OnlyLeave ==
    ASSUME UNCHANGED <<row, minted>>,
           \A u \in Step : \A a \in Attempt :
               worker'[u][a] = "working" => worker[u][a] = "working"
    PROVE  Life!Next
<1>. DEFINE S == {}
<1>1. /\ S \subseteq Step /\ \A u \in Step \ S : row'[u] = row[u]
      /\ \A u \in S : Phase[u] # "sealed"
                      /\ (row'[u] = row[u] \/ Enters(row'[u], row[u], "dead"))
  OBVIOUS
<1>. HIDE DEF S
<1>2. \E T \in SUBSET Step : Life!Fail(T) BY <1>1, RowFails
<1>. QED BY <1>2 DEF Life!Next

\* What the ticks write, one action at a time.
LEMMA TickLives ==
    ASSUME TickInv, TickInv', DropInv, NEW t \in Ticker, TickStep(t)
    PROVE  Life!Next \/ UNCHANGED Life!life
<1>0. /\ row \in [Step -> Row] /\ minted \in [Step -> 0 .. MaxAttempt]
      /\ \A s \in Step : row[s] \in Row /\ (row[s].status = "done" => row[s].everDone)
      /\ cur \in [Ticker -> Step \cup {0}] /\ TypeInv /\ OrderInv /\ PhaseInv /\ ClaimsInOrder
      /\ worker \in [Step -> [Attempt -> WorkerState]]
      /\ snap \in [Ticker -> [Step -> Row]] /\ \A s \in Step : snap[t][s] \in Row
  BY DEF TickInv, TypeInv, TypeOK, OrderInv, RowsInOrder, InOrder, ControlInv
<1>s. \A s \in Step : Acting(t) /\ snap[t][s].status # "done" => Phase[s] # "sealed"
  BY <1>0 DEF DropInv, Dropped, Phase, PhaseOf, Row, StepStatus, Pauses, Dead
<1>w. \A s \in Step : \A a \in 0 .. MaxAttempt : Looks(row[s], a) BY <1>0, WriteLooks
<1>j. pc[t] \in Claiming => cur[t] \in Step /\ snap[t][cur[t]].status # "done"
  BY <1>0 DEF ClaimsInOrder, MayClaim, ReadyPendingSteps, Begun, Claiming
<1>k. pc[t] = "resolve" => \A s \in todo[t] : snap[t][s].status # "done"
  BY <1>0 DEF PhaseInv, Rulable, Dead
<1>l. pc[t] = "rule" => cur[t] \in Step BY <1>0 DEF PhaseInv
<1>n. UNCHANGED <<row, minted, worker>> => UNCHANGED Life!life BY LooksSame DEF SameLook
<1>f. (\E S \in SUBSET Step : Life!Fail(S)) => Life!Next BY DEF Life!Next
<1>r. ASSUME NEW s \in Step, row[s].status \in Rulable, NEW p \in {"waiting"} \cup Life!Settled,
             Enters(row'[s], row[s], p), \A u \in Step \ {s} : row'[u] = row[u],
             UNCHANGED <<minted, worker>>
      PROVE  Life!Next
  <2>1. Life!Enter({s}, p) BY <1>r, RowsEnter DEF SameLook
  <2>2. Phase[s] \in {"judged", "dead"} BY <1>r DEF Phase, PhaseOf, Rulable, Dead, Pauses
  <2>3. AtWork' = AtWork BY <1>r DEF AtWork
  <2>4. Life!Rule({s}, p) BY <1>r, <2>1, <2>2, <2>3 DEF Life!Rule
  <2>. QED BY <2>4 DEF Life!Next
<1>1. ASSUME NEW s \in Step, PollExhausted(t, s) \/ PollTimeout(t, s)
      PROVE  Life!Next
  <2>1. Acting(t) /\ snap[t][s].status # "done"
    BY <1>1 DEF PollExhausted, PollTimeout, Visiting, Acting
  <2>2. PICK st \in Dead : UpdateRow(s, MarkDead(row[s], snap[t][s].attempt, st))
    BY <1>1 DEF PollExhausted, PollTimeout, Dead
  <2>3. snap[t][s].attempt \in 0 .. MaxAttempt BY <1>0 DEF Row
  <2>4. row'[s] = row[s] \/ Enters(row'[s], row[s], "dead")
    <3>1. Looks(row[s], snap[t][s].attempt) BY <1>w, <2>3
    <3>2. row'[s] = MarkDead(row[s], snap[t][s].attempt, st) BY <1>0, <2>2, RowWritten
    <3>. QED BY <3>1, <3>2 DEF Looks
  <2>5. \A a \in Attempt : KillPid(snap[t][s], worker[s])[a] \in {worker[s][a], "gone"}
    BY <1>0, KillPidKeeps
  <2>6. \A u \in Step : \A a \in Attempt :
          worker'[u][a] = "working" => worker[u][a] = "working"
    BY <1>0, <1>1, <2>5 DEF PollExhausted, PollTimeout
  <2>7. minted' = minted BY <1>1 DEF PollExhausted, PollTimeout
  <2>8. \A u \in Step \ {s} : row'[u] = row[u] BY <1>0, <2>2, RowWritten
  <2>. QED BY <1>s, <2>1, <2>4, <2>6, <2>7, <2>8, OneRowFails
<1>2. ASSUME NEW s \in Step, ResolveSelfDo(t, s) \/ ResolveSkip(t, s) \/ ResolveNone(t, s)
      PROVE  Life!Next \/ UNCHANGED Life!life
  <2>1. /\ Acting(t) /\ snap[t][s].status # "done" /\ UNCHANGED <<minted, worker>>
        /\ snap[t][s].attempt \in 0 .. MaxAttempt
    BY <1>0, <1>k, <1>2 DEF ResolveSelfDo, ResolveSkip, ResolveNone, First, Acting, OnlyRow, Row
  <2>2. CASE UNCHANGED row BY <1>n, <2>1, <2>2
  <2>3. CASE row[s].status \in Rulable /\ UpdateRow(s, MarkDoneByCoordinator(row[s]))
    <3>1. Looks(row[s], 0) BY <1>w, NumberAssumption
    <3>2. /\ row'[s] = MarkDoneByCoordinator(row[s])
          /\ \A u \in Step \ {s} : row'[u] = row[u]
      BY <1>0, <2>3, RowWritten
    <3>3. PICK p \in Life!Settled : Enters(row'[s], row[s], p) BY <3>1, <3>2 DEF Looks
    <3>. QED BY <1>r, <2>1, <2>3, <3>2, <3>3
  <2>4. CASE row[s].status \in Rulable /\ UpdateRow(s, MarkStepDropped(row[s]))
    <3>1. Looks(row[s], 0) BY <1>w, NumberAssumption
    <3>2. row'[s] = MarkStepDropped(row[s]) /\ \A u \in Step \ {s} : row'[u] = row[u]
      BY <1>0, <2>4, RowWritten
    <3>3. Enters(row'[s], row[s], "sealed") BY <3>1, <3>2 DEF Looks
    <3>4. "sealed" \in {"waiting"} \cup Life!Settled BY DEF Life!Settled
    <3>. QED BY <1>r, <2>1, <2>4, <3>2, <3>3, <3>4
  <2>5. CASE UpdateRow(s, GiveUpWrite(row[s], snap[t][s].attempt))
    <3>1. row'[s] = row[s] \/ Enters(row'[s], row[s], "dead")
      <4>1. Looks(row[s], snap[t][s].attempt) BY <1>w, <2>1
      <4>2. row'[s] = GiveUpWrite(row[s], snap[t][s].attempt) BY <1>0, <2>5, RowWritten
      <4>. QED BY <4>1, <4>2 DEF Looks
    <3>2. \A u \in Step \ {s} : row'[u] = row[u] BY <1>0, <2>5, RowWritten
    <3>. QED BY <1>s, <2>1, <3>1, <3>2, OneRowFails
  <2>. QED
    BY <1>2, <2>2, <2>3, <2>4, <2>5 DEF ResolveSelfDo, ResolveSkip, ResolveNone, Unmoved
<1>3. CASE RuleAccept(t) \/ RuleRetry(t)
  <2>. DEFINE s == cur[t]
  <2>1. s \in Step /\ UNCHANGED <<minted, worker>>
    BY <1>l, <1>3 DEF RuleAccept, RuleRetry, OnlyRow
  <2>2. \/ UNCHANGED row
        \/ row[s].status \in Rulable /\ UpdateRow(s, MarkDoneByCoordinator(row[s]))
        \/ UpdateRow(s, ResetStepToPending(row[s]))
    BY <1>3 DEF RuleAccept, RuleRetry, Unmoved
  <2>. HIDE DEF s
  <2>3. CASE UNCHANGED row BY <1>n, <2>1, <2>3
  <2>4. CASE row[s].status \in Rulable /\ UpdateRow(s, MarkDoneByCoordinator(row[s]))
    <3>1. Looks(row[s], 0) BY <1>w, <2>1, NumberAssumption
    <3>2. /\ row'[s] = MarkDoneByCoordinator(row[s])
          /\ \A u \in Step \ {s} : row'[u] = row[u]
      BY <1>0, <2>1, <2>4, RowWritten
    <3>3. PICK p \in Life!Settled : Enters(row'[s], row[s], p) BY <3>1, <3>2 DEF Looks
    <3>. QED BY <1>r, <2>1, <2>4, <3>2, <3>3
  <2>5. CASE UpdateRow(s, ResetStepToPending(row[s])) /\ row[s].status \in Rulable
    <3>1. Looks(row[s], 0) BY <1>w, <2>1, NumberAssumption
    <3>2. row'[s] = ResetStepToPending(row[s]) /\ \A u \in Step \ {s} : row'[u] = row[u]
      BY <1>0, <2>1, <2>5, RowWritten
    <3>3. Enters(row'[s], row[s], "waiting") BY <2>5, <3>1, <3>2 DEF Looks
    <3>. QED BY <1>r, <2>1, <2>5, <3>2, <3>3
  <2>6. CASE UpdateRow(s, ResetStepToPending(row[s])) /\ row[s].status \notin Rulable
    <3>1. UNCHANGED row BY <1>0, <2>1, <2>6 DEF UpdateRow, ResetStepToPending
    <3>. QED BY <1>n, <2>1, <3>1
  <2>. QED BY <2>2, <2>3, <2>4, <2>5, <2>6
<1>4. CASE RosterReject(t)
  <2>. DEFINE s == cur[t]
  <2>1. /\ s \in Step /\ Acting(t) /\ snap[t][s].status # "done" /\ UNCHANGED <<minted, worker>>
        /\ UpdateRow(s, [row[s] EXCEPT !.status = "failed"])
    BY <1>j, <1>4 DEF RosterReject, OnlyRow, Acting, Claiming
  <2>. HIDE DEF s
  <2>2. Enters(row'[s], row[s], "dead") /\ \A u \in Step \ {s} : row'[u] = row[u]
    <3>1. Looks(row[s], 0) BY <1>w, <2>1, NumberAssumption
    <3>. QED BY <1>0, <2>1, <3>1, RowWritten DEF Looks
  <2>. QED BY <1>s, <2>1, <2>2, OneRowFails
<1>5. CASE Claim(t)
  <2>. DEFINE s == cur[t]
  <2>1. s \in Step /\ Acting(t) /\ snap[t][s].status # "done" /\ UNCHANGED worker
    BY <1>j, <1>5 DEF Claim, Acting, Claiming
  <2>2. CASE UNCHANGED <<row, minted>> BY <1>n, <2>1, <2>2
  <2>3. CASE /\ minted' = [minted EXCEPT ![s] = @ + 1]
             /\ UpdateRow(s, ReserveStep(row[s], minted'[s]))
    <3>. HIDE DEF s
    <3>1. minted'[s] = minted[s] + 1 /\ minted'[s] \in 0 .. MaxAttempt
      BY <1>0, <2>1, <2>3 DEF TickInv, TypeInv, TypeOK
    <3>2. Enters(row'[s], row[s], "leased") /\ \A u \in Step \ {s} : row'[u] = row[u]
      <4>1. Looks(row[s], minted'[s]) BY <1>w, <2>1, <3>1
      <4>. QED BY <1>0, <2>1, <2>3, <4>1, RowWritten DEF Looks
    <3>3. Life!Enter({s}, "leased") BY <2>1, <3>2, RowsEnter DEF SameLook
    <3>4. StartedInOrder' BY DEF TickInv, OrderInv
    <3>5. Deps[s] \subseteq Achieved
      <4>1. \A d \in Deps[s] : d \in Step /\ row'[d].everDone
        BY <1>0, <2>1, <3>1, <3>4, DepsAssumption DEF StartedInOrder
      <4>2. \A d \in Step : row'[d].everDone => row[d].everDone
        BY <3>2 DEF Enters, Life!Settled
      <4>. QED BY <4>1, <4>2 DEF Achieved
    <3>6. AtWork' = AtWork BY <2>1 DEF AtWork
    <3>7. Life!Grant(s) BY <1>s, <2>1, <2>3, <3>3, <3>5, <3>6 DEF Life!Grant
    <3>. QED BY <2>1, <3>7 DEF Life!Next
  <2>. QED BY <1>5, <2>2, <2>3 DEF Claim
<1>6. CASE Spawn(t)
  <2>1. /\ cur[t] \in Step /\ UNCHANGED <<row, minted>>
        /\ worker' = [worker EXCEPT ![cur[t]][minted[cur[t]]] = "starting"]
    BY <1>j, <1>6 DEF Spawn, Claiming
  <2>2. \A u \in Step : \A a \in Attempt :
          worker'[u][a] = "working" => worker[u][a] = "working"
    BY <1>0, <2>1
  <2>. QED BY <2>1, <2>2, OnlyLeave
<1>7. CASE RecordSpawn(t)
  <2>. DEFINE s == cur[t]
  <2>1. /\ s \in Step /\ UNCHANGED <<minted, worker>> /\ minted[s] \in 0 .. MaxAttempt
        /\ UpdateRow(s, [row[s] EXCEPT !.pid = minted[s]])
    BY <1>0, <1>j, <1>7 DEF RecordSpawn, Claiming, OnlyRow
  <2>. HIDE DEF s
  <2>2. SameLook(row'[s], row[s]) /\ \A u \in Step \ {s} : row'[u] = row[u]
    <3>1. Looks(row[s], minted[s]) BY <1>w, <2>1
    <3>. QED BY <1>0, <2>1, <3>1, RowWritten DEF Looks
  <2>3. \A u \in Step : SameLook(row'[u], row[u]) BY <2>2 DEF SameLook
  <2>. QED BY <2>1, <2>3, LooksSame
<1>8. CASE Sweep(t)
  <2>1. CASE task # "cancelled"
    BY <1>n, <1>8, <2>1 DEF Sweep, ToReap
  <2>2. CASE task = "cancelled"
    <3>. DEFINE S == {s \in Step : row[s].status = "running"}
    <3>1. \A s \in Step : row'[s] = HaltStep(row[s]) BY <1>8, <2>2 DEF Sweep, ToReap
    <3>2. \A s \in S : Phase[s] # "sealed"
                       /\ (row'[s] = row[s] \/ Enters(row'[s], row[s], "dead"))
      <4>1. \A s \in S : row'[s] = row[s] \/ Enters(row'[s], row[s], "dead")
        <5>1. \A s \in S : Looks(row[s], 0) BY <1>w, NumberAssumption
        <5>. QED BY <3>1, <5>1 DEF Looks
      <4>. QED BY <4>1 DEF Phase, PhaseOf
    <3>3. \A s \in Step \ S : row'[s] = row[s] BY <3>1 DEF HaltStep
    <3>4. \A s \in Step : \A a \in Attempt :
            KillPid(row[s], worker[s])[a] \in {worker[s][a], "gone"}
      BY <1>0, KillPidKeeps
    <3>5. \A s \in Step : \A a \in Attempt :
            worker'[s][a] = "working" => worker[s][a] = "working"
      <4>1. \A s \in Step : worker'[s] = worker[s] \/ worker'[s] = KillPid(row[s], worker[s])
        BY <1>8, <2>2 DEF Sweep, ToReap
      <4>. QED BY <3>4, <4>1
    <3>6. minted' = minted BY <1>8 DEF Sweep
    <3>. HIDE DEF S
    <3>7. S \subseteq Step BY DEF S
    <3>8. \E T \in SUBSET Step : Life!Fail(T) BY <3>2, <3>3, <3>5, <3>6, <3>7, RowFails
    <3>. QED BY <1>f, <3>8
  <2>. QED BY <2>1, <2>2
<1>9. CASE UNCHANGED <<row, minted, worker>> BY <1>n, <1>9
<1>. QED
  BY <1>1, <1>2, <1>3, <1>4, <1>5, <1>6, <1>7, <1>8, <1>9
     DEF TickStep, TickBegin, PollQuiet, PollRetry, PollClarify, SpendIntervention,
         RuleGiveUp, Dispatch, Aggregate, DeadEnd, NothingToDo, AggregateDone, Conclude,
         OnlyTick, OnlyRow, stepVars

\* A worker begins while the row names it, and ends where the row still does.
LEMMA WorkerLives ==
    ASSUME TypeInv, RowsInOrder, LatestInv, NEW s \in Step, NEW a \in Attempt, WorkerStep(s, a)
    PROVE  Life!Next
<1>0. /\ row \in [Step -> Row] /\ row[s] \in Row /\ (row[s].status = "done" => row[s].everDone)
      /\ worker \in [Step -> [Attempt -> WorkerState]] /\ a # 0
      /\ minted \in [Step -> 0 .. MaxAttempt]
  BY NumberAssumption DEF TypeInv, TypeOK, RowsInOrder, InOrder, Attempt
<1>1. row[s].attempt = a => minted[s] = a BY <1>0 DEF LatestInv
<1>2. CASE WorkerStart(s, a) /\ row[s].status = "running" /\ row[s].attempt = a
  <2>1. /\ worker' = [worker EXCEPT ![s] = [@ EXCEPT ![a] = "working"]]
        /\ UNCHANGED <<row, minted>>
    BY <1>2 DEF WorkerStart
  <2>2. AtWork' = [AtWork EXCEPT ![s] = @ \cup {minted[s]}] BY <1>0, <1>1, <1>2, <2>1 DEF AtWork
  <2>3. Phase[s] = "leased" BY <1>2 DEF Phase, PhaseOf, Pauses, Dead
  <2>4. Phase' = Phase /\ Achieved' = Achieved BY <2>1 DEF Phase, Achieved
  <2>5. Life!Begin(s) BY <2>1, <2>2, <2>3, <2>4 DEF Life!Begin
  <2>. QED BY <2>5 DEF Life!Next
<1>3. CASE \/ WorkerStart(s, a) /\ ~(row[s].status = "running" /\ row[s].attempt = a)
           \/ WorkerCrash(s, a)
  <2>1. worker' = [worker EXCEPT ![s] = [@ EXCEPT ![a] = "gone"]] /\ UNCHANGED <<row, minted>>
    BY <1>3 DEF WorkerStart, WorkerCrash
  <2>2. \A u \in Step : \A b \in Attempt :
          worker'[u][b] = "working" => worker[u][b] = "working"
    BY <1>0, <2>1
  <2>. QED BY <2>1, <2>2, OnlyLeave
<1>4. ASSUME NEW o \in Outcome, WorkerEnd(s, a, o) PROVE Life!Next
  <2>1. /\ worker[s][a] = "working" /\ worker' = [worker EXCEPT ![s] = [@ EXCEPT ![a] = "gone"]]
        /\ UpdateRow(s, SetStepStatus(row[s], a, o)) /\ minted' = minted
    BY <1>4 DEF WorkerEnd
  <2>2. row'[s] = SetStepStatus(row[s], a, o) /\ \A u \in Step \ {s} : row'[u] = row[u]
    BY <2>1, RowWritten
  <2>3. CASE row[s].attempt = a
    <3>1. PICK p \in Life!Ends : Enters(row'[s], row[s], p)
      <4>1. o \in {"done", "needs_decision", "failed", "waiting_clarify", "awaiting_approval"}
        BY OutcomeAssumption DEF WorkerOutcomes
      <4>2. /\ row'[s].status = o /\ row'[s].attempt = a
            /\ row'[s].everDone = (row[s].everDone \/ o = "done")
        BY <1>0, <2>2, <2>3 DEF SetStepStatus, Row
      <4>3. \E p \in Life!Ends : PhaseOf(row'[s]) = p /\ (p \in Life!Settled <=> o = "done")
        BY <1>0, <4>1, <4>2 DEF PhaseOf, Pauses, Dead, Life!Ends, Life!Settled
      <4>. QED BY <4>2, <4>3 DEF Enters
    <3>2. Life!Enter({s}, p) BY <2>2, <3>1, RowsEnter DEF SameLook
    <3>3. Phase[s] \notin {"waiting", "sealed"}
      <4>1. row[s].status \in StepStatus /\ row[s].status # "pending"
        BY <1>0, <2>3 DEF Row, LatestInv
      <4>. QED BY <1>0, <2>3, <4>1 DEF Phase, PhaseOf, StepStatus, Pauses, Dead
    <3>4. minted[s] \in AtWork[s] BY <1>1, <2>1, <2>3 DEF AtWork
    <3>5. AtWork' = [AtWork EXCEPT ![s] = @ \ {minted[s]}]
      BY <1>0, <1>1, <2>1, <2>3 DEF AtWork
    <3>6. Life!End(s, p) BY <2>1, <3>2, <3>3, <3>4, <3>5 DEF Life!End
    <3>. QED BY <3>1, <3>6 DEF Life!Next
  <2>4. CASE row[s].attempt # a
    <3>1. row'[s] = row[s] BY <2>2, <2>4 DEF SetStepStatus
    <3>2. row' = row BY <1>0, <2>1, <3>1 DEF UpdateRow
    <3>3. \A u \in Step : \A b \in Attempt :
            worker'[u][b] = "working" => worker[u][b] = "working"
      BY <1>0, <2>1
    <3>. QED BY <2>1, <3>2, <3>3, OnlyLeave
  <2>. QED BY <2>3, <2>4
<1>. QED BY <1>2, <1>3, <1>4 DEF WorkerStep

\* The clock and the people.
LEMMA OtherLives ==
    ASSUME TypeInv, RowsInOrder, [Next]_vars, \A t \in Ticker : ~TickStep(t),
           \A s \in Step, a \in Attempt : ~WorkerStep(s, a)
    PROVE  Life!Next \/ UNCHANGED Life!life
<1>0. /\ row \in [Step -> Row] /\ \A s \in Step : row[s] \in Row
      /\ \A s \in Step : row[s].status = "done" => row[s].everDone
  BY DEF TypeInv, TypeOK, RowsInOrder, InOrder
<1>w. \A s \in Step : Looks(row[s], 0) BY <1>0, WriteLooks, NumberAssumption
<1>1. CASE UNCHANGED <<row, minted, worker>> BY <1>1, LooksSame DEF SameLook
<1>2. ASSUME NEW s \in Step, (\E a \in Attempt : Heartbeat(s, a)) \/ LeaseExpires(s)
      PROVE  UNCHANGED Life!life
  <2>1. PICK f \in BOOLEAN : UpdateRow(s, [row[s] EXCEPT !.live = f])
    BY <1>2 DEF Heartbeat, LeaseExpires
  <2>2. SameLook(row'[s], row[s]) /\ \A u \in Step \ {s} : row'[u] = row[u]
    <3>1. SameLook([row[s] EXCEPT !.live = f], row[s]) BY <1>w, Zenon DEF Looks
    <3>. QED BY <2>1, <3>1, RowWritten
  <2>3. \A u \in Step : SameLook(row'[u], row[u]) BY <2>2 DEF SameLook
  <2>4. UNCHANGED <<minted, worker>> BY <1>2 DEF Heartbeat, LeaseExpires
  <2>. QED BY <2>3, <2>4, LooksSame
<1>3. ASSUME NEW p \in {"waiting"} \cup Life!Settled, UNCHANGED <<minted, worker>>,
             \A s \in DeadSteps(row) : Enters(row'[s], row[s], p),
             \A s \in Step \ DeadSteps(row) : row'[s] = row[s]
      PROVE  Life!Next
  <2>. DEFINE S == DeadSteps(row)
  <2>1. S \subseteq Step /\ \A s \in S : Phase[s] \in {"judged", "dead"}
    BY DEF DeadSteps, Phase, PhaseOf, Dead, Pauses
  <2>2. Life!Enter(S, p) BY <1>3, <2>1, RowsEnter DEF SameLook
  <2>3. AtWork' = AtWork BY <1>3 DEF AtWork
  <2>. HIDE DEF S
  <2>4. Life!Rule(S, p) BY <1>3, <2>1, <2>2, <2>3 DEF Life!Rule
  <2>. QED BY <1>3, <2>1, <2>4 DEF Life!Next
<1>4. CASE RetryStalled
  <2>1. /\ \A s \in DeadSteps(row) : row'[s] = ResetStepToPending(row[s])
        /\ \A s \in Step \ DeadSteps(row) : row'[s] = row[s]
        /\ UNCHANGED <<minted, worker>>
    BY <1>4 DEF RetryStalled, Revive, DeadSteps
  <2>2. \A s \in DeadSteps(row) : Enters(row'[s], row[s], "waiting")
    BY <1>w, <2>1 DEF Looks, DeadSteps, Rulable
  <2>. QED BY <1>3, <2>1, <2>2
<1>5. CASE DropStalled
  <2>1. /\ \A s \in DeadSteps(row) : row'[s] = MarkStepDropped(row[s])
        /\ \A s \in Step \ DeadSteps(row) : row'[s] = row[s]
        /\ UNCHANGED <<minted, worker>>
    BY <1>5 DEF DropStalled, Revive, DeadSteps
  <2>2. \A s \in DeadSteps(row) : Enters(row'[s], row[s], "sealed")
    BY <1>w, <2>1 DEF Looks, DeadSteps
  <2>3. "sealed" \in {"waiting"} \cup Life!Settled BY DEF Life!Settled
  <2>. QED BY <1>3, <2>1, <2>2, <2>3
<1>. QED
  BY <1>1, <1>2, <1>4, <1>5
     DEF Next, TickCrash, HumanSettles, CancelTask, AcceptStalled, Revive, stepVars, vars

\* Whatever ticks, workers, clock and people do, to those who depend on a step
\* it lives the life of StepLife: its attempts are granted one after the other
\* on inputs achieved, only the latest begins and ends, a ruling settles only
\* what has stopped, and a sealed step is never granted or failed again.
THEOREM StepsLiveTheirLife == Spec => ImplementsStepLife
<1>1. Init => LatestInv /\ DropInv
  BY DEF Init, LatestInv, DropInv, NoSnap, FreshRow, Acting
<1>2. TickInv /\ LatestInv /\ DropInv /\ [Next]_vars => (LatestInv /\ DropInv)'
  BY StepLatest, StepDropped
<1>3. Init => Life!Init
  <2>. SUFFICES ASSUME Init PROVE Life!Init OBVIOUS
  <2>1. Phase = [s \in Step |-> "waiting"]
    BY DEF Init, Phase, PhaseOf, NoSnap, FreshRow, Pauses, Dead
  <2>2. Achieved = {} /\ AtWork = [s \in Step |-> {}]
    BY DEF Init, Achieved, AtWork, NoSnap, FreshRow
  <2>. QED BY <2>1, <2>2 DEF Life!Init, Init
<1>4. TickInv /\ TickInv' /\ LatestInv /\ DropInv /\ [Next]_vars
      => [Life!Next]_(Life!life)
  <2>. SUFFICES ASSUME TickInv, TickInv', LatestInv, DropInv, [Next]_vars
       PROVE  Life!Next \/ UNCHANGED Life!life
    OBVIOUS
  <2>1. TypeInv /\ RowsInOrder BY DEF TickInv, OrderInv
  <2>2. CASE \E t \in Ticker : TickStep(t) BY <2>2, TickLives
  <2>3. CASE \E s \in Step, a \in Attempt : WorkerStep(s, a) BY <2>1, <2>3, WorkerLives
  <2>. QED BY <2>1, <2>2, <2>3, OtherLives
<1>. QED
  BY <1>1, <1>2, <1>3, <1>4, ControlInvariant, PTL DEF Spec, ImplementsStepLife, Life!Spec
=============================================================================
