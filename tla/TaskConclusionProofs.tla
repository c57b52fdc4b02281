------------------------- MODULE TaskConclusionProofs -------------------------
(***************************************************************************)
(* What the columns of a concluded task say is true, for every limit of    *)
(* the sweeps and however often ticks crash.                               *)
(***************************************************************************)
EXTENDS TaskConclusion, TLAPS

\* The summary a tick holds while it writes or posts is the one on the row.
HoldsSummary ==
    /\ pc \in {"settle", "post", "record", "resend", "mark"} => verdict = summary
    /\ pc \in {"record", "mark"} /\ landed => verdict \in room

\* A tick that is about to conclude runs for a task that is not done, and the
\* run it aggregated is still the current one: only a stalled task is revived.
Concluding ==
    /\ pc \in {"act", "persist", "settle"} => status # "done"
    /\ pc \in {"persist", "settle"} => verdict.kind \in {"done", "stalled"}
    /\ pc \in {"persist", "settle"} /\ verdict.kind = "done"
           => status \in {"open", "cancelled"} /\ verdict.run = reopens
    /\ pc = "act" => status \in {"open", "cancelled"}

\* The alarm goes with the last attempt, and the attempts are counted.
AlarmCounted ==
    /\ alarms = 0 \/ (alarms = 1 /\ tries = MaxDeliveryAttempts)
    /\ pc \in {"resend", "mark", "alarm"} => alarms = 0
    /\ pc = "alarm" => tries = MaxDeliveryAttempts

\* The inductive invariant.
ConclusionInv ==
    /\ TypeOK /\ HoldsSummary /\ Concluding /\ AlarmCounted
    /\ DeliveredWasPosted /\ DoneHasAnswer

\* A tick that starts or dies holds no summary, which is typed.
LEMMA NoVerdictType == NoVerdict \in Verdict
BY DEF NoVerdict, Verdict

\* Every step keeps the types: the sweeps stop counting at their caps.
LEMMA NextTypes ==
    ASSUME TypeOK, Concluding, [Next]_vars
    PROVE  TypeOK'
<1>. USE DEF Concluding, TypeOK, TaskStatus, DeliveryStatus, TickPC,
            columns, world, local, bounds
<1>1. CASE TickBegin BY <1>1 DEF TickBegin, Goto
<1>2. CASE WorkOn BY <1>2 DEF WorkOn, Goto
<1>3. CASE Decide("done") BY <1>3 DEF Verdict, Decide
<1>4. CASE Decide("stalled") BY <1>4 DEF Verdict, Decide
<1>5. CASE CapBreach BY <1>5 DEF Verdict, CapBreach
<1>6. CASE Persist BY <1>6 DEF Persist, Goto
<1>7. CASE Settle BY <1>7 DEF Verdict, Settle, Goto
<1>8. CASE Post BY <1>8 DEF Post, Deliver
<1>9. CASE Record BY <1>9 DEF Record, Delivered, Goto
<1>10. CASE Escalate BY <1>10 DEF Escalate, Goto
<1>11. CASE Redeliver
  BY <1>11, LimitAssumption DEF Redeliver, Undelivered, TriesLeft
<1>12. CASE NothingToRedeliver BY <1>12 DEF NothingToRedeliver, Goto
<1>13. CASE Resend BY <1>13 DEF Resend, Deliver
<1>14. CASE Mark BY <1>14 DEF Mark, Delivered, Goto
<1>15. CASE Alarm BY <1>15 DEF Alarm, Goto
<1>16. CASE TakeRung BY <1>16, LimitAssumption DEF TakeRung, Goto
<1>17. CASE NoRung BY <1>17 DEF NoRung, Goto
<1>18. CASE Rung BY <1>18 DEF Rung, Reopen, Goto
<1>19. CASE TickCrash
  <2>1. landed' \in BOOLEAN /\ verdict' \in Verdict
    BY <1>19, NoVerdictType, Zenon DEF TickCrash
  <2>. QED BY <1>19, <2>1 DEF TickCrash
<1>20. CASE Revive BY <1>20 DEF Revive, Reopen
<1>21. CASE CancelTask BY <1>21 DEF CancelTask
<1>22. CASE UNCHANGED vars BY <1>22 DEF vars
<1>. QED
  BY <1>1, <1>2, <1>3, <1>4, <1>5, <1>6, <1>7, <1>8, <1>9, <1>10, <1>11, <1>12,
     <1>13, <1>14, <1>15, <1>16, <1>17, <1>18, <1>19, <1>20, <1>21, <1>22
     DEF Next, TickStep

\* What the tick posts is what the row holds, and what it says landed is in the room.
LEMMA NextHolds ==
    ASSUME TypeOK, HoldsSummary, [Next]_vars
    PROVE  HoldsSummary'
<1>. USE DEF HoldsSummary, columns, world, local, bounds
<1>1. CASE Persist BY <1>1 DEF Persist, Goto
<1>2. CASE Settle \/ Record \/ Mark
  BY <1>2 DEF Settle, Goto, Record, Delivered, Mark
<1>3. CASE Post \/ Resend BY <1>3 DEF Post, Deliver, Resend
<1>4. CASE Redeliver BY <1>4 DEF Redeliver, Undelivered, TriesLeft
<1>5. CASE TickBegin \/ WorkOn \/ Decide("done") \/ Decide("stalled") \/ CapBreach
          \/ Escalate \/ NothingToRedeliver \/ Alarm \/ TakeRung \/ NoRung \/ Rung
          \/ TickCrash \/ Revive \/ CancelTask
  BY <1>5 DEF TickBegin, Goto, WorkOn, Decide, CapBreach, Escalate,
         NothingToRedeliver, Alarm, TakeRung, NoRung, Rung, Reopen, TickCrash,
         Revive, CancelTask
<1>6. CASE UNCHANGED vars BY <1>6 DEF vars
<1>. QED BY <1>1, <1>2, <1>3, <1>4, <1>5, <1>6 DEF Next, TickStep

\* The run a tick concludes cannot be revived, or done, under its hands.
LEMMA NextConcluding ==
    ASSUME TypeOK, Concluding, [Next]_vars
    PROVE  Concluding'
<1>. USE DEF Concluding, columns, world, local, bounds
<1>1. CASE TickBegin BY <1>1 DEF TickBegin, Goto
<1>2. CASE Decide("done") \/ Decide("stalled") \/ CapBreach
  BY <1>2 DEF Decide, CapBreach
<1>3. CASE Persist \/ Settle BY <1>3 DEF Persist, Goto, Settle
<1>4. CASE Rung \/ Revive \/ CancelTask
  BY <1>4 DEF Rung, Reopen, Goto, Revive, CancelTask
<1>5. CASE WorkOn \/ Post \/ Record \/ Escalate \/ Redeliver \/ NothingToRedeliver
          \/ Resend \/ Mark \/ Alarm \/ TakeRung \/ NoRung \/ TickCrash
  BY <1>5 DEF WorkOn, Goto, Post, Deliver, Record, Delivered, Escalate, Redeliver,
         Undelivered, TriesLeft, NothingToRedeliver, Resend, Mark, Alarm, TakeRung,
         NoRung, TickCrash
<1>6. CASE UNCHANGED vars BY <1>6 DEF vars
<1>. QED BY <1>1, <1>2, <1>3, <1>4, <1>5, <1>6 DEF Next, TickStep

\* Each attempt is counted before it is made, so the last one comes once.
LEMMA NextAlarm ==
    ASSUME TypeOK, AlarmCounted, [Next]_vars
    PROVE  AlarmCounted'
<1>. USE DEF TypeOK, AlarmCounted, columns, world, local, bounds
<1>1. CASE Redeliver BY <1>1 DEF Redeliver, Undelivered, TriesLeft
<1>2. CASE Mark BY <1>2, LimitAssumption DEF Mark, Delivered, Goto
<1>3. CASE Alarm BY <1>3 DEF Alarm, Goto
<1>4. CASE TickBegin \/ WorkOn \/ Decide("done") \/ Decide("stalled") \/ CapBreach
          \/ Persist \/ Settle \/ Post \/ Record \/ Escalate \/ NothingToRedeliver
          \/ Resend \/ TakeRung \/ NoRung \/ Rung \/ TickCrash \/ Revive \/
          CancelTask
  BY <1>4 DEF TickBegin, Goto, WorkOn, Decide, CapBreach, Persist, Settle, Post,
         Deliver, Record, Delivered, Escalate, NothingToRedeliver, Resend, TakeRung,
         NoRung, Rung, Reopen, TickCrash, Revive, CancelTask
<1>5. CASE UNCHANGED vars BY <1>5 DEF vars
<1>. QED BY <1>1, <1>2, <1>3, <1>4, <1>5 DEF Next, TickStep

\* A delivery is recorded of a summary that landed, and reset with the summary.
LEMMA NextDelivered ==
    ASSUME HoldsSummary, DeliveredWasPosted, [Next]_vars
    PROVE  DeliveredWasPosted'
<1>. USE DEF HoldsSummary, DeliveredWasPosted, columns, world, local, bounds
<1>1. CASE Persist BY <1>1 DEF Persist, Goto
<1>2. CASE Post \/ Resend BY <1>2 DEF Post, Deliver, Resend
<1>3. CASE Record \/ Mark BY <1>3 DEF Record, Delivered, Goto, Mark
<1>4. CASE TickBegin \/ WorkOn \/ Decide("done") \/ Decide("stalled") \/ CapBreach
          \/ Settle \/ Escalate \/ Redeliver \/ NothingToRedeliver \/ Alarm \/
          TakeRung \/ NoRung \/ Rung \/ TickCrash \/ Revive \/ CancelTask
  BY <1>4 DEF TickBegin, Goto, WorkOn, Decide, CapBreach, Settle, Escalate,
         Redeliver, Undelivered, TriesLeft, NothingToRedeliver, Alarm, TakeRung,
         NoRung, Rung, Reopen, TickCrash, Revive, CancelTask
<1>5. CASE UNCHANGED vars BY <1>5 DEF vars
<1>. QED BY <1>1, <1>2, <1>3, <1>4, <1>5 DEF Next, TickStep

\* The status turns done over the answer that has just been persisted.
LEMMA NextAnswer ==
    ASSUME TypeOK, HoldsSummary, Concluding, DoneHasAnswer, [Next]_vars
    PROVE  DoneHasAnswer'
<1>. USE DEF TypeOK, Verdict, HoldsSummary, Concluding, DoneHasAnswer, columns, world, local, bounds
<1>1. CASE Persist BY <1>1 DEF Persist, Goto
<1>2. CASE Settle BY <1>2 DEF Settle, Goto
<1>3. CASE Rung \/ Revive \/ CancelTask
  BY <1>3 DEF Rung, Reopen, Goto, Revive, CancelTask
<1>4. CASE TickBegin \/ WorkOn \/ Decide("done") \/ Decide("stalled") \/ CapBreach
          \/ Post \/ Record \/ Escalate \/ Redeliver \/ NothingToRedeliver \/ Resend
          \/ Mark \/ Alarm \/ TakeRung \/ NoRung \/ TickCrash
  BY <1>4 DEF TickBegin, Goto, WorkOn, Decide, CapBreach, Post, Deliver, Record,
         Delivered, Escalate, Redeliver, Undelivered, TriesLeft, NothingToRedeliver,
         Resend, Mark, Alarm, TakeRung, NoRung, TickCrash
<1>5. CASE UNCHANGED vars BY <1>5 DEF vars
<1>. QED BY <1>1, <1>2, <1>3, <1>4, <1>5 DEF Next, TickStep

\* An open task with no verdict.
LEMMA InitConclusion == Init => ConclusionInv
<1>. SUFFICES ASSUME Init PROVE ConclusionInv OBVIOUS
<1>. USE DEF Init
<1>0. landed \in BOOLEAN /\ verdict \in Verdict /\ summary \in Verdict
  BY NoVerdictType, Zenon
<1>1. TypeOK
  BY <1>0, LimitAssumption DEF TypeOK, TaskStatus, DeliveryStatus, TickPC
<1>2. HoldsSummary /\ Concluding /\ AlarmCounted
  BY DEF HoldsSummary, Concluding, AlarmCounted
<1>3. DeliveredWasPosted /\ DoneHasAnswer BY DEF DeliveredWasPosted, DoneHasAnswer
<1>. QED BY <1>1, <1>2, <1>3 DEF ConclusionInv

\* The inductive invariant behind the theorems below.
THEOREM ConclusionInvariant == Spec => []ConclusionInv
<1>1. ConclusionInv /\ [Next]_vars => ConclusionInv'
  BY NextTypes, NextHolds, NextConcluding, NextAlarm, NextDelivered, NextAnswer
  DEF ConclusionInv
<1>. QED BY InitConclusion, <1>1, PTL DEF Spec

\* The columns and counters stay within their types, whatever the limits are:
\* neither sweep counts past its own.
THEOREM ConclusionTypes == Spec => []TypeOK
<1>1. ConclusionInv => TypeOK BY DEF ConclusionInv
<1>. QED BY ConclusionInvariant, <1>1, PTL

\* delivery_status never claims a delivery of a verdict that is not in the room,
\* through every crash, failed post, retry and revival.
THEOREM DeliveriesArePosted == Spec => []DeliveredWasPosted
<1>1. ConclusionInv => DeliveredWasPosted BY DEF ConclusionInv
<1>. QED BY ConclusionInvariant, <1>1, PTL

\* A done task holds the answer of the run that was completed, not a note of an
\* earlier run that failed, whenever the CEO revived or cancelled it.
THEOREM DoneTaskHasAnswer == Spec => []DoneHasAnswer
<1>1. ConclusionInv => DoneHasAnswer BY DEF ConclusionInv
<1>. QED BY ConclusionInvariant, <1>1, PTL

\* The delivery_failed alarm never repeats.
THEOREM AlarmIsRaisedOnce == Spec => []AlarmOnce
<1>1. ConclusionInv => AlarmOnce BY DEF ConclusionInv, AlarmCounted, AlarmOnce
<1>. QED BY ConclusionInvariant, <1>1, PTL
=============================================================================
