---------------------------- MODULE TaskConclusion ----------------------------
(***************************************************************************)
(* How a team task of my-crew is concluded and how the CEO comes to hear   *)
(* of it: aggregate_and_deliver and conclude_task_failed write the verdict,*)
(* the status and the outcome of the room post in separate commits; the    *)
(* delivery-retry sweep re-sends what a crash or a failed post left        *)
(* behind; the autopilot sweep climbs its ladder on a stalled task; the    *)
(* CEO may cancel or revive the task between any two of these writes.      *)
(*                                                                         *)
(* Ticks are serialized by the flock (see TeamTaskTick), so one program    *)
(* counter stands for them all; what the steps of the plan do is reduced   *)
(* to which verdict the tick reaches.                                      *)
(***************************************************************************)
EXTENDS Naturals

CONSTANTS
    MaxDeliveryAttempts,   \* delivery_retry_sweep.MAX_DELIVERY_ATTEMPTS
    MaxAutopilotAttempts,  \* autopilot_sweep.MAX_AUTOPILOT_ATTEMPTS
    Autopilot,             \* autopilot on, and the task does not opt out
    MaxReopen,             \* bound: revivals by the CEO
    MaxCrash               \* bound: crashes of a tick process

ASSUME LimitAssumption ==
    MaxDeliveryAttempts \in Nat \ {0} /\ MaxAutopilotAttempts \in Nat
ASSUME BoundAssumption == MaxReopen \in Nat /\ MaxCrash \in Nat
ASSUME AutopilotAssumption == Autopilot \in BOOLEAN

VARIABLES
    status,    \* team_tasks.status
    summary,   \* team_tasks.final_summary
    delivery,  \* team_tasks.delivery_status
    tries,     \* team_tasks.delivery_attempts
    rungs,     \* team_tasks.autopilot_attempts
    reopens,   \* team_tasks.reopen_count: which run of the task this is
    room,      \* the verdicts that were posted to the room
    alarms,    \* how often delivery_failed was escalated
    pc,        \* where the tick stands
    verdict,   \* the summary the tick holds in memory
    landed,    \* whether its last post reached the room
    revived, crashes   \* counters of the bounded actions

columns == <<status, summary, delivery, tries, rungs, reopens>>
world == <<room, alarms>>
local == <<pc, verdict, landed>>
bounds == <<revived, crashes>>
vars == <<columns, world, local, bounds>>

TaskStatus == {"open", "done", "stalled", "cancelled"}
DeliveryStatus == {"not_applicable", "pending", "delivered", "failed"}
TickPC == {"idle", "act", "persist", "settle", "post", "record", "escalate",
           "redeliver", "resend", "mark", "alarm", "autopilot", "rung"}

\* A summary is told apart by how the task ended and in which of its runs.
NoVerdict == [kind |-> "none", run |-> 0]
Verdict == [kind : {"none", "done", "stalled"}, run : Nat]

TypeOK ==
    /\ status \in TaskStatus
    /\ summary \in Verdict
    /\ delivery \in DeliveryStatus
    /\ tries \in 0 .. MaxDeliveryAttempts
    /\ rungs \in 0 .. MaxAutopilotAttempts
    /\ reopens \in Nat
    /\ room \subseteq Verdict
    /\ alarms \in Nat
    /\ pc \in TickPC
    /\ verdict \in Verdict
    /\ landed \in BOOLEAN
    /\ revived \in Nat /\ crashes \in Nat

Init ==
    /\ status = "open"
    /\ summary = NoVerdict
    /\ delivery = "not_applicable"
    /\ tries = 0 /\ rungs = 0 /\ reopens = 0
    /\ room = {}
    /\ alarms = 0
    /\ pc = "idle"
    /\ verdict = NoVerdict
    /\ landed = FALSE
    /\ revived = 0 /\ crashes = 0

Goto(p) == pc' = p /\ UNCHANGED <<verdict, landed>>

----------------------------------------------------------------------------
(* The action of the tick: conclude the run, or do something else with it. *)

TickBegin ==
    /\ pc = "idle"
    /\ Goto(IF status = "open" THEN "act" ELSE "redeliver")
    /\ UNCHANGED <<columns, world, bounds>>

\* Nothing to conclude: a spawn, a poll, a ruling.
WorkOn ==
    /\ pc = "act"
    /\ Goto("redeliver")
    /\ UNCHANGED <<columns, world, bounds>>

\* All steps are done, or no step can go on.
Decide(kind) ==
    /\ pc = "act"
    /\ verdict' = [kind |-> kind, run |-> reopens]
    /\ pc' = "persist"
    /\ UNCHANGED <<landed, columns, world, bounds>>

\* The cost cap is breached: the status is stalled before anything else.
CapBreach ==
    /\ pc = "act"
    /\ status' = "stalled"
    /\ verdict' = [kind |-> "stalled", run |-> reopens]
    /\ pc' = "persist"
    /\ UNCHANGED <<summary, delivery, tries, rungs, reopens, landed, world, bounds>>

\* Mutant: the delivery of the run before is taken for the delivery of this one.
PersistKeepingDelivery ==
    /\ pc = "persist"
    /\ summary' = verdict
    /\ Goto("settle")
    /\ UNCHANGED <<status, delivery, tries, rungs, reopens, world, bounds>>

\* Mutant: the summary of an earlier run is kept.
PersistOnce ==
    /\ pc = "persist"
    /\ summary' = IF summary = NoVerdict THEN verdict ELSE summary
    /\ delivery' = "pending"
    /\ Goto("settle")
    /\ UNCHANGED <<status, tries, rungs, reopens, world, bounds>>

\* set_delivery pending, with the summary.
Persist ==
    /\ pc = "persist"
    /\ summary' = verdict
    /\ delivery' = "pending"
    /\ Goto("settle")
    /\ UNCHANGED <<status, tries, rungs, reopens, world, bounds>>

\* set_task_status, whatever the status has become.
Settle ==
    /\ pc = "settle"
    /\ status' = verdict.kind
    /\ Goto("post")
    /\ UNCHANGED <<summary, delivery, tries, rungs, reopens, world, bounds>>

\* deliver_room reports whether the milestone landed.
Deliver(next) ==
    /\ landed' \in BOOLEAN
    /\ room' = IF landed' THEN room \cup {verdict} ELSE room
    /\ pc' = next
    /\ UNCHANGED <<verdict, columns, alarms, bounds>>

Post == pc = "post" /\ Deliver("record")

Delivered == IF landed THEN "delivered" ELSE "failed"

Record ==
    /\ pc = "record"
    /\ delivery' = Delivered
    /\ Goto(IF verdict.kind = "stalled" THEN "escalate" ELSE "redeliver")
    /\ UNCHANGED <<status, summary, tries, rungs, reopens, world, bounds>>

\* conclude_task_failed alone raises its event after the room post.
Escalate ==
    /\ pc = "escalate"
    /\ Goto("redeliver")
    /\ UNCHANGED <<columns, world, bounds>>

----------------------------------------------------------------------------
(* run_delivery_retry_sweep. *)

\* Mutant: only posts that were seen to fail are sent again.
UndeliveredFailed == status = "done" /\ delivery = "failed"

\* list_undelivered.
Undelivered == status = "done" /\ delivery \in {"pending", "failed"}

\* Mutant: the cap is compared one attempt too late.
TriesLeftOver == tries <= MaxDeliveryAttempts

TriesLeft == tries < MaxDeliveryAttempts

\* The attempt is counted before the summary is sent again.
Redeliver ==
    /\ pc = "redeliver"
    /\ Undelivered /\ TriesLeft
    /\ tries' = tries + 1
    /\ verdict' = summary
    /\ pc' = "resend"
    /\ UNCHANGED <<status, summary, delivery, rungs, reopens, landed, world, bounds>>

NothingToRedeliver ==
    /\ pc = "redeliver"
    /\ ~(Undelivered /\ TriesLeft)
    /\ Goto("autopilot")
    /\ UNCHANGED <<columns, world, bounds>>

Resend == pc = "resend" /\ Deliver("mark")

Mark ==
    /\ pc = "mark"
    /\ delivery' = Delivered
    /\ Goto(IF ~landed /\ tries >= MaxDeliveryAttempts THEN "alarm" ELSE "autopilot")
    /\ UNCHANGED <<status, summary, tries, rungs, reopens, world, bounds>>

Alarm ==
    /\ pc = "alarm"
    /\ alarms' = alarms + 1
    /\ Goto("autopilot")
    /\ UNCHANGED <<room, columns, bounds>>

----------------------------------------------------------------------------
(* run_autopilot_sweep. *)

\* Faulty: the rung is not counted.
TakeRungUncounted ==
    /\ pc = "autopilot"
    /\ Autopilot /\ status = "stalled" /\ delivery # "delivered"
    /\ Goto("rung")
    /\ UNCHANGED <<columns, world, bounds>>

\* The rung is spent before it is tried.
TakeRung ==
    /\ pc = "autopilot"
    /\ Autopilot /\ status = "stalled" /\ delivery # "delivered"
    /\ rungs < MaxAutopilotAttempts
    /\ rungs' = rungs + 1
    /\ Goto("rung")
    /\ UNCHANGED <<status, summary, delivery, tries, reopens, world, bounds>>

NoRung ==
    /\ pc = "autopilot"
    /\ ~ /\ Autopilot /\ status = "stalled" /\ delivery # "delivered"
         /\ rungs < MaxAutopilotAttempts
    /\ Goto("idle")
    /\ UNCHANGED <<columns, world, bounds>>

\* reopen_stalled.
Reopen ==
    /\ status = "stalled"
    /\ status' = "open"
    /\ reopens' = reopens + 1
    /\ UNCHANGED <<summary, delivery, tries, rungs, world>>

\* Retry, replan, accept or drop: the handler revives the task or refuses.
Rung ==
    /\ pc = "rung"
    /\ Reopen \/ UNCHANGED <<columns, world>>
    /\ Goto("idle")
    /\ UNCHANGED bounds

TickStep ==
    \/ TickBegin \/ WorkOn \/ Decide("done") \/ Decide("stalled") \/ CapBreach
    \/ Persist \/ Settle \/ Post \/ Record \/ Escalate
    \/ Redeliver \/ NothingToRedeliver \/ Resend \/ Mark \/ Alarm
    \/ TakeRung \/ NoRung \/ Rung

----------------------------------------------------------------------------
(* Crashes, and the CEO. *)

TickCrash ==
    /\ pc # "idle"
    /\ crashes < MaxCrash
    /\ crashes' = crashes + 1
    /\ pc' = "idle" /\ verdict' = NoVerdict /\ landed' = FALSE
    /\ UNCHANGED <<columns, world, revived>>

Revive ==
    /\ revived < MaxReopen
    /\ revived' = revived + 1
    /\ Reopen
    /\ UNCHANGED <<local, crashes>>

CancelTask ==
    /\ status \in {"open", "stalled"}
    /\ status' = "cancelled"
    /\ UNCHANGED <<summary, delivery, tries, rungs, reopens, world, local, bounds>>

Next == TickStep \/ TickCrash \/ Revive \/ CancelTask

Spec == Init /\ [][Next]_vars

\* The minute cadence runs ticks for ever.
Fairness == WF_vars(TickStep)
FairSpec == Spec /\ Fairness

----------------------------------------------------------------------------
(* Properties that hold. *)

\* delivery_status never says delivered of a verdict that is not in the room:
\* not of the verdict of a revived run, not after a crash in mid-delivery.
DeliveredWasPosted == delivery = "delivered" => summary \in room

\* A done task holds the answer of its own last run, so the sweep never has to
\* re-run the aggregate and never sends the failure note of an earlier run.
DoneHasAnswer == status = "done" => summary = [kind |-> "done", run |-> reopens]

\* delivery_failed is escalated at most once, whatever crashes in between.
AlarmOnce == alarms <= 1

\* A done task gets told, or every attempt at it has been spent: a crash
\* between the status and the delivery write is picked up by the sweep.
DoneIsTold ==
    status = "done" ~> delivery = "delivered" \/ tries = MaxDeliveryAttempts

\* A stall nobody was told of does not wait for ever with autopilot on: its
\* note lands after all, the ladder resolves it, or every rung has been tried.
UntoldStallResolves ==
    (Autopilot /\ status = "stalled" /\ delivery # "delivered")
        ~> (status # "stalled" \/ delivery = "delivered" \/ rungs = MaxAutopilotAttempts)
=============================================================================
