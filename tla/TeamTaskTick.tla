---------------------------- MODULE TeamTaskTick ----------------------------
(***************************************************************************)
(* One team task of my-crew: the step rows in SQLite, the coordinator tick *)
(* that polls, rules on, dispatches and concludes them from a snapshot it  *)
(* read when it began, the detached worker processes that run one attempt  *)
(* of a step each, and the CEO, who can cancel the task or revive it once  *)
(* it has stalled.                                                         *)
(*                                                                         *)
(* Ticks are separate OS processes (a minute cadence and a poked one) that *)
(* share a non-blocking flock.  Workers outlive the tick that spawned      *)
(* them.  Every write is one guarded SQL UPDATE, so a write is a step and  *)
(* everything between two writes can interleave with the other processes.  *)
(***************************************************************************)
EXTENDS Naturals, FiniteSets

CONSTANTS
    Step,              \* the steps of the plan, numbered by their seq
    Deps,              \* Deps[s]: the steps whose results s consumes
    Ticker,            \* processes that run a team-tick
    NoTicker,          \* the value of lock when no tick holds the flock
    MaxStepRetries,    \* tick_actions.MAX_STEP_RETRIES
    MaxInterventions,  \* stuck_decision.MAX_INTERVENTIONS
    Concurrency,       \* company.team_task_concurrency
    SelfDo,            \* whether the coordinator may write a step itself
    FinalDeliverable,  \* steps whose artifact is the answer of the task
    PicTerminal,       \* the closing step owned by the PIC, if any
    Drifting,          \* steps whose assignee may lose its role at any time
    Outcome,           \* how a worker may end: see WorkerOutcomes
    MaxAttempt,        \* bound: attempt ids per step
    MaxReopen,         \* bound: CEO revivals of a stalled task
    MaxAsk,            \* bound: pauses of a step on a human
    MaxCrash           \* bound: crashes of a tick process

WorkerOutcomes ==
    {"done", "needs_decision", "failed", "waiting_clarify", "awaiting_approval"}

ASSUME StepAssumption == Step \subseteq Nat \ {0} /\ IsFiniteSet(Step)
ASSUME DepsAssumption == Deps \in [Step -> SUBSET Step]
ASSUME AcyclicAssumption == \A s \in Step : \A d \in Deps[s] : d < s
ASSUME TickerAssumption == NoTicker \notin Ticker
ASSUME OutcomeAssumption == Outcome \subseteq WorkerOutcomes
ASSUME NumberAssumption ==
    /\ MaxStepRetries \in Nat /\ MaxInterventions \in Nat
    /\ Concurrency \in Nat \ {0}
    /\ MaxAttempt \in Nat /\ MaxReopen \in Nat /\ MaxAsk \in Nat /\ MaxCrash \in Nat

ASSUME SwitchAssumption ==
    /\ SelfDo \in BOOLEAN
    /\ FinalDeliverable \subseteq Step /\ PicTerminal \subseteq Step
    /\ Drifting \subseteq Step

VARIABLES
    task,       \* team_tasks.status
    row,        \* team_steps: one record per step
    minted,     \* how many attempt ids reserve_step has minted for a step
    worker,     \* worker[s][a]: the process that runs attempt a of step s
    retries,    \* the retry sidecar file (dead-process retries per step)
    interv,     \* team_steps.intervention_count
    answered,   \* steps whose question or approval a human has settled
    asked,      \* how often a step has paused on a human
    lock,       \* the tick that holds team_tick.lock
    pc,         \* pc[t]: where tick t stands
    snap,       \* snap[t]: the rows as tick t read them
    todo,       \* todo[t]: the steps tick t has still to look at
    cur,        \* cur[t]: the step it is acting on, 0 if none
    slots,      \* slots[t]: spawns still allowed in this tick
    reopened, crashes   \* counters of the bounded actions

tickVars == <<lock, pc, snap, todo, cur, slots>>
stepVars == <<row, minted, worker, retries, interv, answered, asked>>
boundVars == <<reopened, crashes>>
vars == <<task, stepVars, tickVars, boundVars>>

----------------------------------------------------------------------------
(* Types. *)

TaskStatus == {"open", "done", "stalled", "cancelled"}
StepStatus == {"pending", "running", "awaiting_approval", "waiting_clarify",
               "done", "needs_decision", "failed", "timeout"}
WorkerState == {"none", "starting", "working", "gone"}
TickPC == {"idle", "visit", "rule", "resolve", "claim", "spawn", "record",
           "aggregate", "conclude", "sweep"}
Attempt == 1 .. MaxAttempt

\* attempt and pid are 0 for NULL; pid names the attempt whose process it is.
\* live: the lease has not run out; outcome: outcome_ref is set.
\* everDone is history: the step has been done at some time.
Row == [status : StepStatus, attempt : 0 .. MaxAttempt, pid : 0 .. MaxAttempt,
        live : BOOLEAN, outcome : BOOLEAN, everDone : BOOLEAN]
FreshRow == [status |-> "pending", attempt |-> 0, pid |-> 0,
             live |-> FALSE, outcome |-> FALSE, everDone |-> FALSE]
NoSnap == [s \in Step |-> FreshRow]

TypeOK ==
    /\ task \in TaskStatus
    /\ row \in [Step -> Row]
    /\ minted \in [Step -> 0 .. MaxAttempt]
    /\ worker \in [Step -> [Attempt -> WorkerState]]
    /\ retries \in [Step -> Nat]
    /\ interv \in [Step -> Nat]
    /\ answered \subseteq Step
    /\ asked \in [Step -> Nat]
    /\ lock \in Ticker \cup {NoTicker}
    /\ pc \in [Ticker -> TickPC]
    /\ snap \in [Ticker -> [Step -> Row]]
    /\ todo \in [Ticker -> SUBSET Step]
    /\ cur \in [Ticker -> Step \cup {0}]
    /\ slots \in [Ticker -> Nat]
    /\ reopened \in Nat /\ crashes \in Nat

Init ==
    /\ task = "open"
    /\ row = NoSnap
    /\ minted = [s \in Step |-> 0]
    /\ worker = [s \in Step |-> [a \in Attempt |-> "none"]]
    /\ retries = [s \in Step |-> 0]
    /\ interv = [s \in Step |-> 0]
    /\ answered = {}
    /\ asked = [s \in Step |-> 0]
    /\ lock = NoTicker
    /\ pc = [t \in Ticker |-> "idle"]
    /\ snap = [t \in Ticker |-> NoSnap]
    /\ todo = [t \in Ticker |-> {}]
    /\ cur = [t \in Ticker |-> 0]
    /\ slots = [t \in Ticker |-> 0]
    /\ reopened = 0 /\ crashes = 0

----------------------------------------------------------------------------
(* The guarded UPDATEs of TeamTaskStore, as functions of the row. *)

Dead == {"failed", "timeout"}
Rulable == Dead \cup {"needs_decision"}

\* Mutant: the terminal write without its attempt guard.
SetStepStatusUnfenced(r, a, st) ==
    [r EXCEPT !.status = st,
              !.outcome = @ \/ st \in {"done", "needs_decision"},
              !.everDone = @ \/ st = "done"]

\* A worker's terminal write: fenced by the attempt id, not by the status.
SetStepStatus(r, a, st) ==
    IF r.attempt # a THEN r
    ELSE [r EXCEPT !.status = st,
                   !.outcome = @ \/ st \in {"done", "needs_decision"},
                   !.everDone = @ \/ st = "done"]

\* The attempt guard of the ticker's writes; a NULL attempt id guards nothing.
Fenced(r, a) == a # 0 => r.attempt = a

\* The ticker's mark_failed and mark_timeout: that guard, and no outcome.
MarkDead(r, a, st) == IF Fenced(r, a) THEN [r EXCEPT !.status = st] ELSE r

\* The narrowed claim of reserve_step: still pending for a first dispatch,
\* still the attempt the tick read for every other one.
Claimable(r, seen) ==
    IF seen.status = "pending" THEN r.status = "pending"
    ELSE Fenced(r, seen.attempt)

\* reserve_step keeps child_pid and outcome_ref of the earlier attempt.
ReserveStep(r, a) ==
    [r EXCEPT !.status = "running", !.attempt = a, !.live = TRUE]

ResetStepToPending(r) ==
    IF r.status \notin Rulable THEN r
    ELSE [r EXCEPT !.status = "pending", !.attempt = 0, !.pid = 0, !.live = FALSE]

\* Both coordinator writes need a dead or judged row on the attempt it read.
Unmoved(r, a) == r.status \in Rulable /\ Fenced(r, a)

MarkStepDropped(r) ==
    [r EXCEPT !.status = "done", !.attempt = 0, !.outcome = TRUE, !.everDone = TRUE]

MarkDoneByCoordinator(r) ==
    [r EXCEPT !.status = "done", !.outcome = TRUE, !.everDone = TRUE]

\* mark_failed on the attempt it read, then mark_failed_if_pending.
GiveUpWrite(r, a) ==
    IF Fenced(r, a) \/ r.status = "pending"
    THEN [r EXCEPT !.status = "failed"] ELSE r

\* Mutant: the brake writes a status of the task into the step row.
HaltStepAsTask(r) ==
    IF r.status = "running" THEN [r EXCEPT !.status = "cancelled"] ELSE r

HaltStep(r) == IF r.status = "running" THEN [r EXCEPT !.status = "failed"] ELSE r

----------------------------------------------------------------------------
(* What a tick concludes from its snapshot. *)

\* Steps a tick visits before it dispatches, in this order of status.
Rank(st) == CASE st = "running" -> 1
              [] st = "waiting_clarify" -> 2
              [] st = "needs_decision" -> 3
              [] OTHER -> 0

\* An awaiting_approval row is visited only with an approval_id, and the
\* worker's mark_awaiting_approval never writes one.
ToVisit(seen) == {s \in Step : Rank(seen[s].status) > 0}

First(seen, S, s) ==
    /\ s \in S
    /\ \A u \in S \ {s} : \/ Rank(seen[s].status) < Rank(seen[u].status)
                          \/ /\ Rank(seen[s].status) = Rank(seen[u].status)
                             /\ s < u

\* Mutant: every pending step is ready.
AllPendingSteps(seen) == {s \in Step : seen[s].status = "pending"}

ReadyPendingSteps(seen) ==
    {s \in Step : /\ seen[s].status = "pending"
                  /\ \A d \in Deps[s] : seen[d].status = "done"}

\* Mutant: the running steps do not count.
AllSlots(seen) == Concurrency

FreeSlots(seen) ==
    LET running == Cardinality({s \in Step : seen[s].status = "running"})
    IN  IF running < Concurrency THEN Concurrency - running ELSE 0

DeadSteps(seen) == {s \in Step : seen[s].status \in Dead}

InFlight(seen) ==
    \E s \in Step : seen[s].status \in
        {"running", "awaiting_approval", "waiting_clarify", "needs_decision"}

AllDone(seen) == \A s \in Step : seen[s].status = "done"

\* The pid probe at poll time.  A number no process holds is dead; one the
\* system has given to another process looks alive, so a gone worker may too.
LooksDead(seen, s) ==
    seen[s].pid # 0 => worker[s][seen[s].pid] = "gone"
MayLookAlive(seen, s) == seen[s].pid # 0

InterventionCap(s) ==
    IF SelfDo /\ s \in FinalDeliverable THEN 1 ELSE MaxInterventions

\* A step whose gap its dependents can carry: someone consumes it, and some
\* other step is still alive.
Skippable(seen, s) ==
    /\ \E u \in Step : s \in Deps[u]
    /\ \E u \in Step \ {s} : seen[u].status \in
           {"pending", "running", "awaiting_approval", "waiting_clarify",
            "needs_decision"}

\* Mutant: an expired lease marks the row but kills nothing.
SparePid(r, w) == w

\* kill_pid signals only a process that carries the
\* attempt id of the row, so a pid of an earlier attempt spares the worker.
KillPid(r, w) ==
    IF r.pid # 0 /\ r.pid = r.attempt /\ w[r.pid] # "none"
    THEN [w EXCEPT ![r.pid] = "gone"] ELSE w

----------------------------------------------------------------------------
(* The tick.  Steps of one tick only ever follow one another; between any  *)
(* two of them workers, the CEO and the clock may act.                     *)

UpdateRow(s, r) == row' = [row EXCEPT ![s] = r]

\* What an action of a tick leaves alone when it writes one row, or none.
OnlyRow == UNCHANGED <<task, minted, worker, retries, interv, answered, asked,
                       lock, boundVars>>
OnlyTick == row' = row /\ OnlyRow

\* The action part is over: go to the sweeps that end every tick.
Finish(t) ==
    /\ pc' = [pc EXCEPT ![t] = "sweep"]
    /\ snap' = [snap EXCEPT ![t] = NoSnap]
    /\ todo' = [todo EXCEPT ![t] = {}]
    /\ cur' = [cur EXCEPT ![t] = 0]
    /\ slots' = [slots EXCEPT ![t] = 0]

GoTo(t, p, S, s, n) ==
    /\ pc' = [pc EXCEPT ![t] = p]
    /\ todo' = [todo EXCEPT ![t] = S]
    /\ cur' = [cur EXCEPT ![t] = s]
    /\ slots' = [slots EXCEPT ![t] = n]
    /\ UNCHANGED snap

\* dispatch_ready_steps: on to the next ready step while slots are left.
ClaimNext(t, S, n) ==
    \/ /\ S = {} \/ n = 0
       /\ Finish(t)
    \/ /\ n > 0
       /\ \E s \in S : First(snap[t], S, s) /\ GoTo(t, "claim", S \ {s}, s, n - 1)

\* Mutant: ticks overlap.
LockIgnored == TRUE

\* One tick at a time: a tick that finds the flock taken skips its turn.
LockFree == lock = NoTicker

TickBegin(t) ==
    /\ pc[t] = "idle"
    /\ LockFree
    /\ lock' = t
    /\ \/ /\ task = "open"
          /\ snap' = [snap EXCEPT ![t] = row]
          /\ todo' = [todo EXCEPT ![t] = ToVisit(row)]
          /\ pc' = [pc EXCEPT ![t] = "visit"]
          /\ UNCHANGED <<cur, slots>>
       \/ task # "open" /\ Finish(t)
    /\ UNCHANGED <<task, stepVars, boundVars>>

\* The step tick t visits next, when the snapshot shows it in status st.
Visiting(t, s, st) ==
    /\ pc[t] = "visit"
    /\ First(snap[t], todo[t], s)
    /\ snap[t][s].status = st

Skip(t, s) == GoTo(t, "visit", todo[t] \ {s}, 0, 0)

\* poll_running_step, a live process under a live lease: nothing to do.
PollQuiet(t, s) ==
    /\ Visiting(t, s, "running")
    /\ MayLookAlive(snap[t], s) \/ snap[t][s].outcome
    /\ row[s].live
    /\ Skip(t, s)
    /\ OnlyTick

\* Mutant: one retry too many.
RetryLeftOver(s) == retries[s] <= MaxStepRetries

RetryLeft(s) == retries[s] < MaxStepRetries

\* The process died and left nothing: spend the retry, then claim again.
PollRetry(t, s) ==
    /\ Visiting(t, s, "running")
    /\ LooksDead(snap[t], s) /\ ~snap[t][s].outcome
    /\ RetryLeft(s)
    /\ retries' = [retries EXCEPT ![s] = @ + 1]
    /\ GoTo(t, "claim", {}, s, 0)
    /\ UNCHANGED <<task, row, minted, worker, interv, answered, asked, lock, boundVars>>

PollExhausted(t, s) ==
    /\ Visiting(t, s, "running")
    /\ LooksDead(snap[t], s) /\ ~snap[t][s].outcome
    /\ ~RetryLeft(s)
    /\ UpdateRow(s, MarkDead(row[s], snap[t][s].attempt, "failed"))
    /\ retries' = [retries EXCEPT ![s] = 0]
    /\ Finish(t)
    /\ UNCHANGED <<task, minted, worker, interv, answered, asked, lock, boundVars>>

\* The lease ran out: kill the process the snapshot names, mark the row.
PollTimeout(t, s) ==
    /\ Visiting(t, s, "running")
    /\ MayLookAlive(snap[t], s) \/ snap[t][s].outcome
    /\ ~row[s].live
    /\ worker' = [worker EXCEPT ![s] = KillPid(snap[t][s], @)]
    /\ UpdateRow(s, MarkDead(row[s], snap[t][s].attempt, "timeout"))
    /\ Finish(t)
    /\ UNCHANGED <<task, minted, retries, interv, answered, asked, lock, boundVars>>

\* poll_waiting_clarify_step: re-dispatch once the question is settled.
PollClarify(t, s) ==
    /\ Visiting(t, s, "waiting_clarify")
    /\ IF s \in answered THEN GoTo(t, "claim", {}, s, 0) ELSE Skip(t, s)
    /\ OnlyTick

\* decide_stuck_step spends the intervention before it asks the judge.
SpendIntervention(t, s) ==
    /\ Visiting(t, s, "needs_decision")
    /\ interv' = [interv EXCEPT ![s] = @ + 1]
    /\ IF interv'[s] > InterventionCap(s)
       THEN GoTo(t, "resolve", {s}, s, 0)
       ELSE GoTo(t, "rule", todo[t], s, 0)
    /\ UNCHANGED <<task, row, minted, worker, retries, answered, asked, lock, boundVars>>

RuleAccept(t) ==
    /\ pc[t] = "rule"
    /\ LET s == cur[t] IN
       IF Unmoved(row[s], snap[t][s].attempt)
       THEN UpdateRow(s, MarkDoneByCoordinator(row[s])) /\ Finish(t)
       ELSE Skip(t, s) /\ UNCHANGED row
    /\ OnlyRow

\* retry_with_guidance; a reassign writes the same row under another name.
RuleRetry(t) ==
    /\ pc[t] = "rule"
    /\ UpdateRow(cur[t], ResetStepToPending(row[cur[t]]))
    /\ Finish(t)
    /\ OnlyRow

RuleGiveUp(t) ==
    /\ pc[t] = "rule"
    /\ GoTo(t, "resolve", {cur[t]}, cur[t], 0)
    /\ OnlyTick

\* try_self_resolve, first rung: the coordinator writes the result.
ResolveSelfDo(t, s) ==
    /\ pc[t] = "resolve" /\ First(snap[t], todo[t], s)
    /\ SelfDo
    /\ Unmoved(row[s], snap[t][s].attempt)
    /\ UpdateRow(s, MarkDoneByCoordinator(row[s]))
    /\ Finish(t)
    /\ OnlyRow

\* Second rung: drop the step with a gap note, or acknowledge that it is done.
ResolveSkip(t, s) ==
    /\ pc[t] = "resolve" /\ First(snap[t], todo[t], s)
    /\ Skippable(snap[t], s)
    /\ \/ /\ Unmoved(row[s], snap[t][s].attempt)
          /\ UpdateRow(s, MarkStepDropped(row[s]))
       \/ row[s].status = "done" /\ UNCHANGED row
    /\ Finish(t)
    /\ OnlyRow

\* Neither rung applies.  When no step is left to resolve the task dies; a
\* given-up step is marked failed first (cur names it, 0 on a dead end).
ResolveNone(t, s) ==
    /\ pc[t] = "resolve" /\ First(snap[t], todo[t], s)
    /\ ~ /\ Skippable(snap[t], s)
         /\ Unmoved(row[s], snap[t][s].attempt) \/ row[s].status = "done"
    /\ \/ cur[t] = s /\ UpdateRow(s, GiveUpWrite(row[s], snap[t][s].attempt))
       \/ cur[t] = 0 /\ UNCHANGED row
    /\ GoTo(t, IF todo[t] = {s} THEN "conclude" ELSE "resolve", todo[t] \ {s}, cur[t], 0)
    /\ OnlyRow

\* Nothing is left to visit: dispatch, aggregate, dead end, or nothing.
Dispatch(t) ==
    /\ pc[t] = "visit" /\ todo[t] = {}
    /\ ReadyPendingSteps(snap[t]) # {} /\ FreeSlots(snap[t]) > 0
    /\ ClaimNext(t, ReadyPendingSteps(snap[t]), FreeSlots(snap[t]))
    /\ OnlyTick

CannotDispatch(t) ==
    /\ pc[t] = "visit" /\ todo[t] = {}
    /\ ReadyPendingSteps(snap[t]) = {} \/ FreeSlots(snap[t]) = 0

Aggregate(t) ==
    /\ CannotDispatch(t)
    /\ AllDone(snap[t])
    /\ GoTo(t, "aggregate", {}, 0, 0)
    /\ OnlyTick

\* Mutant: a pending step, even behind a dead one, keeps the task alive.
AtDeadEndAllDead(seen) ==
    /\ ~AllDone(seen) /\ ~InFlight(seen)
    /\ \A s \in Step : seen[s].status \in Dead \cup {"done"}

AtDeadEnd(seen) == ~AllDone(seen) /\ DeadSteps(seen) # {} /\ ~InFlight(seen)

DeadEnd(t) ==
    /\ CannotDispatch(t)
    /\ AtDeadEnd(snap[t])
    /\ GoTo(t, "resolve", DeadSteps(snap[t]), 0, 0)
    /\ OnlyTick

NothingToDo(t) ==
    /\ CannotDispatch(t)
    /\ ~AllDone(snap[t]) /\ ~AtDeadEnd(snap[t])
    /\ Finish(t)
    /\ OnlyTick

\* reserve_and_spawn, assignee no longer on the roster: mark_failed unguarded.
RosterReject(t) ==
    /\ pc[t] = "claim"
    /\ cur[t] \in Drifting
    /\ UpdateRow(cur[t], [row[cur[t]] EXCEPT !.status = "failed"])
    /\ ClaimNext(t, todo[t], slots[t])
    /\ OnlyRow

\* reserve_step: a claim that no longer matches its row spawns nothing. After a
\* lost re-claim the code goes on polling, the tick here ends; but only a second
\* tick could take the row, and the flock keeps it away.
Claim(t) ==
    /\ pc[t] = "claim"
    /\ LET s == cur[t] IN
       IF Claimable(row[s], snap[t][s])
       THEN /\ minted[s] < MaxAttempt
            /\ minted' = [minted EXCEPT ![s] = @ + 1]
            /\ UpdateRow(s, ReserveStep(row[s], minted'[s]))
            /\ GoTo(t, "spawn", todo[t], s, slots[t])
       ELSE ClaimNext(t, todo[t], slots[t]) /\ UNCHANGED <<row, minted>>
    /\ UNCHANGED <<task, worker, retries, interv, answered, asked, lock, boundVars>>

Spawn(t) ==
    /\ pc[t] = "spawn"
    /\ worker' = [worker EXCEPT ![cur[t]][minted[cur[t]]] = "starting"]
    /\ GoTo(t, "record", todo[t], cur[t], slots[t])
    /\ UNCHANGED <<task, row, minted, retries, interv, answered, asked, lock, boundVars>>

\* record_spawn writes the pid whatever the row says by now.
RecordSpawn(t) ==
    /\ pc[t] = "record"
    /\ UpdateRow(cur[t], [row[cur[t]] EXCEPT !.pid = minted[cur[t]]])
    /\ ClaimNext(t, todo[t], slots[t])
    /\ OnlyRow

\* aggregate_and_deliver, after the aggregate call: an unguarded status write.
AggregateDone(t) ==
    /\ pc[t] = "aggregate"
    /\ task' = "done"
    /\ Finish(t)
    /\ UNCHANGED <<stepVars, lock, boundVars>>

\* conclude_task_failed: an unguarded status write too.
Conclude(t) ==
    /\ pc[t] = "conclude"
    /\ task' = "stalled"
    /\ Finish(t)
    /\ UNCHANGED <<stepVars, lock, boundVars>>

\* The sweeps end a tick: run_cancel_reap_sweep halts what a cancelled task
\* still runs, off fresh rows; its status guard makes each halt atomic.
\* Mutant: the sweep looks at dispatchable tasks only.
ReapNothing == FALSE

ToReap == task = "cancelled"

Sweep(t) ==
    /\ pc[t] = "sweep"
    /\ row' = IF ToReap THEN [s \in Step |-> HaltStep(row[s])] ELSE row
    /\ worker' = IF ~ToReap THEN worker
                 ELSE [s \in Step |-> IF row[s].status = "running"
                                      THEN KillPid(row[s], worker[s]) ELSE worker[s]]
    /\ pc' = [pc EXCEPT ![t] = "idle"]
    /\ lock' = NoTicker
    /\ UNCHANGED <<task, minted, retries, interv, answered, asked, snap, todo, cur,
                   slots, boundVars>>

\* The process dies anywhere; the kernel frees its flock.
TickCrash(t) ==
    /\ pc[t] # "idle"
    /\ crashes < MaxCrash
    /\ crashes' = crashes + 1
    /\ pc' = [pc EXCEPT ![t] = "idle"]
    /\ snap' = [snap EXCEPT ![t] = NoSnap]
    /\ todo' = [todo EXCEPT ![t] = {}]
    /\ cur' = [cur EXCEPT ![t] = 0]
    /\ slots' = [slots EXCEPT ![t] = 0]
    /\ lock' = NoTicker
    /\ UNCHANGED <<task, stepVars, reopened>>

TickStep(t) ==
    \/ TickBegin(t)
    \/ \E s \in Step :
          \/ PollQuiet(t, s) \/ PollRetry(t, s) \/ PollExhausted(t, s)
          \/ PollTimeout(t, s) \/ PollClarify(t, s) \/ SpendIntervention(t, s)
          \/ ResolveSelfDo(t, s) \/ ResolveSkip(t, s) \/ ResolveNone(t, s)
    \/ RuleAccept(t) \/ RuleRetry(t) \/ RuleGiveUp(t)
    \/ Dispatch(t) \/ Aggregate(t) \/ DeadEnd(t) \/ NothingToDo(t)
    \/ RosterReject(t) \/ Claim(t) \/ Spawn(t) \/ RecordSpawn(t)
    \/ AggregateDone(t) \/ Conclude(t) \/ Sweep(t)

----------------------------------------------------------------------------
(* Workers: one detached process per attempt. *)

\* Mutant: it does not ask whether the lease is still its own.
WorkerStartUnverified(s, a) ==
    /\ worker[s][a] = "starting"
    /\ worker' = [worker EXCEPT ![s][a] = "working"]
    /\ UNCHANGED <<task, row, minted, retries, interv, answered, asked>>
    /\ UNCHANGED <<tickVars, boundVars>>

\* verify_attempt, once: a process whose lease has moved on exits at once.
WorkerStart(s, a) ==
    /\ worker[s][a] = "starting"
    /\ worker' = [worker EXCEPT ![s][a] =
                     IF row[s].status = "running" /\ row[s].attempt = a
                     THEN "working" ELSE "gone"]
    /\ UNCHANGED <<task, row, minted, retries, interv, answered, asked>>
    /\ UNCHANGED <<tickVars, boundVars>>

\* heartbeat carries no attempt id: it renews whatever lease the row has.
Heartbeat(s, a) ==
    /\ worker[s][a] = "working"
    /\ ~row[s].live
    /\ UpdateRow(s, [row[s] EXCEPT !.live = TRUE])
    /\ UNCHANGED <<task, minted, worker, retries, interv, answered, asked>>
    /\ UNCHANGED <<tickVars, boundVars>>

Pauses == {"waiting_clarify", "awaiting_approval"}

\* The graph ended: one fenced write, then the process exits.  A pause opens
\* a new question (or approval), which nobody has settled yet.
WorkerEnd(s, a, o) ==
    /\ worker[s][a] = "working"
    /\ o \in Pauses => asked[s] < MaxAsk
    /\ worker' = [worker EXCEPT ![s][a] = "gone"]
    /\ UpdateRow(s, SetStepStatus(row[s], a, o))
    /\ IF o \in Pauses
       THEN asked' = [asked EXCEPT ![s] = @ + 1] /\ answered' = answered \ {s}
       ELSE UNCHANGED <<asked, answered>>
    /\ UNCHANGED <<task, minted, retries, interv, tickVars, boundVars>>

WorkerCrash(s, a) ==
    /\ worker[s][a] \in {"starting", "working"}
    /\ worker' = [worker EXCEPT ![s][a] = "gone"]
    /\ UNCHANGED <<task, row, minted, retries, interv, answered, asked>>
    /\ UNCHANGED <<tickVars, boundVars>>

WorkerStep(s, a) ==
    WorkerStart(s, a) \/ WorkerCrash(s, a) \/ \E o \in Outcome : WorkerEnd(s, a, o)

----------------------------------------------------------------------------
(* The clock, and the people. *)

LeaseExpires(s) ==
    /\ row[s].status = "running" /\ row[s].live
    /\ UpdateRow(s, [row[s] EXCEPT !.live = FALSE])
    /\ UNCHANGED <<task, minted, worker, retries, interv, answered, asked>>
    /\ UNCHANGED <<tickVars, boundVars>>

\* The CEO answers, or the question expires; the CEO decides the approval.
HumanSettles(s) ==
    /\ row[s].status \in Pauses
    /\ s \notin answered
    /\ answered' = answered \cup {s}
    /\ UNCHANGED <<task, row, minted, worker, retries, interv, asked, tickVars, boundVars>>

CancelTask ==
    /\ task \in {"open", "stalled"}
    /\ task' = "cancelled"
    /\ UNCHANGED <<stepVars, tickVars, boundVars>>

\* The one-touch handlers of ops_stalled_task, by the CEO or by autopilot:
\* every dead row is rewritten, then reopen_stalled puts the task back.
Revive(rows) ==
    /\ task = "stalled"
    /\ reopened < MaxReopen
    /\ row' = rows
    /\ task' = "open"
    /\ reopened' = reopened + 1
    /\ UNCHANGED <<minted, worker, retries, interv, answered, asked, tickVars, crashes>>

RetryStalled ==
    /\ DeadSteps(row) # {}
    /\ Revive([s \in Step |-> IF s \in DeadSteps(row)
                              THEN ResetStepToPending(row[s]) ELSE row[s]])

DropStalled ==
    /\ DeadSteps(row) # {}
    /\ DeadSteps(row) \cap PicTerminal = {}
    /\ Revive([s \in Step |-> IF s \in DeadSteps(row)
                              THEN MarkStepDropped(row[s]) ELSE row[s]])

\* run_accept_stalled_result: the last result came in after the task stalled.
AcceptStalled == AllDone(row) /\ Revive(row)

----------------------------------------------------------------------------

Next ==
    \/ \E t \in Ticker : TickStep(t) \/ TickCrash(t)
    \/ \E s \in Step, a \in Attempt : WorkerStep(s, a) \/ Heartbeat(s, a)
    \/ \E s \in Step : LeaseExpires(s) \/ HumanSettles(s)
    \/ CancelTask \/ RetryStalled \/ DropStalled \/ AcceptStalled

Spec == Init /\ [][Next]_vars

\* The minute cadence runs ticks for ever; a worker ends or dies; a lease
\* nobody renews runs out; the clarify expiry sweep settles every question.
Fairness ==
    /\ WF_vars(\E t \in Ticker : TickStep(t))
    /\ \A s \in Step : \A a \in Attempt : WF_vars(WorkerStep(s, a))
    /\ \A s \in Step : WF_vars(LeaseExpires(s)) /\ WF_vars(HumanSettles(s))

FairSpec == Spec /\ Fairness

----------------------------------------------------------------------------
(* Properties that hold. *)

\* A step starts only after every step it consumes has been done at some
\* time (ready_pending_steps, through every retry, skip and revival).
StartedInOrder ==
    \A s \in Step : minted[s] > 0 => \A d \in Deps[s] : row[d].everDone

\* A task is reported done only with every step of the plan done: the
\* aggregate decides off a snapshot and writes the status unguarded.
DoneIsComplete == task = "done" => AllDone(row)

\* Two processes never work on one step at a time (reserve_and_spawn: "a
\* second worker for a step that already has one" is what the claim avoids).
SingleWorker ==
    \A s \in Step : Cardinality({a \in Attempt : worker[s][a] = "working"}) <= 1

\* Never more running steps than company.team_task_concurrency allows, though
\* each tick counts them in its snapshot and spawns several.
ConcurrencyRespected ==
    Cardinality({s \in Step : row[s].status = "running"}) <= Concurrency

\* The attempts a step may burn are bounded by what was granted: one retry
\* of a dead process for each first dispatch, ruling, revival and resume.
AttemptBudget ==
    \A s \in Step :
        minted[s] <= (1 + MaxStepRetries) *
                     (1 + MaxInterventions + reopened + asked[s])

\* A running step is completed or paused only by the process its lease names,
\* however many older processes of the step are still at work.
CompletedByLeaseHolder ==
    [][\A s \in Step :
          /\ row[s].status = "running"
          /\ row'[s].status \in {"done", "needs_decision"} \cup Pauses
          => worker[s][row[s].attempt] = "working"]_vars

\* A dropped step stays done: its placeholder is what its dependents already
\* read (mark_step_dropped retires the attempt id for that reason).
DroppedSticks ==
    [][\A s \in Step : row[s].status = "done" /\ row[s].attempt = 0
                       => row'[s].status = "done"]_vars

\* No open task is left to sit: it ends, or waits for an approval.
OpenTaskSettles ==
    task = "open" ~>
        \/ task # "open"
        \/ \E s \in Step : row[s].status = "awaiting_approval"

\* A cancelled task comes to have no running step, even when the tick that
\* was dispatching one never saw the cancel (run_cancel_reap_sweep).
CancelIsReaped ==
    task = "cancelled" ~>
        (task # "cancelled" \/ \A s \in Step : row[s].status # "running")

----------------------------------------------------------------------------
(* What a step is to those who depend on it. *)

\* A done row without an attempt id was dropped, or written by the
\* coordinator into a row nobody holds.
PhaseOf(r) ==
    CASE r.status = "pending" -> "waiting"
      [] r.status = "running" -> "leased"
      [] r.status \in Pauses -> "paused"
      [] r.status = "needs_decision" -> "judged"
      [] r.status \in Dead -> "dead"
      [] r.status = "done" -> IF r.attempt = 0 THEN "sealed" ELSE "done"

Phase    == [s \in Step |-> PhaseOf(row[s])]
Achieved == {s \in Step : row[s].everDone}
AtWork   == [s \in Step |-> {a \in Attempt : worker[s][a] = "working"}]

Life == INSTANCE StepLife WITH
    phase <- Phase, granted <- minted, achieved <- Achieved, atWork <- AtWork

(* The rows, the snapshots of overlapping ticks, zombies, rulings, halts   *)
(* and revivals implement the life of a step: every step of the system is  *)
(* one of StepLife or changes nothing it sees.                             *)
ImplementsStepLife == Life!Spec
=============================================================================
