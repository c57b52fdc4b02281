------------------------------- MODULE PlanDrafts -------------------------------
(***************************************************************************)
(* Drafts of plans and of amendments, and the running plan they race with: *)
(* previewing, confirming and cancelling a task's plan                     *)
(* (ops_assign_team_task.py), drafting an amendment with a model call in   *)
(* the middle and swapping its steps in (ops_adjust_team_task.py,          *)
(* team_task_amend.py), while the tick verifies the plan hash, reserves    *)
(* and finishes steps, appends review rows and hands steps to others.      *)
(*                                                                         *)
(* A hash is the sequence of what decomposition_content_hash reads of the  *)
(* rows: equal hashes are equal plans.  Titles and dependencies, which     *)
(* never change, are left out of it; of the conditional flags only         *)
(* needs_mail is kept.                                                     *)
(***************************************************************************)
EXTENDS Naturals, Sequences, SequencesExt, FiniteSets

CONSTANTS
    Staff,       \* staff that steps are assigned to
    Mail,        \* TRUE iff plans have a step that reads mail
    MaxTasks,    \* bound: tasks ever drafted, the one running at the start included
    MaxDrafts    \* bound: amendments ever drafted

ASSUME DraftAssumption == Staff # {} /\ Mail \in BOOLEAN /\ MaxTasks \in Nat /\ MaxDrafts \in Nat

VARIABLES
    tasks,      \* team_tasks with their team_steps; the id of a task is its index
    drafts,     \* team_task_amendments; the id of a draft is its index
    amending    \* preview_adjust_team_task calls waiting for the model

serverVars == <<tasks, drafts, amending>>

(***************************************************************************)
(* Rows and hashes.                                                        *)
(***************************************************************************)
Planner == CHOOSE s \in Staff : TRUE   \* whom a plan assigns to
Step(id, who, mail) == [id |-> id, who |-> who, mail |-> mail, sys |-> FALSE, status |-> "pending"]
Review == [id |-> "review", who |-> Planner, mail |-> FALSE, sys |-> TRUE,
           status |-> "pending"]

Material(row) == [id |-> row.id, who |-> row.who, mail |-> row.mail]
Hash(rows) == [i \in DOMAIN rows |-> Material(rows[i])]

\* The rows at some places, in order.
Ascending(places) ==
    CHOOSE at \in [1..Cardinality(places) -> places] : \A k, l \in DOMAIN at : k < l => at[k] < at[l]
Among(rows, places) == LET at == Ascending(places) IN [k \in DOMAIN at |-> rows[at[k]]]

Confirmed(rows) == Among(rows, {i \in DOMAIN rows : ~rows[i].sys})
PendingIds(rows) == {row.id : row \in {rows[i] : i \in {j \in DOMAIN rows : rows[j].status = "pending"}}}

\* _amend_frozen_prefix: the confirmed rows that are under way, as the amended
\* plan's hash will hold them; needs_mail is not carried over.
FrozenPrefix(rows) ==
    Hash(Among(rows, {i \in DOMAIN rows : ~rows[i].sys /\ rows[i].status # "pending"}))
FrozenMaterial(rows) == [i \in DOMAIN FrozenPrefix(rows) |-> [FrozenPrefix(rows)[i] EXCEPT !.mail = FALSE]]

NewTask(plan, room) == [status |-> "planning", rows |-> plan, hash |-> Hash(plan), room |-> room,
                        scope |-> ""]

\* _verify_plan_hash of the tick. get reads the task and its rows by two SELECTs;
\* here they are one read.
Verified(task) == task.hash = Hash(Confirmed(task.rows))

Plans == {<<Step("s1", Planner, Mail), Step("s2", Planner, FALSE)>>}
Tails == {<<Step("n", who, FALSE)>> : who \in Staff}

\* One task runs already: its first step is under way.
ServerInit ==
    /\ \E plan \in Plans, room \in {"room"} :
         tasks = <<[NewTask(plan, room) EXCEPT !.status = "open", !.rows[1].status = "running"]>>
    /\ drafts = <<>> /\ amending = {}

(***************************************************************************)
(* The plan of a task: preview, confirm, cancel.                           *)
(***************************************************************************)
\* preview_assign_team_task; auto is the company's or the autopilot's confirm.
DraftPlan(plan, room, auto) ==
    /\ Len(tasks) < MaxTasks
    /\ tasks' = Append(tasks, IF auto THEN [NewTask(plan, room) EXCEPT !.status = "open"]
                              ELSE NewTask(plan, room))

\* confirm_plan and, after it, set_preauth_scope.
CanConfirm(t, hash) == tasks[t].status = "planning" /\ tasks[t].hash = hash
ConfirmPlan(t, hash, scope) ==
    tasks' = IF CanConfirm(t, hash) THEN [tasks EXCEPT ![t].status = "open", ![t].scope = scope]
             ELSE tasks

\* cancel_draft
CancelPlan(t) ==
    tasks' = IF tasks[t].status = "planning" THEN [tasks EXCEPT ![t].status = "cancelled"] ELSE tasks

(***************************************************************************)
(* Amendments.                                                             *)
(***************************************************************************)
\* preview_adjust_team_task reads the task, whatever its status, then asks the
\* model.
StartAmend(t, by) ==
    /\ PendingIds(tasks[t].rows) # {}
    /\ Cardinality(amending) + Len(drafts) < MaxDrafts
    /\ amending' = amending \cup {[task |-> t, rows |-> tasks[t].rows, by |-> by]}

\* A draft that is not confirmable any more; of its row only the status is kept.
Closed(d, status) ==
    [drafts[d] EXCEPT !.status = status, !.base = <<>>, !.new = <<>>, !.tail = <<>>, !.pending = {}]

\* Faulty: a second draft leaves the first one confirmable.
SupersededNone(t) == [d \in DOMAIN drafts |-> drafts[d]]

Superseded(t) == [d \in DOMAIN drafts |->
    IF drafts[d].task = t /\ drafts[d].status = "draft" THEN Closed(d, "stale") ELSE drafts[d]]

\* No valid amendment came of it: a model error, or a new step named as one
\* that is under way.
DropAmend(a) ==
    /\ a \in amending /\ amending' = amending \ {a}
    /\ UNCHANGED <<tasks, drafts>>

\* The model has answered: set_amendment_draft with what the READ task gave.
WriteDraft(a, tail) ==
    /\ a \in amending /\ amending' = amending \ {a}
    /\ \A row \in Range(FrozenPrefix(a.rows)), new \in Range(tail) : row.id # new.id
    /\ drafts' = Append(Superseded(a.task),
                   [task |-> a.task, base |-> Hash(a.rows), new |-> FrozenMaterial(a.rows) \o Hash(tail),
                    tail |-> tail, pending |-> PendingIds(a.rows), status |-> "draft", by |-> a.by])
    /\ UNCHANGED tasks

\* Faulty: no look at what has been started since; no look at the plan.
AppliesLate(d) == drafts[d].status = "draft"
AppliesAnyBase(d) ==
    drafts[d].status = "draft" /\ drafts[d].pending \subseteq PendingIds(tasks[drafts[d].task].rows)

\* confirm_amendment, one transaction with swap_pending_steps: whether it
\* applies, and what it makes of the task.
Applies(d) ==
    LET rows == tasks[drafts[d].task].rows IN
    /\ drafts[d].status = "draft"
    /\ drafts[d].base = Hash(rows)
    /\ drafts[d].pending \subseteq PendingIds(rows)
Swapped(rows, d) ==
    Among(rows, {i \in DOMAIN rows : rows[i].id \notin drafts[d].pending}) \o drafts[d].tail
ConfirmAmendment(d) ==
    LET t == drafts[d].task IN
    IF Applies(d)
    THEN /\ tasks' = [tasks EXCEPT ![t].rows = Swapped(@, d), ![t].hash = drafts[d].new]
         /\ drafts' = [drafts EXCEPT ![d] = Closed(d, "confirmed")]
    ELSE UNCHANGED <<tasks, drafts>>

(***************************************************************************)
(* The tick and the other channel, an operations chat.                     *)
(***************************************************************************)
Rewrite(t, i, status) == tasks' = [tasks EXCEPT ![t].rows[i].status = status]

\* Before a step is reserved _verify_plan_hash looks whether this is the plan
\* that was confirmed; if not, the task stalls.
Reserve(t, i) ==
    /\ tasks[t].status = "open" /\ tasks[t].rows[i].status = "pending"
    /\ IF Verified(tasks[t]) THEN Rewrite(t, i, "running")
       ELSE tasks' = [tasks EXCEPT ![t].status = "stalled"]
    /\ UNCHANGED <<drafts, amending>>

Finish(t, i) ==
    /\ tasks[t].rows[i].status = "running"
    /\ \E status \in {"done", "failed"} : Rewrite(t, i, status)
    /\ UNCHANGED <<drafts, amending>>

\* A peer-review row for a step that is done.
InsertReview(t) ==
    /\ tasks[t].status = "open" /\ Verified(tasks[t])
    /\ \E i \in DOMAIN tasks[t].rows : tasks[t].rows[i].status = "done"
    /\ \A i \in DOMAIN tasks[t].rows : tasks[t].rows[i].id # "review"
    /\ tasks' = [tasks EXCEPT ![t].rows = Append(@, Review)]
    /\ UNCHANGED <<drafts, amending>>

\* reassign_step re-stamps plan_hash; a failed step goes back to pending.
Reassign(t, i, who) ==
    LET rows == [tasks[t].rows EXCEPT ![i].who = who, ![i].status = "pending"] IN
    /\ tasks[t].status = "open" /\ tasks[t].rows[i].status = "failed" /\ tasks[t].rows[i].who # who
    /\ who # Planner    \* bound: a step changes hands once
    /\ tasks' = [tasks EXCEPT ![t].rows = rows, ![t].hash = Hash(Confirmed(rows))]
    /\ UNCHANGED <<drafts, amending>>

\* cleanup_stale_drafts
Expire(d) ==
    /\ drafts[d].status = "draft"
    /\ drafts' = [drafts EXCEPT ![d] = Closed(d, "expired")]
    /\ UNCHANGED <<tasks, amending>>

ChatAdjust(t) == StartAmend(t, "chat") /\ UNCHANGED <<tasks, drafts>>
ChatDraft(a) == a.by = "chat" /\ (DropAmend(a) \/ \E tail \in Tails : WriteDraft(a, tail))
ChatConfirm(d) == drafts[d].by = "chat" /\ Applies(d) /\ ConfirmAmendment(d) /\ UNCHANGED amending

Steps(t) == DOMAIN tasks[t].rows

Tick ==
    \/ \E t \in DOMAIN tasks : InsertReview(t)
    \/ \E t \in DOMAIN tasks : \E i \in Steps(t) : Reserve(t, i) \/ Finish(t, i)
    \/ \E t \in DOMAIN tasks, who \in Staff : \E i \in Steps(t) : Reassign(t, i, who)
    \/ \E d \in DOMAIN drafts : Expire(d)

Chat ==
    \/ \E t \in DOMAIN tasks : ChatAdjust(t)
    \/ \E a \in amending : ChatDraft(a)
    \/ \E d \in DOMAIN drafts : ChatConfirm(d)

DraftSpec == ServerInit /\ [][Tick \/ Chat]_serverVars

-----------------------------------------------------------------------------
(***************************************************************************)
(* Properties.                                                             *)
(***************************************************************************)
(* The plan of an open task is the plan its hash was confirmed with: no     *)
(* amendment, reassignment or inserted row makes the tick take it for a     *)
(* tampered plan and stall it (_amend_frozen_prefix, _confirmed_plan_hash). *)
PlanVerifies == \A t \in DOMAIN tasks : tasks[t].status = "open" => Verified(tasks[t])

(* One live draft per task: of two amendments drafted for it, the one shown *)
(* first can no longer be confirmed over the other (set_amendment_draft).   *)
OneLiveDraft ==
    \A d, e \in DOMAIN drafts :
        drafts[d].task = drafts[e].task /\ drafts[d].status = "draft" /\ drafts[e].status = "draft" => d = e

(* Applying an amendment takes away no step that has been started, and no   *)
(* review row that came after the draft (confirm_amendment).                *)
StartedWorkKept ==
    [][\A d \in DOMAIN drafts :
         drafts[d].status = "draft" /\ drafts'[d].status = "confirmed" =>
            \A i \in Steps(drafts[d].task) :
               LET row == tasks[drafts[d].task].rows[i] IN
               row.status # "pending" \/ row.id \notin drafts[d].pending
                 => \E j \in DOMAIN tasks'[drafts[d].task].rows : tasks'[drafts[d].task].rows[j] = row]_serverVars
=============================================================================
