------------------------------ MODULE ApprovalGate ------------------------------
(***************************************************************************)
(* The action gateway in guarded mode, and the queue of approvals behind   *)
(* it (action_gateway.py, approval_store.py, dedup_store.py,               *)
(* approval_rule_store.py).  An agent proposes an action; a standing rule  *)
(* or a free slot of the trust ladder lets it run, a deny rule refuses it, *)
(* and otherwise a row waits for the CEO, who decides it from the web, the *)
(* chat or the command line.  Those are processes of their own: each step  *)
(* below holds at most one commit or one effect on the world, and a        *)
(* process may die between any two.                                        *)
(*                                                                         *)
(* The text of an action is reduced to what the stores compare: its        *)
(* idempotency key, which is the action itself here, and the family a rule *)
(* binds.  Every call writes its outcome to the audit log, which may fail: *)
(* that is an outcome of its own where something has been done before, and *)
(* the same as a call that fails or teaches nothing where not.  Left out:  *)
(* autonomous mode and dry run, which queue nothing, and the retention     *)
(* that purges old keys.                                                   *)
(***************************************************************************)
EXTENDS Naturals, Sequences, FiniteSets

CONSTANTS
    Action,     \* actions, told apart by _action_dedup_key
    FamilyOf,   \* what derive_rule_key binds of an action
    Proc,       \* the processes that call a gateway
    NoAction,
    Granted,    \* actions of the one type the trust ladder lets through
    MaxPerDay,  \* its slots of a day
    MaxRows,    \* bound: rows queued
    MaxRaised,  \* bound: calls that fail
    MaxCrash    \* bound: processes that die

ASSUME GateAssumption ==
    /\ NoAction \notin Action /\ Granted \subseteq Action
    /\ MaxPerDay \in Nat /\ MaxRows \in Nat /\ MaxRaised \in Nat /\ MaxCrash \in Nat

VARIABLES
    approvals,  \* the rows: their action and status, and by whom and how they were decided (history)
    rules,      \* standing rules that are not revoked, and the row and process they are from (history)
    seen,       \* dedup.db: the keys that are reserved
    slots,      \* auto slots taken today
    proc,       \* what each process is about
    \* What happened, for the properties and the bounds.
    ran,        \* executions that returned: the row, or 0, the action, and whether the audit has it
    raised,     \* calls that failed
    orphaned    \* actions whose process died on the way

vars == <<approvals, rules, seen, slots, proc, ran, raised, orphaned>>

Scope == {"once", "always", "deny"}
Idle == [at |-> "idle", row |-> 0, action |-> NoAction, scope |-> "once"]
At(p, place) == proc[p].at = place
Move(p, place) == proc' = [proc EXCEPT ![p].at = place]
Finish(p) == proc' = [proc EXCEPT ![p] = Idle]
Decision(p, scope) == [by |-> p, scope |-> scope]
Standing(a, scope) == \E r \in rules : r.family = FamilyOf[a] /\ r.scope = scope

Init ==
    /\ approvals = <<>> /\ rules = {} /\ seen = {} /\ slots = 0
    /\ proc = [p \in Proc |-> Idle]
    /\ ran = {} /\ raised = 0 /\ orphaned = <<>>

(***************************************************************************)
(* An agent proposes an action: execute, and enqueue_for_approval when the *)
(* chat asked for it, which consults no rule.                              *)
(***************************************************************************)
\* Let past the interrupt, by a rule or by the ladder.
Allow(p, a) ==
    proc' = [proc EXCEPT ![p] = [at |-> "allowed", row |-> 0, action |-> a, scope |-> "once"]]

\* match: deny wins.
Refused(a) == Standing(a, "deny")
Ruled(a) == Standing(a, "always")

ByRule(p, a) ==
    /\ Ruled(a) /\ Allow(p, a)
    /\ UNCHANGED <<approvals, rules, seen, slots, ran, raised, orphaned>>

\* claim_daily_slot: the first free one; none is given back.
SlotFree(a) == a \in Granted /\ slots < MaxPerDay

ByLadder(p, a) ==
    /\ SlotFree(a) /\ slots' = slots + 1
    /\ Allow(p, a)
    /\ UNCHANGED <<approvals, rules, seen, ran, raised, orphaned>>

\* Nothing asks whether such a row waits already.
Enqueue(a) ==
    /\ Len(approvals) < MaxRows
    /\ approvals' = Append(approvals, [action |-> a, status |-> "pending", won |-> {}])
    /\ UNCHANGED <<rules, seen, slots, proc, ran, raised, orphaned>>

Propose(p, a) ==
    /\ At(p, "idle") /\ ~Refused(a)
    /\ \/ ByRule(p, a)
       \/ ~Ruled(a) /\ ByLadder(p, a)
       \/ ~Ruled(a) /\ ~SlotFree(a) /\ Enqueue(a)

\* Without a handler nothing may run: only a deny rule counts.
ProposeOnly(p, a) == At(p, "idle") /\ ~Refused(a) /\ Enqueue(a)

\* The ladder trusts some who ask, or none.
AskInChat(p, a) == At(p, "idle") /\ (ByLadder(p, a) \/ Enqueue(a))

(***************************************************************************)
(* The CEO decides a row: approve and reject, with the scope picked.  The  *)
(* web and the command line offer the scope that fits; the chat takes any. *)
(***************************************************************************)
\* Faulty: a blind UPDATE.
TransitionBlind(p, i, status, scope) ==
    approvals' = [approvals EXCEPT ![i].status = status, ![i].won = {Decision(p, scope)}]

\* transition_if_pending: a compare and set.
Transition(p, i, status, scope) ==
    /\ approvals[i].status = "pending"
    /\ approvals' = [approvals EXCEPT ![i].status = status, ![i].won = {Decision(p, scope)}]

Decided(p, i, place, scope) ==
    proc' = [proc EXCEPT ![p] = [at |-> place, row |-> i, action |-> approvals[i].action, scope |-> scope]]

Approve(p, i, scope) ==
    /\ At(p, "idle")
    /\ Transition(p, i, "approved", scope)
    /\ Decided(p, i, "allowed", scope)
    /\ UNCHANGED <<rules, seen, slots, ran, raised, orphaned>>

\* Faulty: who lost the race goes on as if it had won.
RejectAnyway(p, i, scope) ==
    /\ At(p, "idle")
    /\ \/ Transition(p, i, "rejected", scope)
       \/ approvals[i].status # "pending" /\ UNCHANGED approvals
    /\ Decided(p, i, "learning", scope)
    /\ UNCHANGED <<rules, seen, slots, ran, raised, orphaned>>

\* Without its audit record the rejection stands and teaches nothing, as with the scope "once".
Reject(p, i, scope) ==
    /\ At(p, "idle")
    /\ Transition(p, i, "rejected", scope)
    /\ Decided(p, i, "learning", scope)
    /\ UNCHANGED <<rules, seen, slots, ran, raised, orphaned>>

(***************************************************************************)
(* Gateway._execute with approved = True.                                  *)
(***************************************************************************)
\* Hard block, kill switch, rate limit, or no record of a duplicate: the call fails without a key.
Refuse(p) ==
    /\ At(p, "allowed") /\ raised < MaxRaised /\ raised' = raised + 1
    /\ Move(p, "raised")
    /\ UNCHANGED <<approvals, rules, seen, slots, ran, orphaned>>

\* Faulty: the key is looked up before and reserved now.
ClaimSeen(p) ==
    /\ At(p, "allowed")
    /\ seen' = seen \cup {proc[p].action}
    /\ Move(p, "running")
    /\ UNCHANGED <<approvals, rules, slots, ran, raised, orphaned>>

\* claim: INSERT OR IGNORE.
Claim(p) ==
    /\ At(p, "allowed") /\ proc[p].action \notin seen
    /\ seen' = seen \cup {proc[p].action}
    /\ Move(p, "running")
    /\ UNCHANGED <<approvals, rules, slots, ran, raised, orphaned>>

\* A duplicate is skipped, and for the caller all is well.
Deduplicate(p) ==
    /\ At(p, "allowed") /\ proc[p].action \in seen
    /\ Move(p, "learning")
    /\ UNCHANGED <<approvals, rules, seen, slots, ran, raised, orphaned>>

Returned(p, recorded) == [row |-> proc[p].row, action |-> proc[p].action, recorded |-> recorded]

HandlerReturns(p) ==
    /\ At(p, "running")
    /\ ran' = ran \cup {Returned(p, TRUE)}
    /\ Move(p, "learning")
    /\ UNCHANGED <<approvals, rules, seen, slots, raised, orphaned>>

\* The audit record of what ran fails: an exception like any other for the caller.
RecordRaises(p) ==
    /\ At(p, "running") /\ raised < MaxRaised /\ raised' = raised + 1
    /\ ran' = ran \cup {Returned(p, FALSE)}
    /\ Move(p, "raised")
    /\ UNCHANGED <<approvals, rules, seen, slots, orphaned>>

\* Faulty: the reservation stays.
HandlerRaisesHolding(p) ==
    /\ At(p, "running") /\ raised < MaxRaised /\ raised' = raised + 1
    /\ Move(p, "raised")
    /\ UNCHANGED <<approvals, rules, seen, slots, ran, orphaned>>

\* The handler raises: the key is given back, then the exception travels on.
HandlerRaises(p) ==
    /\ At(p, "running") /\ raised < MaxRaised /\ raised' = raised + 1
    /\ seen' = seen \ {proc[p].action}
    /\ Move(p, "raised")
    /\ UNCHANGED <<approvals, rules, slots, ran, orphaned>>

\* approve catches it and hands the row back; a proposal just ends.
Revert(p) ==
    /\ At(p, "raised")
    /\ approvals' = IF proc[p].row = 0 THEN approvals
                    ELSE [approvals EXCEPT ![proc[p].row].status = "pending", ![proc[p].row].won = {}]
    /\ Finish(p)
    /\ UNCHANGED <<rules, seen, slots, ran, raised, orphaned>>

\* add_rule: one that stands is left as it is.
Rule(p) == [family |-> FamilyOf[proc[p].action], scope |-> proc[p].scope, row |-> proc[p].row, by |-> p]
Taught(p) ==
    IF proc[p].scope = "once" \/ Standing(proc[p].action, proc[p].scope) THEN rules ELSE rules \cup {Rule(p)}

\* The route, the chat or the command line teaches the standing rule, if one was picked.
Learn(p) ==
    /\ At(p, "learning")
    /\ rules' = Taught(p)
    /\ Finish(p)
    /\ UNCHANGED <<approvals, seen, slots, ran, raised, orphaned>>

Revoke(r) ==
    /\ r \in rules /\ rules' = rules \ {r}
    /\ UNCHANGED <<approvals, seen, slots, proc, ran, raised, orphaned>>

Crash(p) ==
    /\ ~At(p, "idle") /\ Len(orphaned) < MaxCrash
    /\ orphaned' = Append(orphaned, proc[p].action)
    /\ Finish(p)
    /\ UNCHANGED <<approvals, rules, seen, slots, ran, raised>>

Next ==
    \/ \E p \in Proc :
         \/ \E a \in Action : Propose(p, a) \/ ProposeOnly(p, a) \/ AskInChat(p, a)
         \/ \E i \in DOMAIN approvals, s \in Scope : Approve(p, i, s) \/ Reject(p, i, s)
         \/ Refuse(p) \/ Claim(p) \/ Deduplicate(p)
         \/ HandlerReturns(p) \/ RecordRaises(p) \/ HandlerRaises(p) \/ Revert(p) \/ Learn(p) \/ Crash(p)
    \/ \E r \in rules : Revoke(r)

Spec == Init /\ [][Next]_vars
-----------------------------------------------------------------------------
(***************************************************************************)
(* Properties.                                                             *)
(***************************************************************************)
Row == [action : Action, status : {"pending", "approved", "rejected"},
        won : SUBSET [by : Proc, scope : Scope]]
Places == {"idle", "allowed", "running", "raised", "learning"}
HasRun == {r.action : r \in ran}
Holds(p, i) == proc[p].row = i /\ proc[p].at \in {"allowed", "running", "raised"}

TypeOK ==
    /\ approvals \in Seq(Row)
    /\ rules \subseteq [family : {FamilyOf[a] : a \in Action}, scope : Scope, row : Nat, by : Proc]
    /\ seen \subseteq Action /\ slots \in Nat
    /\ proc \in [Proc -> [at : Places, row : Nat, action : Action \cup {NoAction}, scope : Scope]]
    /\ ran \subseteq [row : Nat, action : Action, recorded : BOOLEAN]
    /\ raised \in Nat /\ orphaned \in Seq(Action)

(* An action runs once: no two executions of it are under way together, and *)
(* none is after one has returned, however it was let through, by rows,     *)
(* rules and slots, and whoever called the gateway (step 5 of _execute).    *)
OneEffect ==
    \A p \in Proc : At(p, "running") =>
        /\ proc[p].action \notin HasRun
        /\ \A q \in Proc \ {p} : At(q, "running") => proc[q].action # proc[p].action

(* A row has one decision: while it waits or once it is rejected nobody     *)
(* works on it and it has not run, and an approval has one executor         *)
(* (transition_if_pending, and the revert of approve).  But a row that did  *)
(* run and whose audit record failed is handed back like one that did not,  *)
(* for a decision that comes too late.                                      *)
RowHasOneDecision ==
    \A i \in DOMAIN approvals :
        /\ approvals[i].status # "approved" =>
              /\ \A p \in Proc : ~Holds(p, i)
              /\ \A r \in ran : r.row = i => ~r.recorded
        /\ \A p, q \in Proc : Holds(p, i) /\ Holds(q, i) => p = q

(* No retry is swallowed as a duplicate of a run that failed: a key is held *)
(* only for an execution that returned or is under way, unless the process  *)
(* that held it died.                                                       *)
NoKeyLeftBehind ==
    \A a \in seen :
        \/ a \in HasRun
        \/ \E p \in Proc : At(p, "running") /\ proc[p].action = a
        \/ \E n \in DOMAIN orphaned : orphaned[n] = a

(* A standing rule stems from a decision that stands: of a row of its       *)
(* family, won by the very process that taught it, with the scope it        *)
(* teaches.  Who lost the race for a row, or had its approval handed back,  *)
(* teaches nothing (_decide, the routes and the command line, which read    *)
(* the row before they decide it and teach after).                          *)
RulesWereTaught ==
    \A r \in rules :
        /\ r.row \in DOMAIN approvals
        /\ FamilyOf[approvals[r.row].action] = r.family
        /\ approvals[r.row].status # "pending"
        /\ Decision(r.by, r.scope) \in approvals[r.row].won
=============================================================================
