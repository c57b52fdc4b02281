--------------------------- MODULE ApprovalGateProofs ---------------------------
(***************************************************************************)
(* Proofs for ApprovalGate, for any actions, families, processes, slots    *)
(* and bounds.                                                             *)
(***************************************************************************)
EXTENDS ApprovalGate, TLAPS

\* Who works on a row works on an approved one, and on its action.
HoldersFit ==
    \A p \in Proc : proc[p].at \in {"allowed", "running", "raised"} =>
        /\ proc[p].action \in Action
        /\ proc[p].row = 0 => proc[p].scope = "once"
        /\ proc[p].row # 0 => /\ proc[p].row \in DOMAIN approvals
                              /\ approvals[proc[p].row].status = "approved"
                              /\ approvals[proc[p].row].action = proc[p].action
                              /\ Decision(p, proc[p].scope) \in approvals[proc[p].row].won

Free(i) == \A p \in Proc : ~Holds(p, i)

\* A row that stands as decided and that nobody works on stays as it is.
Stands(i, status) == i \in DOMAIN approvals /\ approvals[i].status = status /\ Free(i)
Settled(i) == i \in DOMAIN approvals /\ approvals[i].status # "pending" /\ Free(i)

\* Who is to teach a rule has the decision of a row behind it.
TeachersDecided ==
    \A p \in Proc : At(p, "learning") =>
        /\ proc[p].action \in Action
        /\ proc[p].scope # "once" =>
              /\ Settled(proc[p].row)
              /\ approvals[proc[p].row].action = proc[p].action
              /\ Decision(p, proc[p].scope) \in approvals[proc[p].row].won

\* The same of the rules taught.
RulesStand ==
    \A r \in rules :
        /\ Settled(r.row)
        /\ FamilyOf[approvals[r.row].action] = r.family
        /\ Decision(r.by, r.scope) \in approvals[r.row].won

OneHolder == \A i \in DOMAIN approvals : \A p, q \in Proc : Holds(p, i) /\ Holds(q, i) => p = q

\* An execution that returned and is recorded was of a row that stands, or of none.
RunsStand == \A r \in ran : r.row # 0 /\ r.recorded => Stands(r.row, "approved")

\* The key of an execution that is under way or has returned is reserved.
KeysReserved ==
    /\ HasRun \subseteq seen
    /\ \A p \in Proc : At(p, "running") => proc[p].action \in seen

GateInv ==
    /\ TypeOK /\ HoldersFit /\ TeachersDecided /\ RulesStand /\ OneHolder /\ RunsStand
    /\ KeysReserved /\ OneEffect /\ NoKeyLeftBehind

\* The number and the action of a row.
LEMMA OnRow ==
    ASSUME TypeOK, NEW i \in DOMAIN approvals
    PROVE  i \in Nat \ {0} /\ approvals[i] \in Row /\ approvals[i].action \in Action
<1>1. i \in 1..Len(approvals) /\ approvals[i] \in Row BY DEF TypeOK
<1>. QED BY <1>1 DEF Row

\* A row whose status is written is still a row.
LEMMA RowWrite ==
    ASSUME NEW rows \in Seq(Row), NEW i \in DOMAIN rows, NEW s \in {"pending", "approved", "rejected"},
           NEW w \in SUBSET [by : Proc, scope : Scope]
    PROVE  /\ i \in Nat \ {0} /\ rows[i] \in Row /\ rows[i].action \in Action
           /\ [rows EXCEPT ![i].status = s, ![i].won = w] \in Seq(Row)
<1>1. i \in 1..Len(rows) /\ rows[i] \in Row OBVIOUS
<1>2. rows[i].action \in Action BY <1>1 DEF Row
<1>3. [rows[i] EXCEPT !.status = s, !.won = w] \in Row BY <1>1 DEF Row
<1>4. [rows EXCEPT ![i].status = s, ![i].won = w] = [rows EXCEPT ![i] = [rows[i] EXCEPT !.status = s, !.won = w]]
  BY <1>1 DEF Row
<1>. QED BY <1>1, <1>2, <1>3, <1>4

\* A rule stays where its row does.
LEMMA RulesStay ==
    ASSUME RulesStand, rules' \subseteq rules,
           \A i : Settled(i) => Settled(i)' /\ approvals'[i] = approvals[i]
    PROVE  RulesStand'
BY DEF RulesStand

LEMMA ByRuleKeeps ==
    ASSUME GateInv, NEW p \in Proc, NEW a \in Action, At(p, "idle"), ByRule(p, a)
    PROVE  GateInv'
<1>. USE GateAssumption DEF GateInv, TypeOK, At, Places, Scope, ByRule, Allow, Idle
<1>1. TypeOK' BY DEF HoldersFit
<1>2. HoldersFit' BY DEF HoldersFit
<1>3. TeachersDecided' BY DEF TeachersDecided, HoldersFit, Settled, Free, Holds, OneHolder
<1>4. RulesStand'
  <2>1. \A j : Settled(j) => Settled(j)' /\ approvals'[j] = approvals[j]
    BY DEF Settled, Free, Holds, HoldersFit, Row
  <2>. QED BY <2>1, RulesStay
<1>5. OneHolder' BY DEF OneHolder, HoldersFit, Holds
<1>6. RunsStand' BY DEF RunsStand, HoldersFit, Stands, Free, Holds, OneHolder
<1>7. KeysReserved' BY DEF KeysReserved, HoldersFit, HasRun
<1>8. OneEffect' BY DEF OneEffect, HoldersFit, HasRun, KeysReserved
<1>9. NoKeyLeftBehind' BY DEF NoKeyLeftBehind, HoldersFit, HasRun, KeysReserved
<1>. QED BY <1>1, <1>2, <1>3, <1>4, <1>5, <1>6, <1>7, <1>8, <1>9 DEF GateInv

LEMMA ByLadderKeeps ==
    ASSUME GateInv, NEW p \in Proc, NEW a \in Action, At(p, "idle"), ByLadder(p, a)
    PROVE  GateInv'
<1>. USE GateAssumption DEF GateInv, TypeOK, At, Places, Scope, ByLadder, Allow, Idle
<1>1. TypeOK'
  <2>1. approvals' \in Seq(Row) OBVIOUS
  <2>2. proc' \in [Proc -> [at : Places, row : Nat, action : Action \cup {NoAction}, scope : Scope]] BY DEF HoldersFit, TeachersDecided
  <2>3. rules' \subseteq [family : {FamilyOf[a1] : a1 \in Action}, scope : Scope, row : Nat, by : Proc] BY DEF HoldersFit, TeachersDecided
  <2>4. slots' \in Nat /\ raised' \in Nat /\ orphaned' \in Seq(Action) BY DEF HoldersFit, TeachersDecided
  <2>. QED BY <2>1, <2>2, <2>3, <2>4 DEF HoldersFit, TeachersDecided
<1>2. HoldersFit' BY DEF HoldersFit
<1>3. TeachersDecided' BY DEF TeachersDecided, HoldersFit, Settled, Free, Holds, OneHolder
<1>4. RulesStand'
  <2>1. \A j : Settled(j) => Settled(j)' /\ approvals'[j] = approvals[j]
    BY DEF Settled, Free, Holds, HoldersFit, Row
  <2>. QED BY <2>1, RulesStay
<1>5. OneHolder' BY DEF OneHolder, HoldersFit, Holds
<1>6. RunsStand' BY DEF RunsStand, HoldersFit, Stands, Free, Holds, OneHolder
<1>7. KeysReserved' BY DEF KeysReserved, HoldersFit, HasRun
<1>8. OneEffect' BY DEF OneEffect, HoldersFit, HasRun, KeysReserved
<1>9. NoKeyLeftBehind' BY DEF NoKeyLeftBehind, HoldersFit, HasRun, KeysReserved
<1>. QED BY <1>1, <1>2, <1>3, <1>4, <1>5, <1>6, <1>7, <1>8, <1>9 DEF GateInv

LEMMA EnqueueKeeps ==
    ASSUME GateInv, NEW a \in Action, Enqueue(a)
    PROVE  GateInv'
<1>. USE GateAssumption DEF GateInv, TypeOK, At, Places, Scope, Enqueue
<1>1. TypeOK'
  <2>1. approvals' \in Seq(Row)
    <3>1. [action |-> a, status |-> "pending", won |-> {}] \in Row BY DEF Row
    <3>. QED BY <3>1
  <2>. QED BY <2>1
<1>2. HoldersFit' BY DEF HoldersFit
<1>3. TeachersDecided' BY DEF TeachersDecided, HoldersFit, Settled, Free, Holds, OneHolder
<1>4. RulesStand'
  <2>1. \A j : Settled(j) => Settled(j)' /\ approvals'[j] = approvals[j]
    BY DEF Settled, Free, Holds, HoldersFit, Row
  <2>. QED BY <2>1, RulesStay
<1>5. OneHolder'
  <2>1. \A i \in DOMAIN approvals' : i # 0 BY DEF Row
  <2>2. \A i, q : Holds(q, i)' <=> Holds(q, i) BY DEF Holds
  <2>3. \A q \in Proc : \A i : i # 0 /\ Holds(q, i) => i \in DOMAIN approvals BY DEF HoldersFit, Holds
  <2>. QED BY <2>1, <2>2, <2>3 DEF OneHolder
<1>6. RunsStand'
  <2>1. ASSUME NEW j \in DOMAIN approvals PROVE j \in DOMAIN approvals' /\ approvals'[j] = approvals[j]
    <3>1. approvals \in Seq(Row) /\ approvals' = Append(approvals, [action |-> a, status |-> "pending", won |-> {}]) OBVIOUS
    <3>2. [action |-> a, status |-> "pending", won |-> {}] \in Row BY DEF Row
    <3>. HIDE DEF GateInv, TypeOK, Enqueue
    <3>. QED BY <3>1, <3>2
  <2>2. \A j : Stands(j, "approved") => Stands(j, "approved")' BY <2>1 DEF Stands, Free, Holds
  <2>. QED BY <2>2 DEF RunsStand
<1>7. KeysReserved' BY DEF KeysReserved, HoldersFit, HasRun
<1>8. OneEffect' BY DEF OneEffect, HoldersFit, HasRun, KeysReserved
<1>9. NoKeyLeftBehind' BY DEF NoKeyLeftBehind, HoldersFit, HasRun, KeysReserved
<1>. QED BY <1>1, <1>2, <1>3, <1>4, <1>5, <1>6, <1>7, <1>8, <1>9 DEF GateInv

LEMMA ApproveKeeps ==
    ASSUME GateInv, NEW p \in Proc, NEW i \in DOMAIN approvals, NEW s \in Scope, Approve(p, i, s)
    PROVE  GateInv'
<1>. USE GateAssumption DEF GateInv, TypeOK, At, Places, Scope, Approve, Transition, Decided, Decision
<1>1. TypeOK'
  <2>1. approvals' \in Seq(Row)
    <3>1. {[by |-> p, scope |-> s]} \in SUBSET [by : Proc, scope : Scope] OBVIOUS
    <3>. QED BY <3>1, RowWrite
  <2>2. proc' \in [Proc -> [at : Places, row : Nat, action : Action \cup {NoAction}, scope : Scope]]
    <3>1. i \in Nat /\ approvals[i].action \in Action BY OnRow
    <3>2. proc'[p] \in [at : Places, row : Nat, action : Action \cup {NoAction}, scope : Scope] BY <3>1
    <3>. QED BY <3>2
  <2>3. rules' \subseteq [family : {FamilyOf[a1] : a1 \in Action}, scope : Scope, row : Nat, by : Proc] BY DEF HoldersFit, TeachersDecided
  <2>4. slots' \in Nat /\ raised' \in Nat /\ orphaned' \in Seq(Action) BY DEF HoldersFit, TeachersDecided
  <2>. QED BY <2>1, <2>2, <2>3, <2>4 DEF HoldersFit, TeachersDecided
<1>2. HoldersFit'
  <2>0. i # 0 /\ approvals[i].action \in Action BY OnRow
  <2>1. approvals[i].action \in Action BY <2>0
  <2>2. \A q \in Proc : q # p /\ proc[q].at \in {"allowed", "running", "raised"} => proc[q].row # i
    BY <2>0 DEF HoldersFit
  <2>. QED BY <2>1, <2>2 DEF HoldersFit, Row
<1>3. TeachersDecided' BY DEF TeachersDecided, HoldersFit, Settled, Free, Holds, OneHolder
<1>4. RulesStand'
  <2>1. \A j : Settled(j) => Settled(j)' /\ approvals'[j] = approvals[j]
    BY DEF Settled, Free, Holds, HoldersFit, Row
  <2>. QED BY <2>1, RulesStay
<1>5. OneHolder'
  <2>1. i # 0 BY OnRow
  <2>2. \A q \in Proc : ~Holds(q, i) BY <2>1 DEF HoldersFit, Holds
  <2>3. \A q \in Proc : \A k : Holds(q, k)' => Holds(q, k) \/ (q = p /\ k = i)
    <3>1. \A q \in Proc : q # p => proc'[q] = proc[q] OBVIOUS
    <3>2. proc'[p].row = i OBVIOUS
    <3>. QED BY <3>1, <3>2 DEF Holds
  <2>4. DOMAIN approvals' = DOMAIN approvals OBVIOUS
  <2>. QED BY <2>2, <2>3, <2>4 DEF OneHolder
<1>6. RunsStand' BY DEF RunsStand, HoldersFit, Stands, Free, Holds, OneHolder
<1>7. KeysReserved' BY DEF KeysReserved, HoldersFit, HasRun
<1>8. OneEffect' BY DEF OneEffect, HoldersFit, HasRun, KeysReserved
<1>9. NoKeyLeftBehind' BY DEF NoKeyLeftBehind, HoldersFit, HasRun, KeysReserved
<1>. QED BY <1>1, <1>2, <1>3, <1>4, <1>5, <1>6, <1>7, <1>8, <1>9 DEF GateInv

LEMMA RejectKeeps ==
    ASSUME GateInv, NEW p \in Proc, NEW i \in DOMAIN approvals, NEW s \in Scope, Reject(p, i, s)
    PROVE  GateInv'
<1>. USE GateAssumption DEF GateInv, TypeOK, At, Places, Scope, Reject, Transition, Decided, Decision
<1>1. TypeOK'
  <2>1. approvals' \in Seq(Row)
    <3>1. {[by |-> p, scope |-> s]} \in SUBSET [by : Proc, scope : Scope] OBVIOUS
    <3>. QED BY <3>1, RowWrite
  <2>2. proc' \in [Proc -> [at : Places, row : Nat, action : Action \cup {NoAction}, scope : Scope]]
    <3>1. i \in Nat /\ approvals[i].action \in Action BY OnRow
    <3>2. proc'[p] \in [at : Places, row : Nat, action : Action \cup {NoAction}, scope : Scope] BY <3>1
    <3>. QED BY <3>2
  <2>3. rules' \subseteq [family : {FamilyOf[a1] : a1 \in Action}, scope : Scope, row : Nat, by : Proc] BY DEF HoldersFit, TeachersDecided
  <2>4. slots' \in Nat /\ raised' \in Nat /\ orphaned' \in Seq(Action) BY DEF HoldersFit, TeachersDecided
  <2>. QED BY <2>1, <2>2, <2>3, <2>4 DEF HoldersFit, TeachersDecided
<1>2. HoldersFit' BY DEF HoldersFit
<1>3. TeachersDecided'
  <2>1. i # 0 /\ approvals[i].action \in Action BY OnRow
  <2>2. Free(i)' BY <2>1 DEF Free, Holds, HoldersFit
  <2>3. \A q \in Proc : proc[q].at = "learning" /\ proc[q].scope # "once" => proc[q].row # i
    BY DEF TeachersDecided, Settled
  <2>. QED BY <2>1, <2>2, <2>3 DEF TeachersDecided, Settled, Free, Holds, Row
<1>4. RulesStand'
  <2>1. \A j : Settled(j) => Settled(j)' /\ approvals'[j] = approvals[j]
    BY DEF Settled, Free, Holds, HoldersFit, Row
  <2>. QED BY <2>1, RulesStay
<1>5. OneHolder' BY DEF OneHolder, HoldersFit, Holds
<1>6. RunsStand' BY DEF RunsStand, HoldersFit, Stands, Free, Holds, OneHolder
<1>7. KeysReserved' BY DEF KeysReserved, HoldersFit, HasRun
<1>8. OneEffect' BY DEF OneEffect, HoldersFit, HasRun, KeysReserved
<1>9. NoKeyLeftBehind' BY DEF NoKeyLeftBehind, HoldersFit, HasRun, KeysReserved
<1>. QED BY <1>1, <1>2, <1>3, <1>4, <1>5, <1>6, <1>7, <1>8, <1>9 DEF GateInv

LEMMA MoveFits ==
    ASSUME NEW p \in Proc, NEW place \in Places, Move(p, place),
           proc \in [Proc -> [at : Places, row : Nat, action : Action \cup {NoAction}, scope : Scope]]
    PROVE  proc' \in [Proc -> [at : Places, row : Nat, action : Action \cup {NoAction}, scope : Scope]]
<1>1. proc' = [proc EXCEPT ![p].at = place] BY DEF Move
<1>2. [proc[p] EXCEPT !.at = place] \in [at : Places, row : Nat, action : Action \cup {NoAction}, scope : Scope]
  OBVIOUS
<1>. QED BY <1>1, <1>2

LEMMA RefuseKeeps ==
    ASSUME GateInv, NEW p \in Proc, Refuse(p)
    PROVE  GateInv'
<1>. USE GateAssumption DEF GateInv, TypeOK, At, Places, Scope, Refuse, Move
<1>1. TypeOK'
  <2>1. approvals' \in Seq(Row) OBVIOUS
  <2>2. proc' \in [Proc -> [at : Places, row : Nat, action : Action \cup {NoAction}, scope : Scope]]
    BY MoveFits
  <2>3. rules' \subseteq [family : {FamilyOf[a1] : a1 \in Action}, scope : Scope, row : Nat, by : Proc] BY DEF HoldersFit, TeachersDecided
  <2>4. slots' \in Nat /\ raised' \in Nat /\ orphaned' \in Seq(Action) BY DEF HoldersFit, TeachersDecided
  <2>. QED BY <2>1, <2>2, <2>3, <2>4 DEF HoldersFit, TeachersDecided
<1>2. HoldersFit' BY DEF HoldersFit
<1>3. TeachersDecided' BY DEF TeachersDecided, HoldersFit, Settled, Free, Holds, OneHolder
<1>4. RulesStand'
  <2>1. \A j : Settled(j) => Settled(j)' /\ approvals'[j] = approvals[j]
    BY DEF Settled, Free, Holds, HoldersFit, Row
  <2>. QED BY <2>1, RulesStay
<1>5. OneHolder' BY DEF OneHolder, HoldersFit, Holds
<1>6. RunsStand' BY DEF RunsStand, HoldersFit, Stands, Free, Holds, OneHolder
<1>7. KeysReserved' BY DEF KeysReserved, HoldersFit, HasRun
<1>8. OneEffect' BY DEF OneEffect, HoldersFit, HasRun, KeysReserved
<1>9. NoKeyLeftBehind' BY DEF NoKeyLeftBehind, HoldersFit, HasRun, KeysReserved
<1>. QED BY <1>1, <1>2, <1>3, <1>4, <1>5, <1>6, <1>7, <1>8, <1>9 DEF GateInv

LEMMA ClaimKeeps ==
    ASSUME GateInv, NEW p \in Proc, Claim(p)
    PROVE  GateInv'
<1>. USE GateAssumption DEF GateInv, TypeOK, At, Places, Scope, Claim, Move
<1>1. TypeOK' BY DEF HoldersFit
<1>2. HoldersFit' BY DEF HoldersFit
<1>3. TeachersDecided' BY DEF TeachersDecided, HoldersFit, Settled, Free, Holds, OneHolder
<1>4. RulesStand'
  <2>1. \A j : Settled(j) => Settled(j)' /\ approvals'[j] = approvals[j]
    BY DEF Settled, Free, Holds, HoldersFit, Row
  <2>. QED BY <2>1, RulesStay
<1>5. OneHolder' BY DEF OneHolder, HoldersFit, Holds
<1>6. RunsStand' BY DEF RunsStand, HoldersFit, Stands, Free, Holds, OneHolder
<1>7. KeysReserved' BY DEF KeysReserved, HoldersFit, HasRun
<1>8. OneEffect' BY DEF OneEffect, HoldersFit, HasRun, KeysReserved
<1>9. NoKeyLeftBehind' BY DEF NoKeyLeftBehind, HoldersFit, HasRun, KeysReserved
<1>. QED BY <1>1, <1>2, <1>3, <1>4, <1>5, <1>6, <1>7, <1>8, <1>9 DEF GateInv

LEMMA DeduplicateKeeps ==
    ASSUME GateInv, NEW p \in Proc, Deduplicate(p)
    PROVE  GateInv'
<1>. USE GateAssumption DEF GateInv, TypeOK, At, Places, Scope, Deduplicate, Move
<1>1. TypeOK' BY DEF HoldersFit
<1>2. HoldersFit' BY DEF HoldersFit
<1>3. TeachersDecided' BY DEF TeachersDecided, HoldersFit, Settled, Free, Holds, OneHolder
<1>4. RulesStand'
  <2>1. \A j : Settled(j) => Settled(j)' /\ approvals'[j] = approvals[j]
    BY DEF Settled, Free, Holds, HoldersFit, Row
  <2>. QED BY <2>1, RulesStay
<1>5. OneHolder' BY DEF OneHolder, HoldersFit, Holds
<1>6. RunsStand' BY DEF RunsStand, HoldersFit, Stands, Free, Holds, OneHolder
<1>7. KeysReserved' BY DEF KeysReserved, HoldersFit, HasRun
<1>8. OneEffect' BY DEF OneEffect, HoldersFit, HasRun, KeysReserved
<1>9. NoKeyLeftBehind' BY DEF NoKeyLeftBehind, HoldersFit, HasRun, KeysReserved
<1>. QED BY <1>1, <1>2, <1>3, <1>4, <1>5, <1>6, <1>7, <1>8, <1>9 DEF GateInv

\* An execution that returned adds its action to those that ran.
LEMMA RunsGrow ==
    ASSUME NEW x, ran' = ran \cup {x}
    PROVE  HasRun' = HasRun \cup {x.action}
BY DEF HasRun

LEMMA HandlerReturnsKeeps ==
    ASSUME GateInv, NEW p \in Proc, HandlerReturns(p)
    PROVE  GateInv'
<1>. USE GateAssumption DEF GateInv, TypeOK, At, Places, Scope, HandlerReturns, Returned, Move
<1>1. TypeOK'
  <2>1. ran' \subseteq [row : Nat, action : Action, recorded : BOOLEAN]
    <3>1. proc[p].row \in Nat /\ proc[p].action \in Action BY DEF HoldersFit
    <3>2. Returned(p, TRUE) \in [row : Nat, action : Action, recorded : BOOLEAN] BY <3>1
    <3>3. ran' = ran \cup {Returned(p, TRUE)} OBVIOUS
    <3>. QED BY <3>2, <3>3
  <2>2. proc' \in [Proc -> [at : Places, row : Nat, action : Action \cup {NoAction}, scope : Scope]] OBVIOUS
  <2>. QED BY <2>1, <2>2
<1>2. HoldersFit' BY DEF HoldersFit
<1>3. TeachersDecided' BY DEF TeachersDecided, HoldersFit, Settled, Free, Holds, OneHolder
<1>4. RulesStand'
  <2>1. \A j : Settled(j) => Settled(j)' /\ approvals'[j] = approvals[j]
    BY DEF Settled, Free, Holds, HoldersFit, Row
  <2>. QED BY <2>1, RulesStay
<1>5. OneHolder' BY DEF OneHolder, HoldersFit, Holds
<1>6. RunsStand' BY DEF RunsStand, HoldersFit, Stands, Free, Holds, OneHolder
<1>7. KeysReserved' BY DEF KeysReserved, HoldersFit, HasRun
<1>8. OneEffect' BY DEF OneEffect, HoldersFit, HasRun, KeysReserved
<1>9. NoKeyLeftBehind'
  <2>1. HasRun' = HasRun \cup {proc[p].action}
    <3>1. ran' = ran \cup {Returned(p, TRUE)} OBVIOUS
    <3>2. Returned(p, TRUE).action = proc[p].action OBVIOUS
    <3>. HIDE DEF GateInv, TypeOK, HandlerReturns, Returned
    <3>. QED BY <3>1, <3>2, RunsGrow
  <2>. QED BY <2>1 DEF NoKeyLeftBehind
<1>. QED BY <1>1, <1>2, <1>3, <1>4, <1>5, <1>6, <1>7, <1>8, <1>9 DEF GateInv

LEMMA RecordRaisesKeeps ==
    ASSUME GateInv, NEW p \in Proc, RecordRaises(p)
    PROVE  GateInv'
<1>. USE GateAssumption DEF GateInv, TypeOK, At, Places, Scope, RecordRaises, Returned, Move
<1>1. TypeOK'
  <2>1. ran' \subseteq [row : Nat, action : Action, recorded : BOOLEAN]
    <3>1. proc[p].row \in Nat /\ proc[p].action \in Action BY DEF HoldersFit
    <3>2. Returned(p, FALSE) \in [row : Nat, action : Action, recorded : BOOLEAN] BY <3>1
    <3>3. ran' = ran \cup {Returned(p, FALSE)} OBVIOUS
    <3>. QED BY <3>2, <3>3
  <2>2. proc' \in [Proc -> [at : Places, row : Nat, action : Action \cup {NoAction}, scope : Scope]] OBVIOUS
  <2>. QED BY <2>1, <2>2
<1>2. HoldersFit' BY DEF HoldersFit
<1>3. TeachersDecided' BY DEF TeachersDecided, HoldersFit, Settled, Free, Holds, OneHolder
<1>4. RulesStand'
  <2>1. \A j : Settled(j) => Settled(j)' /\ approvals'[j] = approvals[j]
    BY DEF Settled, Free, Holds, HoldersFit, Row
  <2>. QED BY <2>1, RulesStay
<1>5. OneHolder' BY DEF OneHolder, HoldersFit, Holds
<1>6. RunsStand' BY DEF RunsStand, HoldersFit, Stands, Free, Holds, OneHolder
<1>7. KeysReserved' BY DEF KeysReserved, HoldersFit, HasRun
<1>8. OneEffect' BY DEF OneEffect, HoldersFit, HasRun, KeysReserved
<1>9. NoKeyLeftBehind'
  <2>1. HasRun' = HasRun \cup {proc[p].action}
    <3>1. ran' = ran \cup {Returned(p, FALSE)} OBVIOUS
    <3>2. Returned(p, FALSE).action = proc[p].action OBVIOUS
    <3>. HIDE DEF GateInv, TypeOK, RecordRaises, Returned
    <3>. QED BY <3>1, <3>2, RunsGrow
  <2>. QED BY <2>1 DEF NoKeyLeftBehind
<1>. QED BY <1>1, <1>2, <1>3, <1>4, <1>5, <1>6, <1>7, <1>8, <1>9 DEF GateInv

LEMMA HandlerRaisesKeeps ==
    ASSUME GateInv, NEW p \in Proc, HandlerRaises(p)
    PROVE  GateInv'
<1>. USE GateAssumption DEF GateInv, TypeOK, At, Places, Scope, HandlerRaises, Move
<1>1. TypeOK'
  <2>1. approvals' \in Seq(Row) OBVIOUS
  <2>2. proc' \in [Proc -> [at : Places, row : Nat, action : Action \cup {NoAction}, scope : Scope]]
    BY MoveFits
  <2>3. rules' \subseteq [family : {FamilyOf[a1] : a1 \in Action}, scope : Scope, row : Nat, by : Proc] BY DEF HoldersFit, TeachersDecided
  <2>4. slots' \in Nat /\ raised' \in Nat /\ orphaned' \in Seq(Action) BY DEF HoldersFit, TeachersDecided
  <2>. QED BY <2>1, <2>2, <2>3, <2>4 DEF HoldersFit, TeachersDecided
<1>2. HoldersFit' BY DEF HoldersFit
<1>3. TeachersDecided' BY DEF TeachersDecided, HoldersFit, Settled, Free, Holds, OneHolder
<1>4. RulesStand'
  <2>1. \A j : Settled(j) => Settled(j)' /\ approvals'[j] = approvals[j]
    BY DEF Settled, Free, Holds, HoldersFit, Row
  <2>. QED BY <2>1, RulesStay
<1>5. OneHolder' BY DEF OneHolder, HoldersFit, Holds
<1>6. RunsStand' BY DEF RunsStand, HoldersFit, Stands, Free, Holds, OneHolder
<1>7. KeysReserved' BY DEF KeysReserved, HoldersFit, OneEffect, HasRun
<1>8. OneEffect' BY DEF OneEffect, HoldersFit, HasRun, KeysReserved
<1>9. NoKeyLeftBehind' BY DEF NoKeyLeftBehind, HoldersFit, HasRun, KeysReserved
<1>. QED BY <1>1, <1>2, <1>3, <1>4, <1>5, <1>6, <1>7, <1>8, <1>9 DEF GateInv

LEMMA RevertKeeps ==
    ASSUME GateInv, NEW p \in Proc, Revert(p)
    PROVE  GateInv'
<1>. USE GateAssumption DEF GateInv, TypeOK, At, Places, Scope, Revert, Finish, Idle
<1>1. TypeOK'
  <2>1. approvals' \in Seq(Row) BY RowWrite DEF HoldersFit
  <2>2. proc' \in [Proc -> [at : Places, row : Nat, action : Action \cup {NoAction}, scope : Scope]] BY DEF HoldersFit, TeachersDecided
  <2>3. rules' \subseteq [family : {FamilyOf[a1] : a1 \in Action}, scope : Scope, row : Nat, by : Proc] BY DEF HoldersFit, TeachersDecided
  <2>4. slots' \in Nat /\ raised' \in Nat /\ orphaned' \in Seq(Action) BY DEF HoldersFit, TeachersDecided
  <2>. QED BY <2>1, <2>2, <2>3, <2>4 DEF HoldersFit, TeachersDecided
<1>2. HoldersFit'
  <2>1. \A q \in Proc : q # p /\ proc[q].at \in {"allowed", "running", "raised"} =>
            proc[q].row = 0 \/ proc[q].row # proc[p].row
    BY DEF HoldersFit, OneHolder, Holds
  <2>. QED BY <2>1 DEF HoldersFit, Row
<1>3. TeachersDecided' BY DEF TeachersDecided, HoldersFit, Settled, Free, Holds, OneHolder
<1>4. RulesStand'
  <2>1. \A j : Settled(j) => Settled(j)' /\ approvals'[j] = approvals[j]
    BY DEF Settled, Free, Holds, HoldersFit, Row
  <2>. QED BY <2>1, RulesStay
<1>5. OneHolder' BY DEF OneHolder, HoldersFit, Holds
<1>6. RunsStand' BY DEF RunsStand, HoldersFit, Stands, Free, Holds, OneHolder
<1>7. KeysReserved' BY DEF KeysReserved, HoldersFit, HasRun
<1>8. OneEffect' BY DEF OneEffect, HoldersFit, HasRun, KeysReserved
<1>9. NoKeyLeftBehind' BY DEF NoKeyLeftBehind, HoldersFit, HasRun, KeysReserved
<1>. QED BY <1>1, <1>2, <1>3, <1>4, <1>5, <1>6, <1>7, <1>8, <1>9 DEF GateInv

LEMMA LearnKeeps ==
    ASSUME GateInv, NEW p \in Proc, Learn(p)
    PROVE  GateInv'
<1>. USE GateAssumption DEF GateInv, TypeOK, At, Places, Scope, Learn, Finish, Idle, Rule, Taught
<1>1. TypeOK'
  <2>1. approvals' \in Seq(Row) OBVIOUS
  <2>2. proc' \in [Proc -> [at : Places, row : Nat, action : Action \cup {NoAction}, scope : Scope]] BY DEF HoldersFit, TeachersDecided
  <2>3. rules' \subseteq [family : {FamilyOf[a1] : a1 \in Action}, scope : Scope, row : Nat, by : Proc] BY DEF HoldersFit, TeachersDecided
  <2>4. slots' \in Nat /\ raised' \in Nat /\ orphaned' \in Seq(Action) BY DEF HoldersFit, TeachersDecided
  <2>. QED BY <2>1, <2>2, <2>3, <2>4 DEF HoldersFit, TeachersDecided
<1>2. HoldersFit' BY DEF HoldersFit
<1>3. TeachersDecided' BY DEF TeachersDecided, HoldersFit, Settled, Free, Holds, OneHolder
<1>4. RulesStand'
  <2>1. \A j : Settled(j) => Settled(j)' /\ approvals'[j] = approvals[j]
    BY DEF Settled, Free, Holds, HoldersFit, Row
  <2>2. CASE rules' = rules BY <2>1, <2>2, RulesStay
  <2>3. CASE rules' = rules \cup {Rule(p)} /\ proc[p].scope # "once"
    <3>1. /\ Settled(proc[p].row)
          /\ approvals[proc[p].row].action = proc[p].action
          /\ Decision(p, proc[p].scope) \in approvals[proc[p].row].won
      BY <2>3 DEF TeachersDecided
    <3>2. /\ Rule(p).row = proc[p].row /\ Rule(p).by = p
          /\ Rule(p).scope = proc[p].scope /\ Rule(p).family = FamilyOf[proc[p].action]
      OBVIOUS
    <3>. HIDE DEF Rule
    <3>. QED BY <2>1, <2>3, <3>1, <3>2 DEF RulesStand
  <2>. QED BY <2>2, <2>3
<1>5. OneHolder' BY DEF OneHolder, HoldersFit, Holds
<1>6. RunsStand' BY DEF RunsStand, HoldersFit, Stands, Free, Holds, OneHolder
<1>7. KeysReserved' BY DEF KeysReserved, HoldersFit, HasRun
<1>8. OneEffect' BY DEF OneEffect, HoldersFit, HasRun, KeysReserved
<1>9. NoKeyLeftBehind' BY DEF NoKeyLeftBehind, HoldersFit, HasRun, KeysReserved
<1>. QED BY <1>1, <1>2, <1>3, <1>4, <1>5, <1>6, <1>7, <1>8, <1>9 DEF GateInv

LEMMA RevokeKeeps ==
    ASSUME GateInv, NEW r \in rules, Revoke(r)
    PROVE  GateInv'
<1>. USE GateAssumption DEF GateInv, TypeOK, At, Places, Scope, Revoke
<1>1. TypeOK' BY DEF HoldersFit
<1>2. HoldersFit' BY DEF HoldersFit
<1>3. TeachersDecided' BY DEF TeachersDecided, HoldersFit, Settled, Free, Holds, OneHolder
<1>4. RulesStand'
  <2>1. \A j : Settled(j) => Settled(j)' /\ approvals'[j] = approvals[j]
    BY DEF Settled, Free, Holds, HoldersFit, Row
  <2>. QED BY <2>1, RulesStay
<1>5. OneHolder' BY DEF OneHolder, HoldersFit, Holds
<1>6. RunsStand' BY DEF RunsStand, HoldersFit, Stands, Free, Holds, OneHolder
<1>7. KeysReserved' BY DEF KeysReserved, HoldersFit, HasRun
<1>8. OneEffect' BY DEF OneEffect, HoldersFit, HasRun, KeysReserved
<1>9. NoKeyLeftBehind' BY DEF NoKeyLeftBehind, HoldersFit, HasRun, KeysReserved
<1>. QED BY <1>1, <1>2, <1>3, <1>4, <1>5, <1>6, <1>7, <1>8, <1>9 DEF GateInv

LEMMA CrashKeeps ==
    ASSUME GateInv, NEW p \in Proc, Crash(p)
    PROVE  GateInv'
<1>. USE GateAssumption DEF GateInv, TypeOK, At, Places, Scope, Crash, Finish, Idle
<1>1. TypeOK'
  <2>1. approvals' \in Seq(Row) OBVIOUS
  <2>2. proc' \in [Proc -> [at : Places, row : Nat, action : Action \cup {NoAction}, scope : Scope]] BY DEF HoldersFit, TeachersDecided
  <2>3. rules' \subseteq [family : {FamilyOf[a1] : a1 \in Action}, scope : Scope, row : Nat, by : Proc] BY DEF HoldersFit, TeachersDecided
  <2>4. slots' \in Nat /\ raised' \in Nat /\ orphaned' \in Seq(Action) BY DEF HoldersFit, TeachersDecided
  <2>. QED BY <2>1, <2>2, <2>3, <2>4 DEF HoldersFit, TeachersDecided
<1>2. HoldersFit' BY DEF HoldersFit
<1>3. TeachersDecided' BY DEF TeachersDecided, HoldersFit, Settled, Free, Holds, OneHolder
<1>4. RulesStand'
  <2>1. \A j : Settled(j) => Settled(j)' /\ approvals'[j] = approvals[j]
    BY DEF Settled, Free, Holds, HoldersFit, Row
  <2>. QED BY <2>1, RulesStay
<1>5. OneHolder' BY DEF OneHolder, HoldersFit, Holds
<1>6. RunsStand' BY DEF RunsStand, HoldersFit, Stands, Free, Holds, OneHolder
<1>7. KeysReserved' BY DEF KeysReserved, HoldersFit, HasRun
<1>8. OneEffect' BY DEF OneEffect, HoldersFit, HasRun, KeysReserved
<1>9. NoKeyLeftBehind'
  <2>. SUFFICES ASSUME NEW k \in seen
       PROVE  \/ k \in HasRun'
              \/ \E q \in Proc : At(q, "running")' /\ proc'[q].action = k
              \/ \E n \in DOMAIN orphaned' : orphaned'[n] = k
    BY DEF NoKeyLeftBehind
  <2>1. HasRun' = HasRun BY DEF HasRun
  <2>2. proc[p].action \in Action BY DEF HoldersFit, TeachersDecided
  <2>3. orphaned'[Len(orphaned) + 1] = proc[p].action /\ Len(orphaned) + 1 \in DOMAIN orphaned'
    BY <2>2
  <2>4. \A n \in DOMAIN orphaned : n \in DOMAIN orphaned' /\ orphaned'[n] = orphaned[n] BY <2>2
  <2>5. CASE At(p, "running") /\ proc[p].action = k BY <2>3, <2>5
  <2>6. CASE \E q \in Proc \ {p} : At(q, "running") /\ proc[q].action = k BY <2>6
  <2>. QED BY <2>1, <2>4, <2>5, <2>6 DEF NoKeyLeftBehind
<1>. QED BY <1>1, <1>2, <1>3, <1>4, <1>5, <1>6, <1>7, <1>8, <1>9 DEF GateInv

\* The inductive step, one lemma an action.
LEMMA NextKeeps ==
    ASSUME GateInv, [Next]_vars
    PROVE  GateInv'
<1>1. CASE UNCHANGED vars
  BY <1>1 DEF vars, GateInv, TypeOK, HoldersFit, TeachersDecided, RulesStand, OneHolder, RunsStand, KeysReserved,
              OneEffect, NoKeyLeftBehind, Stands, Settled, Free, Holds, HasRun, At
<1>2. ASSUME NEW p \in Proc, NEW a \in Action, Propose(p, a) \/ ProposeOnly(p, a) \/ AskInChat(p, a)
      PROVE GateInv'
  BY <1>2, ByRuleKeeps, ByLadderKeeps, EnqueueKeeps DEF Propose, ProposeOnly, AskInChat
<1>3. ASSUME NEW p \in Proc, NEW i \in DOMAIN approvals, NEW s \in Scope, Approve(p, i, s) \/ Reject(p, i, s)
      PROVE GateInv'
  BY <1>3, ApproveKeeps, RejectKeeps
<1>4. ASSUME NEW p \in Proc,
             \/ Refuse(p) \/ Claim(p) \/ Deduplicate(p)
             \/ HandlerReturns(p) \/ RecordRaises(p) \/ HandlerRaises(p) \/ Revert(p) \/ Learn(p) \/ Crash(p)
      PROVE GateInv'
  BY <1>4, RefuseKeeps, ClaimKeeps, DeduplicateKeeps, HandlerReturnsKeeps, RecordRaisesKeeps, HandlerRaisesKeeps, RevertKeeps,
     LearnKeeps, CrashKeeps
<1>. QED BY <1>1, <1>2, <1>3, <1>4, RevokeKeeps DEF Next

LEMMA GateInvariant == Spec => []GateInv
<1>1. Init => GateInv
  BY GateAssumption DEF Init, Idle, At, GateInv, TypeOK, Places, Scope, HoldersFit, TeachersDecided, RulesStand,
     OneHolder, RunsStand, KeysReserved, OneEffect, NoKeyLeftBehind, HasRun
<1>. QED BY <1>1, NextKeeps, PTL DEF Spec

(* Whatever processes call the gateway, and whatever dies or fails on the   *)
(* way, no action is executed by two at once or again after it ran.         *)
THEOREM ActionsRunOnce == Spec => []OneEffect
<1>1. GateInv => OneEffect BY DEF GateInv
<1>. QED BY <1>1, GateInvariant, PTL

(* A waiting or rejected row has not run and is worked on by nobody, and an *)
(* approved one by at most one process.                                     *)
THEOREM RowsDecidedOnce == Spec => []RowHasOneDecision
<1>1. GateInv => RowHasOneDecision
  BY DEF GateInv, RowHasOneDecision, HoldersFit, OneHolder, RunsStand, Stands, Holds, TypeOK
<1>. QED BY <1>1, GateInvariant, PTL

(* A key is reserved only for an execution that returned, is under way, or  *)
(* died.                                                                    *)
THEOREM KeysAreReturned == Spec => []NoKeyLeftBehind
<1>1. GateInv => NoKeyLeftBehind BY DEF GateInv
<1>. QED BY <1>1, GateInvariant, PTL

(* Every standing rule has behind it a decision that took effect, with its *)
(* scope, won by the process that taught it.                                *)
THEOREM RulesComeFromDecisions == Spec => []RulesWereTaught
<1>1. GateInv => RulesWereTaught BY DEF GateInv, RulesStand, Settled, RulesWereTaught
<1>. QED BY <1>1, GateInvariant, PTL
=============================================================================
