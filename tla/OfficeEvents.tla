----------------------------- MODULE OfficeEvents -----------------------------
(***************************************************************************)
(* What the rows of a room mean to its readers: the tick and the workers,  *)
(* which post a row beside each of their writes, and the two folds of the  *)
(* web client over them, the thread of the chat (chat-state.ts with        *)
(* thread-folding.ts) and the desks of the office (agent-office-state.ts). *)
(* A store write is fenced by the attempt that holds the lease; the row    *)
(* beside it is not, and a process may die between the two.                *)
(*                                                                         *)
(* The rows of a workroom reach the thread in the order of their seq (the  *)
(* property WorkroomRowsArriveInOrder of OfficeStream), so a post is folded *)
(* where it happens.  The desks read the overview instead: a mirror of each *)
(* row, inserted after it and perhaps lost, that two streams of the office  *)
(* page push into one cache as they come.  Both may begin with a tail, at   *)
(* different rows, so an old row can come after a newer one; nothing sorts  *)
(* the cache.  Left out: the display fields of a desk (titles, phase,       *)
(* verdict, deep team, telemetry), consults, PIC badges, and the overview's *)
(* rows that move no desk, the CEO's among them.                            *)
(***************************************************************************)
EXTENDS Naturals, Sequences, FiniteSets, FiniteSetsExt

CONSTANTS
    Step, TaskOf, AgentOf,  \* the steps, the task and the assignee of each
    Review,       \* the steps that are reviews of others
    Outcome,      \* how a worker's graph may end
    Nobody,       \* no row is owed
    MaxAttempt,   \* bound: attempts reserved in all
    MaxRows,      \* bound: rows the room gets
    MaxLost       \* bound: processes that die and mirror rows that fail

ASSUME OutcomeAssumption == Outcome \subseteq {"done", "failed", "needs_decision", "waiting_clarify"}
ASSUME StepAssumption == Review \subseteq Step
ASSUME BoundAssumption == MaxAttempt \in Nat /\ MaxRows \in Nat /\ MaxLost \in Nat

VARIABLES
    row,       \* the step rows of the store: status, attempt, is the pid recorded
    proc,      \* the worker process of each attempt
    owed,      \* the row the tick has yet to append for what it just wrote
    mirror,    \* the row each writer has yet to mirror, after its workroom's
    overview,  \* the rows of the overview
    pos,       \* where the page's overview streams are, floor and feed; 0: cold
    arrived,   \* the cache of the overview: which of its rows came
    cached,    \* what the cache, in the order the rows came, makes of each desk
    desk,      \* what the floor shows of it
    thread,    \* the items of the workroom's thread
    posted,    \* rows the workroom got, by class (history)
    lost       \* counter of the bounded losses

page  == <<pos, arrived, cached, desk>>
store == <<row, proc, owed, mirror, overview, thread, posted, lost>>
vars  == <<store, page>>

Attempt == 1..MaxAttempt
Agent   == {AgentOf[s] : s \in Step}
Ticker  == 0
Writer  == Attempt \cup {Ticker}
Mount   == {"floor", "feed"}
Owner(n) == CHOOSE s \in Step : proc[n].step = s
Alive(n) == proc[n].at \in {"fresh", "started"}

(***************************************************************************)
(* Rows.  attempt 0 is a row that names no attempt; a phase row is posted  *)
(* by the worker in mid-run.                                               *)
(***************************************************************************)
RowOf(s, kind, status, author, attempt, phase) ==
    [kind |-> kind, task |-> TaskOf[s], step |-> s, agent |-> AgentOf[s],
     status |-> status, author |-> author, attempt |-> attempt, phase |-> phase]

Dispatched(s) == RowOf(s, "step_status", "started", "coordinator", 0, FALSE)
TimedOut(s)   == RowOf(s, "step_status", "failed", "coordinator", 0, FALSE)
Phase(s, n)   == RowOf(s, "step_status", "started", AgentOf[s], n, TRUE)
\* Faulty: a failure names no attempt.
EndedNameless(s, n, outcome) ==
    IF outcome # "done" THEN RowOf(s, "step_status", outcome, AgentOf[s], 0, FALSE)
    ELSE RowOf(s, IF s \in Review THEN "review" ELSE "handoff", "", AgentOf[s],
               IF s \in Review THEN n ELSE 0, FALSE)
Ended(s, n, outcome) ==
    IF outcome # "done" THEN RowOf(s, "step_status", outcome, AgentOf[s], n, FALSE)
    ELSE RowOf(s, IF s \in Review THEN "review" ELSE "handoff", "", AgentOf[s],
               IF s \in Review THEN n ELSE 0, FALSE)

ASSUME NobodyAssumption ==
    /\ Nobody \notin Step
    /\ \A s \in Step : AgentOf[s] # Nobody /\ Nobody \notin {Dispatched(s), TimedOut(s)}

Message == [kind |-> "ceo", task |-> Nobody, step |-> Nobody, agent |-> Nobody,
            status |-> "", author |-> "ceo", attempt |-> 0, phase |-> FALSE]

\* What a reader must be able to find again.
Class(e) == IF e.kind = "step_status" /\ e.status = "failed" THEN "failed" ELSE e.kind
Classes  == {"failed", "step_status", "handoff", "review", "ceo"}

(***************************************************************************)
(* The thread: applyEvent on a history row.                                *)
(***************************************************************************)
\* Faulty: any row of the task joins the block.
ExtendsTaskBlock(last, e) ==
    last.body.kind = "step_status" /\ last.body.status # "failed" /\ last.body.task = e.task

ExtendsStepBlock(last, e) ==
    /\ last.body.kind = "step_status" /\ e.kind = "step_status"
    /\ last.body.status # "failed" /\ e.status # "failed"
    /\ last.body.task = e.task

\* Keyed on what the reader sees: the attempt is not part of it.
RepeatKey(e) == [e EXCEPT !.attempt = 0]

ExtendsRepeat(last, e) ==
    /\ last.body.kind # "ceo" /\ e.kind # "ceo"
    /\ RepeatKey(last.body) = RepeatKey(e)

ApplyEvent(items, e) ==
    LET n == Len(items)
        last == items[n]
    IN  IF n > 0 /\ ExtendsStepBlock(last, e)
        THEN [items EXCEPT ![n] = [body |-> e, steps |-> @.steps + 1, repeats |-> @.repeats]]
        ELSE IF n > 0 /\ ExtendsRepeat(last, e)
        THEN [items EXCEPT ![n].repeats = @ + 1]
        ELSE Append(items, [body |-> e, steps |-> 1, repeats |-> 1])

(***************************************************************************)
(* The desks: one step of deriveAgentDesks.                                *)
(***************************************************************************)
\* late (history): what turned it red was an old timeout row that came after a
\* newer row of its agent.
IdleDesk == [state |-> "idle", attempt |-> 0, live |-> 0, late |-> FALSE]

NextState(status) ==
    CASE status = "started" -> "working"
      [] status = "waiting_clarify" -> "assigned"
      [] OTHER -> "error"

\* Faulty: the counter is not clamped.
OneLessOrMinus(n) == n - 1
OneLess(n) == IF n = 0 THEN 0 ELSE n - 1

\* The zombie-attempt guard: a row of another attempt than the tracked one.
Stale(d, e) == e.attempt # 0 /\ d.attempt # 0 /\ e.attempt # d.attempt

DeskAfter(d, e) ==
    CASE e.kind \in {"handoff", "review"} -> [d EXCEPT !.live = OneLess(@), !.state = "done"]
      [] e.kind = "step_status" /\ e.attempt = 0 /\ e.status = "started" ->
           [d EXCEPT !.state = "working", !.attempt = 0, !.live = @ + 1]
      [] e.kind = "step_status" /\ Stale(d, e) -> d
      [] OTHER ->
           [d EXCEPT !.state   = NextState(e.status),
                     !.attempt = IF e.attempt # 0 THEN e.attempt ELSE @,
                     !.live    = IF e.status \in {"failed", "needs_decision"} THEN OneLess(@) ELSE @]

Init ==
    /\ row = [s \in Step |-> [status |-> "pending", attempt |-> 0, pid |-> FALSE]]
    /\ proc = [n \in Attempt |-> [step |-> Nobody, at |-> "none"]]
    /\ owed = Nobody /\ mirror = [w \in Writer |-> Nobody] /\ overview = <<>> /\ lost = 0
    /\ thread = <<>> /\ posted = [c \in Classes |-> 0]
    /\ pos = [m \in Mount |-> 0] /\ arrived = {}
    /\ cached = [a \in Agent |-> IdleDesk] /\ desk = cached

(***************************************************************************)
(* append_office_event: the row of the workroom, then that of the overview; *)
(* its writer goes on when both are in, or the second one failed.           *)
(***************************************************************************)
Post(e) ==
    /\ MapThenSumSet(LAMBDA c : posted[c], Classes) < MaxRows
    /\ thread' = ApplyEvent(thread, e)
    /\ posted' = [posted EXCEPT ![Class(e)] = @ + 1]

PostAndMirror(e, w) == Post(e) /\ mirror' = [mirror EXCEPT ![w] = e]

Mirror(w) ==
    /\ mirror[w] # Nobody /\ mirror' = [mirror EXCEPT ![w] = Nobody]
    /\ \/ overview' = Append(overview, mirror[w]) /\ UNCHANGED lost
       \/ lost < MaxLost /\ lost' = lost + 1 /\ UNCHANGED overview
    /\ UNCHANGED <<row, proc, owed, thread, posted, page>>

Silent == UNCHANGED <<overview, thread, posted, page>>

(***************************************************************************)
(* The tick, one process at a time under its flock.                        *)
(***************************************************************************)
TickIsFree == owed = Nobody /\ mirror[Ticker] = Nobody

\* A step that is pending, or handed back by a ruling, or answered, or whose
\* running worker has no live pid: reserve, spawn, and only then the row.
Dispatch(s) ==
    /\ TickIsFree
    /\ \/ row[s].status \in {"pending", "failed", "timeout", "needs_decision", "waiting_clarify"}
       \/ /\ row[s].status = "running"
          /\ ~row[s].pid \/ ~Alive(row[s].attempt)
    /\ \E n \in Attempt :
         /\ proc[n].at = "none" /\ \A m \in 1..n-1 : proc[m].at # "none"
         /\ row' = [row EXCEPT ![s] = [status |-> "running", attempt |-> n, pid |-> TRUE]]
         /\ proc' = [proc EXCEPT ![n] = [step |-> s, at |-> "fresh"]]
    /\ owed' = Dispatched(s)
    /\ Silent /\ UNCHANGED <<mirror, lost>>

\* A worker that is killed, or dies, takes the mirror it had yet to write along.
Gone(n) ==
    /\ proc' = [proc EXCEPT ![n].at = "gone"]
    /\ mirror' = [mirror EXCEPT ![n] = Nobody]

\* The lease ran out: the kill may miss, the row and its event do not wait.
Timeout(s) ==
    /\ TickIsFree /\ row[s].status = "running" /\ row[s].pid /\ Alive(row[s].attempt)
    /\ row' = [row EXCEPT ![s].status = "timeout"]
    /\ Gone(row[s].attempt) \/ UNCHANGED <<proc, mirror>>
    /\ owed' = TimedOut(s)
    /\ Silent /\ UNCHANGED lost

\* The pid is dead and the retry budget spent: failed, with no step row.
GiveUp(s) ==
    /\ TickIsFree /\ row[s].status = "running" /\ row[s].pid /\ ~Alive(row[s].attempt)
    /\ row' = [row EXCEPT ![s].status = "failed"]
    /\ Silent /\ UNCHANGED <<proc, owed, mirror, lost>>

AppendOwed ==
    /\ owed # Nobody
    /\ PostAndMirror(owed, Ticker) /\ owed' = Nobody
    /\ UNCHANGED <<row, proc, overview, lost, page>>

\* The tick dies before the append; after a spawn perhaps before the pid is
\* recorded.
Crash ==
    /\ owed # Nobody /\ lost < MaxLost /\ lost' = lost + 1
    /\ \E recorded \in BOOLEAN :
         row' = [row EXCEPT ![owed.step].pid = IF owed.status = "started" THEN recorded ELSE @]
    /\ owed' = Nobody
    /\ Silent /\ UNCHANGED <<proc, mirror>>

(***************************************************************************)
(* The worker of attempt n.                                                *)
(***************************************************************************)
Holds(n) == row[Owner(n)].attempt = n

\* verify_attempt: a worker without the lease leaves in silence.
Start(n) ==
    /\ proc[n].at = "fresh"
    /\ proc' = [proc EXCEPT ![n].at = IF Holds(n) THEN "started" ELSE "gone"]
    /\ Silent /\ UNCHANGED <<row, owed, mirror, lost>>

\* A node of the graph begins; nobody looks at the lease again.
PostPhase(n) ==
    /\ proc[n].at = "started" /\ mirror[n] = Nobody
    /\ PostAndMirror(Phase(Owner(n), n), n)
    /\ UNCHANGED <<row, proc, owed, overview, lost, page>>

\* The terminal write, fenced by the attempt.
Write(n, outcome) ==
    /\ proc[n].at = "started" /\ mirror[n] = Nobody
    /\ row' = IF Holds(n) THEN [row EXCEPT ![Owner(n)].status = outcome] ELSE row
    /\ proc' = [proc EXCEPT ![n].at = outcome]
    /\ Silent /\ UNCHANGED <<owed, mirror, lost>>

\* The row beside it, whether the write took effect or not.
Report(n) ==
    /\ proc[n].at \in Outcome
    /\ PostAndMirror(Ended(Owner(n), n, proc[n].at), n)
    /\ proc' = [proc EXCEPT ![n].at = "gone"]
    /\ UNCHANGED <<row, owed, overview, lost, page>>

Die(n) ==
    /\ proc[n].at \in {"fresh", "started"} \cup Outcome
    /\ lost < MaxLost /\ lost' = lost + 1
    /\ Gone(n)
    /\ Silent /\ UNCHANGED <<row, owed>>

\* The CEO writes into the workroom.
Say == Post(Message) /\ UNCHANGED <<row, proc, owed, mirror, overview, lost, page>>

(***************************************************************************)
(* The office page.  A stream that has brought no row is cold, as is a page *)
(* that is not open yet; a reload is a page that is opened later: what its  *)
(* desks showed before is gone with it.                                     *)
(***************************************************************************)
\* Back from another screen, or from the workroom that was selected in the feed:
\* the stream asks for what follows the highest row in the cache, and the screen
\* begins with the cache.
Reopen(m) ==
    /\ arrived # {} /\ pos' = [pos EXCEPT ![m] = Max(arrived)]
    /\ desk' = IF m = "floor" THEN cached ELSE desk
    /\ UNCHANGED <<store, arrived, cached>>

\* A timeout row that comes after a newer row of its agent.
ComesLate(i) ==
    LET e == overview[i]
    IN  e = TimedOut(e.step) /\ \E j \in arrived : i < j /\ overview[j].agent = e.agent

FoldRow(d, i) ==
    LET next == DeskAfter(d, overview[i])
    IN  [next EXCEPT !.late = next.state = "error" /\ (d.late \/ ComesLate(i))]

\* The next row of a stream.  A cold one asks for a tail, which begins anywhere
\* (the overview's seq counts the rows of all rooms, and each stream asks at its
\* own time), and asks again when it breaks before its first row.  A row the
\* other stream brought is dropped before the screen is set.
Deliver(m, i) ==
    /\ i \in DOMAIN overview
    /\ pos[m] = 0 \/ i = pos[m] + 1
    /\ pos' = [pos EXCEPT ![m] = i]
    /\ arrived' = arrived \cup {i}
    /\ LET a == overview[i].agent IN
       cached' = IF i \in arrived THEN cached ELSE [cached EXCEPT ![a] = FoldRow(@, i)]
    /\ desk' = IF m = "floor" /\ i \notin arrived THEN cached' ELSE desk
    /\ UNCHANGED store

Tick == AppendOwed \/ Crash \/ \E s \in Step : Dispatch(s) \/ Timeout(s) \/ GiveUp(s)
Worker(n) == Start(n) \/ PostPhase(n) \/ Report(n) \/ Die(n) \/ \E o \in Outcome : Write(n, o)
Page == \E m \in Mount : Reopen(m) \/ \E i \in 1..MaxRows : Deliver(m, i)
Next ==
    \/ Tick \/ Say \/ Page
    \/ \E n \in Attempt : Worker(n)
    \/ \E w \in Writer : Mirror(w)

Spec == Init /\ [][Next]_vars
-----------------------------------------------------------------------------
(***************************************************************************)
(* Properties.                                                             *)
(***************************************************************************)
(* The types of rows, processes, streams, thread and desks; the tick owes a *)
(* dispatch or a timeout row and nothing else; no live-step counter of a    *)
(* desk goes below zero.                                                    *)
TypeOK ==
    /\ row \in [Step -> [status : {"pending", "running", "timeout"} \cup Outcome \cup {"failed"},
                         attempt : Nat, pid : BOOLEAN]]
    /\ proc \in [Attempt -> [step : Step \cup {Nobody},
                             at : {"none", "fresh", "started", "gone"} \cup Outcome]]
    /\ owed \in {Nobody} \cup {Dispatched(s) : s \in Step} \cup {TimedOut(s) : s \in Step}
    /\ pos \in [Mount -> Nat]
    /\ arrived \subseteq DOMAIN overview /\ lost \in 0..MaxLost
    /\ posted \in [Classes -> Nat]
    /\ \A i \in DOMAIN thread : thread[i].steps \in Nat \ {0} /\ thread[i].repeats \in Nat \ {0}
    /\ \A a \in Agent : \A d \in {cached[a], desk[a]} :
         /\ d.state \in {"idle", "assigned", "working", "error", "done"}
         /\ d.attempt \in Attempt \cup {0} /\ d.live \in Nat

\* The rows an item stands for, numbered within the item: a block counts steps,
\* a repeated line repeats.
Weight(i) == thread[i].steps + thread[i].repeats - 1
Shown(c)  == UNION {{<<i, k>> : k \in 1..Weight(i)} : i \in {j \in DOMAIN thread : Class(thread[j].body) = c}}

(* Folding loses nothing a reader must find: of every class, failures apart *)
(* from other step rows, the items of the thread stand for exactly the rows *)
(* that came (thread-folding.ts: a handoff or a review after a run of steps *)
(* is not absorbed, a failure is not overwritten by the retry's start, two  *)
(* messages of the CEO are two).                                            *)
NothingVanishes ==
    /\ \A c \in Classes : Cardinality(Shown(c)) = posted[c]
    /\ \A i \in DOMAIN thread : thread[i].body.kind = "ceo" => Weight(i) = 1

Alone(s) == \A r \in Step : AgentOf[r] = AgentOf[s] => r = s

(* A desk that follows the live attempt of its agent's one step is not red: *)
(* neither a superseded worker's failure, however late it comes, nor a lost *)
(* or late dispatch row, nor a timeout that was retried paints it over      *)
(* (team_step_runner.py, the reason why a failure names its attempt).  What *)
(* the code does not promise is left out: the row of a timeout names no     *)
(* attempt, and one that comes after a newer row of its agent paints the    *)
(* desk of the retry.                                                       *)
NoFalseRedDesk ==
    \A s \in Step :
        LET d == desk[AgentOf[s]] IN
        Alone(s) /\ row[s].status = "running" /\ d.attempt = row[s].attempt
            => d.state # "error" \/ d.late
=============================================================================
