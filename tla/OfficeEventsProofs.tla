-------------------------- MODULE OfficeEventsProofs --------------------------
(***************************************************************************)
(* Proofs about OfficeEvents, for any steps, agents, outcomes and bounds:  *)
(* the desk that follows the live attempt of its agent's step is not red   *)
(* unless an old timeout row came late, and the thread stands for exactly  *)
(* the rows that came.                                                     *)
(***************************************************************************)
EXTENDS OfficeEvents, FiniteSetTheorems, SequenceTheorems, TLAPS

----------------------------------------------------------------------------
(* The inductive strengthening of NoFalseRedDesk.                           *)

ProcState == {"none", "fresh", "started", "gone"} \cup Outcome

Desk == [state : {"idle", "assigned", "working", "error", "done"},
         attempt : Attempt \cup {0}, live : Nat, late : BOOLEAN]

Types ==
    /\ row \in [Step -> [status : {"pending", "running", "timeout", "failed"} \cup Outcome,
                         attempt : Attempt \cup {0}, pid : BOOLEAN]]
    /\ proc \in [Attempt -> [step : Step \cup {Nobody}, at : ProcState]]
    /\ owed \in {Nobody} \cup {Dispatched(s) : s \in Step} \cup {TimedOut(s) : s \in Step}
    /\ DOMAIN mirror = Writer /\ mirror = [w \in Writer |-> mirror[w]]
    /\ \E V : overview \in Seq(V)
    /\ arrived \subseteq DOMAIN overview

DeskTypes == cached \in [Agent -> Desk] /\ desk \in [Agent -> Desk]

\* The processes: a spawned one works on a step, a running row names a spawned
\* attempt of its step, and a worker that has ended holds no running row (its
\* fenced write took effect, or another attempt holds the lease).
Holding(s, n) == row[s].status = "running" /\ row[s].attempt = n

ProcsInv ==
    /\ \A n \in Attempt : proc[n].at # "none" => proc[n].step \in Step
    /\ \A s \in Step : row[s].status = "running" =>
          /\ row[s].attempt \in Attempt
          /\ proc[row[s].attempt].at # "none" /\ proc[row[s].attempt].step = s
    /\ \A n \in Attempt : proc[n].at \in Outcome => ~Holding(proc[n].step, n)

\* A row that can turn a desk red.
Red(e) == e.kind \notin {"handoff", "review"} /\ e.status \notin {"started", "waiting_clarify"}

\* A row names an attempt that was made, for the agent of its step; a red one
\* without an attempt is a timeout's, and the attempt of another holds nothing.
Known(e) ==
    /\ e.attempt \in Attempt \cup {0}
    /\ Red(e) /\ e.attempt = 0 => \E s \in Step : e = TimedOut(s)
    /\ e.attempt # 0 =>
          /\ proc[e.attempt].at # "none" /\ e.agent = AgentOf[proc[e.attempt].step]
          /\ Red(e) => proc[e.attempt].at = "gone" /\ ~Holding(proc[e.attempt].step, e.attempt)

RowsInv ==
    /\ \A w \in Writer : mirror[w] # Nobody => Known(mirror[w])
    /\ \A i \in DOMAIN overview : Known(overview[i])

\* While the row of a timeout is owed or unmirrored its step does not run again,
\* and none but the tick writes one.
TimeoutFirst ==
    \A s \in Step :
        /\ owed = TimedOut(s) => row[s].status # "running"
        /\ \A w \in Writer : mirror[w] = TimedOut(s) => w = Ticker /\ row[s].status # "running"

\* In the overview the timeouts of a step precede the rows of its live attempt.
TimeoutBefore ==
    \A s \in Step : row[s].status = "running" =>
        \A i, j \in DOMAIN overview :
            overview[i] = TimedOut(s) /\ overview[j].attempt = row[s].attempt => i < j

\* A desk follows an attempt only when a row of it came.
Follows(desks) ==
    \A a \in Agent : desks[a].attempt # 0 =>
        \E j \in arrived : overview[j].attempt = desks[a].attempt /\ overview[j].agent = a

NotRed(desks) ==
    \A s \in Step :
        LET d == desks[AgentOf[s]] IN
        Alone(s) /\ row[s].status = "running" /\ d.attempt = row[s].attempt
            => d.state # "error" \/ d.late

DesksInv == Follows(cached) /\ Follows(desk) /\ NotRed(cached) /\ NotRed(desk)

StoreInv == Types /\ ProcsInv /\ RowsInv /\ TimeoutFirst /\ TimeoutBefore
DeskInv  == StoreInv /\ DeskTypes /\ DesksInv

----------------------------------------------------------------------------
(* What every step leaves: a process keeps its step, one that is gone is    *)
(* gone, and a row that runs ran already or has an attempt of its own.      *)

Moves ==
    /\ \A n \in Attempt : proc[n].at # "none" =>
          /\ proc'[n].at # "none" /\ proc'[n].step = proc[n].step
          /\ proc[n].at = "gone" => proc'[n].at = "gone"
    /\ \A s \in Step : row'[s].status = "running" =>
          \/ row[s].status = "running" /\ row'[s].attempt = row[s].attempt
          \/ /\ row'[s].attempt \in Attempt /\ proc[row'[s].attempt].at = "none"
             /\ proc'[row'[s].attempt].at = "fresh" /\ proc'[row'[s].attempt].step = s

LEMMA OwnerIsStep ==
    ASSUME ProcsInv, NEW n \in Attempt, proc[n].at # "none"
    PROVE  Owner(n) = proc[n].step /\ Owner(n) \in Step
BY DEF Owner, ProcsInv

\* The steps that write no row of the store.
LEMMA StillMoves == ASSUME UNCHANGED <<row, proc>> PROVE Moves
BY DEF Moves

LEMMA GoneMoves ==
    ASSUME Types, NEW n \in Attempt, NEW at \in ProcState \ {"none"}, at = "gone" \/ proc[n].at # "gone",
           proc' = [proc EXCEPT ![n].at = at],
           \A s \in Step : /\ row'[s].attempt = row[s].attempt
                           /\ row'[s].status = "running" => row[s].status = "running"
    PROVE  Moves
BY DEF Moves, Types

LEMMA EveryStepMoves ==
    ASSUME Types, ProcsInv, [Next]_vars PROVE Moves /\ Types'
<1>. DEFINE Row == [status : {"pending", "running", "timeout", "failed"} \cup Outcome,
                    attempt : Attempt \cup {0}, pid : BOOLEAN]
            Proc == [step : Step \cup {Nobody}, at : ProcState]
            ProcRow == row \in [Step -> Row] /\ proc \in [Attempt -> Proc]
            Mir == DOMAIN mirror = Writer /\ mirror = [w \in Writer |-> mirror[w]]
            Owe == owed \in {Nobody} \cup {Dispatched(s) : s \in Step} \cup {TimedOut(s) : s \in Step}
            Ov == (\E V : overview \in Seq(V)) /\ arrived \subseteq DOMAIN overview
<1>0. ProcRow /\ Mir /\ Owe /\ Ov BY DEF Types
<1>t. ASSUME ProcRow', Mir', Owe', Ov' PROVE Types' BY <1>t DEF Types
<1>r. (\A s \in Step : row[s] \in Row) /\ (\A n \in Attempt : proc[n] \in Proc) BY <1>0
<1>m. ASSUME NEW w, NEW e, mirror' = [mirror EXCEPT ![w] = e] PROVE Mir' BY <1>0, <1>m
<1>s. ASSUME UNCHANGED <<overview, arrived>> PROVE Ov' BY <1>0, <1>s
<1>1. CASE AppendOwed
  <2>1. row' = row /\ proc' = proc /\ owed' = Nobody /\ UNCHANGED <<overview, arrived>>
        /\ mirror' = [mirror EXCEPT ![Ticker] = owed]
    BY <1>1 DEF AppendOwed, PostAndMirror, page
  <2>. QED BY <1>0, <1>t, <1>m, <1>s, <2>1, StillMoves
<1>2. CASE Crash
  <2>1. PICK recorded \in BOOLEAN :
           row' = [row EXCEPT ![owed.step].pid = IF owed.status = "started" THEN recorded ELSE @]
    BY <1>2 DEF Crash
  <2>. DEFINE k == owed.step
              b == IF owed.status = "started" THEN recorded ELSE row[k].pid
  <2>2. row' = [row EXCEPT ![k].pid = b] BY <2>1
  <2>3. k \in Step => b \in BOOLEAN BY <1>r
  <2>4. proc' = proc /\ owed' = Nobody /\ mirror' = mirror /\ UNCHANGED <<overview, arrived>>
    BY <1>2 DEF Crash, Silent, page
  <2>. HIDE DEF k, b
  <2>5. row' \in [Step -> Row] BY <1>0, <2>2, <2>3
  <2>6. \A s \in Step : row'[s].status = row[s].status /\ row'[s].attempt = row[s].attempt BY <1>0, <2>2
  <2>7. Moves BY <2>4, <2>6 DEF Moves
  <2>. QED BY <1>0, <1>t, <1>s, <2>4, <2>5, <2>7
<1>3. ASSUME NEW s \in Step, Dispatch(s) PROVE Moves /\ Types'
  <2>1. PICK n \in Attempt :
           /\ proc[n].at = "none"
           /\ row' = [row EXCEPT ![s] = [status |-> "running", attempt |-> n, pid |-> TRUE]]
           /\ proc' = [proc EXCEPT ![n] = [step |-> s, at |-> "fresh"]]
    BY <1>3 DEF Dispatch
  <2>2. owed' = Dispatched(s) /\ mirror' = mirror /\ UNCHANGED <<overview, arrived>>
    BY <1>3 DEF Dispatch, Silent, page
  <2>3. ProcRow' BY <1>0, <2>1 DEF ProcState
  <2>4. Moves BY <1>0, <2>1 DEF Moves
  <2>. QED BY <1>0, <1>t, <1>s, <2>2, <2>3, <2>4
<1>g. ASSUME NEW n \in Attempt, NEW at \in ProcState \ {"none"}, at = "gone" \/ proc[n].at # "gone",
             proc' = [proc EXCEPT ![n].at = at],
             \A s \in Step : /\ row'[s].attempt = row[s].attempt
                             /\ row'[s].status = "running" => row[s].status = "running"
      PROVE  Moves /\ proc' \in [Attempt -> Proc]
  BY <1>0, <1>g, GoneMoves
<1>4. ASSUME NEW s \in Step, Timeout(s) \/ GiveUp(s) PROVE Moves /\ Types'
  <2>1. PICK st \in {"timeout", "failed"} : row' = [row EXCEPT ![s].status = st]
    BY <1>4 DEF Timeout, GiveUp
  <2>2. owed' \in {owed, TimedOut(s)} /\ UNCHANGED <<overview, arrived>>
    BY <1>4 DEF Timeout, GiveUp, Silent, page
  <2>3. row' \in [Step -> Row] BY <1>0, <2>1
  <2>4. \A u \in Step : /\ row'[u].attempt = row[u].attempt
                        /\ row'[u].status = "running" => row[u].status = "running"
    BY <1>0, <2>1
  <2>5. (proc' = proc /\ mirror' = mirror) \/ (row[s].status = "running" /\ Gone(row[s].attempt))
    BY <1>4 DEF Timeout, GiveUp
  <2>6. CASE proc' = proc /\ mirror' = mirror
    <3>1. Moves BY <2>4, <2>6 DEF Moves
    <3>. QED BY <1>0, <1>t, <1>s, <2>2, <2>3, <2>6, <3>1
  <2>7. CASE row[s].status = "running" /\ Gone(row[s].attempt)
    <3>. DEFINE k == row[s].attempt
    <3>1. k \in Attempt /\ "gone" \in ProcState \ {"none"} BY <2>7 DEF ProcsInv, ProcState
    <3>2. proc' = [proc EXCEPT ![k].at = "gone"] /\ mirror' = [mirror EXCEPT ![k] = Nobody]
      BY <2>7 DEF Gone
    <3>. HIDE DEF k
    <3>3. Moves /\ proc' \in [Attempt -> Proc] BY <1>g, <2>4, <3>1, <3>2
    <3>4. Mir' BY <1>m, <3>2
    <3>. QED BY <1>0, <1>t, <1>s, <2>2, <2>3, <3>3, <3>4
  <2>. QED BY <2>5, <2>6, <2>7
<1>5. ASSUME NEW n \in Attempt, Start(n) \/ Die(n) PROVE Moves /\ Types'
  <2>1. PICK at \in {"started", "gone"} : proc' = [proc EXCEPT ![n].at = at]
    BY <1>5 DEF Start, Die, Gone
  <2>2. row' = row /\ owed' = owed /\ UNCHANGED <<overview, arrived>>
        /\ mirror' \in {mirror, [mirror EXCEPT ![n] = Nobody]} /\ proc[n].at # "gone"
    BY <1>5, OutcomeAssumption DEF Start, Die, Gone, Silent, page
  <2>3. Moves /\ proc' \in [Attempt -> Proc] BY <1>g, <2>1, <2>2 DEF ProcState
  <2>4. Mir' BY <1>0, <1>m, <2>2
  <2>. QED BY <1>0, <1>t, <1>s, <2>2, <2>3, <2>4
<1>6. ASSUME NEW n \in Attempt, PostPhase(n) PROVE Moves /\ Types'
  <2>1. row' = row /\ proc' = proc /\ owed' = owed /\ UNCHANGED <<overview, arrived>>
        /\ mirror' = [mirror EXCEPT ![n] = Phase(Owner(n), n)]
    BY <1>6 DEF PostPhase, PostAndMirror, page
  <2>. QED BY <1>0, <1>t, <1>m, <1>s, <2>1, StillMoves
<1>7. ASSUME NEW n \in Attempt, Report(n) PROVE Moves /\ Types'
  <2>1. row' = row /\ owed' = owed /\ UNCHANGED <<overview, arrived>>
        /\ proc' = [proc EXCEPT ![n].at = "gone"]
        /\ mirror' = [mirror EXCEPT ![n] = Ended(Owner(n), n, proc[n].at)]
    BY <1>7 DEF Report, PostAndMirror, page
  <2>2. Moves /\ proc' \in [Attempt -> Proc] BY <1>g, <2>1 DEF ProcState
  <2>. QED BY <1>0, <1>t, <1>m, <1>s, <2>1, <2>2
<1>8. ASSUME NEW n \in Attempt, NEW o \in Outcome, Write(n, o) PROVE Moves /\ Types'
  <2>1. /\ proc' = [proc EXCEPT ![n].at = o] /\ owed' = owed /\ mirror' = mirror
        /\ UNCHANGED <<overview, arrived>> /\ proc[n].at = "started"
        /\ row' = row \/ row' = [row EXCEPT ![Owner(n)].status = o]
    BY <1>8 DEF Write, Silent, page
  <2>2. o \in ProcState \ {"none"} /\ o # "running" BY OutcomeAssumption DEF ProcState
  <2>3. row' \in [Step -> Row] BY <1>0, <2>1
  <2>4. \A u \in Step : /\ row'[u].attempt = row[u].attempt
                        /\ row'[u].status = "running" => row[u].status = "running"
    BY <1>0, <2>1, <2>2
  <2>5. Moves /\ proc' \in [Attempt -> Proc] BY <1>g, <2>1, <2>2, <2>4
  <2>. QED BY <1>0, <1>t, <1>s, <2>1, <2>3, <2>5
<1>9. ASSUME NEW w \in Writer, Mirror(w) PROVE Moves /\ Types'
  <2>1. row' = row /\ proc' = proc /\ owed' = owed /\ arrived' = arrived
        /\ mirror' = [mirror EXCEPT ![w] = Nobody]
        /\ overview' \in {overview, Append(overview, mirror[w])}
    BY <1>9 DEF Mirror, page
  <2>2. PICK V : overview \in Seq(V) BY <1>0
  <2>. DEFINE e == mirror[w]  W == V \cup {e}
  <2>3. overview \in Seq(W) /\ e \in W BY <2>2
  <2>4. overview' \in {overview, Append(overview, e)} BY <2>1
  <2>. HIDE DEF W, e
  <2>5. overview' \in Seq(W) /\ DOMAIN overview \subseteq DOMAIN overview' BY <2>3, <2>4, AppendProperties
  <2>6. Ov' BY <1>0, <2>1, <2>5
  <2>. QED BY <1>0, <1>t, <1>m, <2>1, <2>6, StillMoves
<1>10. CASE Page \/ Say \/ UNCHANGED vars
  <2>1. row' = row /\ proc' = proc /\ owed' = owed /\ mirror' = mirror /\ overview' = overview
    BY <1>10 DEF Page, Reopen, Deliver, Say, vars, store
  <2>2. arrived' \subseteq DOMAIN overview BY <1>0, <1>10 DEF Page, Reopen, Deliver, Say, vars, page
  <2>. QED BY <1>0, <1>t, <2>1, <2>2, StillMoves
<1>. QED BY <1>1, <1>2, <1>3, <1>4, <1>5, <1>6, <1>7, <1>8, <1>9, <1>10 DEF Next, Tick, Worker

----------------------------------------------------------------------------
(* The store and the overview.                                              *)

LEMMA KnownStays == ASSUME Types, ProcsInv, Moves, NEW e, Known(e) PROVE Known(e)'
<1>1. CASE e.attempt = 0 BY <1>1 DEF Known
<1>2. CASE e.attempt # 0
  <2>. DEFINE n == e.attempt
  <2>0. PICK s : s = proc[n].step OBVIOUS
  <2>1. n \in Attempt /\ proc[n].at # "none" /\ s \in Step /\ e.agent = AgentOf[s]
    BY <1>2, <2>0 DEF Known, ProcsInv
  <2>2. proc'[n].at # "none" /\ proc'[n].step = s /\ (proc[n].at = "gone" => proc'[n].at = "gone")
    BY <2>0, <2>1 DEF Moves
  <2>3. Red(e) => proc[n].at = "gone" /\ ~Holding(s, n) BY <1>2, <2>0 DEF Known
  <2>4. ~Holding(s, n) => ~Holding(s, n)'
    <3>1. CASE row'[s].status # "running" BY <3>1 DEF Holding
    <3>2. CASE row[s].status = "running" /\ row'[s].attempt = row[s].attempt BY <3>2 DEF Holding
    <3>3. CASE proc[row'[s].attempt].at = "none" BY <2>1, <3>3 DEF Holding
    <3>. QED BY <2>1, <3>1, <3>2, <3>3 DEF Moves
  <2>5. Holding(s, n)' = Holding(proc[n].step, n)' BY <2>2 DEF Holding
  <2>6. /\ n \in Attempt \cup {0} /\ n # 0 /\ proc'[n].at # "none" /\ e.agent = AgentOf[proc'[n].step]
        /\ Red(e) => proc'[n].at = "gone" /\ ~Holding(proc[n].step, n)'
    BY <1>2, <2>1, <2>2, <2>3, <2>4, <2>5
  <2>. QED BY <1>2, <2>6 DEF Known, Red, Holding
<1>. QED BY <1>1, <1>2

LEMMA ProcsStep == ASSUME Types, ProcsInv, [Next]_vars PROVE ProcsInv'
<1>0. Moves /\ Types' BY EveryStepMoves
<1>1. \A n \in Attempt : proc'[n].at # "none" => proc'[n].step \in Step
  <2>1. SUFFICES ASSUME NEW n \in Attempt, proc[n].at = "none", proc'[n].at # "none"
                 PROVE  proc'[n].step \in Step
    BY <1>0 DEF Moves, ProcsInv
  <2>2. ASSUME NEW s \in Step, Dispatch(s) PROVE proc'[n].step \in Step
    <3>1. PICK m \in Attempt : proc' = [proc EXCEPT ![m] = [step |-> s, at |-> "fresh"]]
      BY <2>2 DEF Dispatch
    <3>. QED BY <2>1, <3>1 DEF Types
  <2>3. ASSUME NEW s \in Step, Timeout(s) PROVE FALSE
    <3>1. proc' = proc \/ (row[s].status = "running" /\ proc' = [proc EXCEPT ![row[s].attempt].at = "gone"])
      BY <2>3 DEF Timeout, Gone
    <3>2. row[s].status = "running" => proc[row[s].attempt].at # "none" BY DEF ProcsInv
    <3>3. CASE row[s].status = "running" /\ proc' = [proc EXCEPT ![row[s].attempt].at = "gone"]
      <4>. DEFINE k == row[s].attempt
      <4>1. k # n /\ proc' = [proc EXCEPT ![k].at = "gone"] BY <2>1, <3>2, <3>3
      <4>. HIDE DEF k
      <4>. QED BY <2>1, <4>1 DEF Types
    <3>. QED BY <2>1, <3>1, <3>3
  <2>4. ASSUME NEW m \in Attempt, Worker(m) PROVE FALSE
    <3>1. proc[m].at # "none" BY <2>4, OutcomeAssumption DEF Worker, Start, PostPhase, Report, Die, Write
    <3>2. m # n BY <2>1, <3>1
    <3>3. proc'[n] = proc[n]
      <4>1. CASE Start(m) BY <3>2, <4>1 DEF Start, Types
      <4>2. CASE PostPhase(m) BY <4>2 DEF PostPhase
      <4>3. CASE Report(m) BY <3>2, <4>3 DEF Report, Types
      <4>4. CASE Die(m) BY <3>2, <4>4 DEF Die, Gone, Types
      <4>5. ASSUME NEW o \in Outcome, Write(m, o) PROVE proc'[n] = proc[n]
        BY <3>2, <4>5 DEF Write, Types
      <4>. QED BY <2>4, <4>1, <4>2, <4>3, <4>4, <4>5 DEF Worker
    <3>. QED BY <2>1, <3>3
  <2>5. CASE UNCHANGED proc BY <2>1, <2>5
  <2>6. ASSUME NEW s \in Step, GiveUp(s) PROVE UNCHANGED proc BY <2>6 DEF GiveUp
  <2>7. ASSUME NEW w \in Writer, Mirror(w) PROVE UNCHANGED proc BY <2>7 DEF Mirror
  <2>8. CASE AppendOwed \/ Crash \/ Say \/ Page \/ UNCHANGED vars
    BY <2>5, <2>8 DEF AppendOwed, Crash, Say, Page, Reopen, Deliver, vars, store
  <2>. QED BY <2>2, <2>3, <2>4, <2>5, <2>6, <2>7, <2>8 DEF Next, Tick
<1>2. ASSUME NEW s \in Step, row'[s].status = "running"
      PROVE  /\ row'[s].attempt \in Attempt
             /\ proc'[row'[s].attempt].at # "none" /\ proc'[row'[s].attempt].step = s
  BY <1>0, <1>2 DEF Moves, ProcsInv
<1>3. ASSUME NEW n \in Attempt, proc'[n].at \in Outcome PROVE ~Holding(proc[n].step, n)'
  <2>0. PICK s : s = proc[n].step OBVIOUS
  <2>1. CASE proc[n].at \in Outcome
    <3>1. proc[n].at # "none" /\ s \in Step /\ ~Holding(s, n)
      BY <2>0, <2>1, OutcomeAssumption DEF ProcsInv
    <3>2. proc'[n].step = s BY <1>0, <2>0, <3>1 DEF Moves
    <3>3. ~Holding(s, n)'
      <4>1. CASE row'[s].status # "running" BY <4>1 DEF Holding
      <4>2. CASE row[s].status = "running" /\ row'[s].attempt = row[s].attempt BY <3>1, <4>2 DEF Holding
      <4>3. CASE proc[row'[s].attempt].at = "none" BY <3>1, <4>3 DEF Holding
      <4>. QED BY <1>0, <3>1, <4>1, <4>2, <4>3 DEF Moves
    <3>. QED BY <3>2, <3>3 DEF Holding
  <2>2. CASE proc[n].at \notin Outcome
    <3>1. ASSUME NEW m \in Attempt, NEW o \in Outcome, Write(m, o) PROVE ~Holding(proc[n].step, n)'
      <4>1. m = n BY <1>3, <2>2, <3>1 DEF Write, Types
      <4>2. proc[n].at = "started" /\ proc' = [proc EXCEPT ![n].at = o]
            /\ row' = IF Holds(n) THEN [row EXCEPT ![Owner(n)].status = o] ELSE row
        BY <3>1, <4>1 DEF Write
      <4>3. Owner(n) = s /\ s \in Step BY <2>0, <4>2, OwnerIsStep
      <4>4. proc'[n].step = s BY <2>0, <4>2 DEF Types
      <4>5. CASE Holds(n)
        <5>1. row' = [row EXCEPT ![s].status = o] BY <4>2, <4>3, <4>5
        <5>2. row'[s].status = o BY <4>3, <5>1 DEF Types
        <5>. QED BY <4>4, <5>2, OutcomeAssumption DEF Holding
      <4>6. CASE ~Holds(n)
        <5>1. row' = row /\ row[s].attempt # n BY <4>2, <4>3, <4>6 DEF Holds
        <5>. QED BY <4>4, <5>1 DEF Holding
      <4>. QED BY <4>5, <4>6
    <3>2. ASSUME NEW st, NEW k, st \notin Outcome, proc' = [proc EXCEPT ![k].at = st] PROVE FALSE
      BY <1>3, <2>2, <3>2 DEF Types
    <3>3. CASE UNCHANGED proc BY <1>3, <2>2, <3>3
    <3>4. ASSUME NEW u \in Step, Dispatch(u) PROVE FALSE
      <4>1. PICK m \in Attempt : proc' = [proc EXCEPT ![m] = [step |-> u, at |-> "fresh"]]
        BY <3>4 DEF Dispatch
      <4>. QED BY <1>3, <2>2, <4>1, OutcomeAssumption DEF Types
    <3>5. ASSUME NEW u \in Step, Timeout(u) \/ GiveUp(u) PROVE FALSE
      <4>1. UNCHANGED proc \/ \E k : proc' = [proc EXCEPT ![k].at = "gone"]
        BY <3>5 DEF Timeout, GiveUp, Gone
      <4>. QED BY <3>2, <1>3, <2>2, <4>1, OutcomeAssumption
    <3>6. ASSUME NEW m \in Attempt, Start(m) \/ PostPhase(m) \/ Report(m) \/ Die(m) PROVE FALSE
      <4>1. UNCHANGED proc \/ \E k, st : st \in {"started", "gone"} /\ proc' = [proc EXCEPT ![k].at = st]
        BY <3>6 DEF Start, PostPhase, Report, Die, Gone
      <4>. QED BY <3>2, <1>3, <2>2, <4>1, OutcomeAssumption
    <3>7. ASSUME NEW w \in Writer, Mirror(w) PROVE UNCHANGED proc BY <3>7 DEF Mirror
    <3>8. CASE AppendOwed \/ Crash \/ Say \/ Page \/ UNCHANGED vars
      <4>. UNCHANGED proc BY <3>8 DEF AppendOwed, Crash, Say, Page, Reopen, Deliver, vars, store
      <4>. QED BY <3>3
    <3>. QED BY <3>1, <3>3, <3>4, <3>5, <3>6, <3>7, <3>8 DEF Next, Tick, Worker
  <2>. QED BY <2>1, <2>2
<1>. QED BY <1>1, <1>2, <1>3 DEF ProcsInv, Holding

\* What the rows name, whose they are and what they tell.
LEMMA RowFacts ==
    ASSUME NEW s \in Step, NEW n \in Attempt, NEW o \in Outcome
    PROVE  /\ Dispatched(s).attempt = 0 /\ ~Red(Dispatched(s)) /\ Dispatched(s).agent = AgentOf[s]
           /\ TimedOut(s).attempt = 0 /\ TimedOut(s).agent = AgentOf[s] /\ TimedOut(s).step = s
           /\ Phase(s, n).attempt = n /\ ~Red(Phase(s, n)) /\ Phase(s, n).agent = AgentOf[s]
           /\ Ended(s, n, o).agent = AgentOf[s] /\ Ended(s, n, o).attempt \in {0, n}
           /\ Red(Ended(s, n, o)) => Ended(s, n, o).attempt = n
           /\ \A u \in Step : /\ TimedOut(u) # Dispatched(s) /\ TimedOut(u) # Phase(s, n)
                              /\ TimedOut(u) # Ended(s, n, o) /\ (TimedOut(u) = TimedOut(s) => u = s)
<1>. 0 \notin Attempt BY BoundAssumption DEF Attempt
<1>1. CASE o = "done" BY <1>1 DEF Dispatched, TimedOut, Phase, Ended, RowOf, Red
<1>2. CASE o # "done" BY <1>2 DEF Dispatched, TimedOut, Phase, Ended, RowOf, Red
<1>. QED BY <1>1, <1>2

LEMMA OwedKnown ==
    ASSUME Types, owed # Nobody
    PROVE  \E s \in Step : /\ owed \in {Dispatched(s), TimedOut(s)} /\ Known(owed)
                           /\ \A u \in Step : owed = TimedOut(u) => u = s
<1>1. PICK s \in Step : owed \in {Dispatched(s), TimedOut(s)} BY DEF Types
<1>2. Dispatched(s).attempt = 0 /\ ~Red(Dispatched(s)) BY DEF Dispatched, RowOf, Red
<1>3. TimedOut(s).attempt = 0 BY DEF TimedOut, RowOf
<1>4. Known(owed) BY <1>1, <1>2, <1>3 DEF Known
<1>5. \A u \in Step : TimedOut(u) # Dispatched(s) /\ (TimedOut(u) = TimedOut(s) => u = s)
  BY DEF TimedOut, Dispatched, RowOf
<1>. QED BY <1>1, <1>4, <1>5

\* What a step does to the mirrors and the overview: it leaves them, or one
\* writer takes up a known row, which is a timeout only if it is the one owed, or
\* one writer's row goes, into the overview perhaps.
LEMMA MirrorMoves ==
    ASSUME StoreInv, [Next]_vars
    PROVE  \/ UNCHANGED <<mirror, overview>>
           \/ \E w \in Writer : \E e :
                 /\ mirror' = [mirror EXCEPT ![w] = e] /\ overview' = overview
                 /\ e # Nobody => Known(e)'
                 /\ \A s \in Step : e = TimedOut(s) => w = Ticker /\ owed = TimedOut(s) /\ row' = row
           \/ \E w \in Writer :
                 /\ mirror[w] # Nobody /\ mirror' = [mirror EXCEPT ![w] = Nobody]
                 /\ overview' \in {overview, Append(overview, mirror[w])} /\ UNCHANGED <<row, proc, owed>>
<1>. DEFINE Same == UNCHANGED <<mirror, overview>>
            Takes(w, e) == /\ mirror' = [mirror EXCEPT ![w] = e] /\ overview' = overview
                           /\ e # Nobody => Known(e)'
                           /\ \A s \in Step : e = TimedOut(s) => w = Ticker /\ owed = TimedOut(s) /\ row' = row
            Goes(w) == /\ mirror[w] # Nobody /\ mirror' = [mirror EXCEPT ![w] = Nobody]
                       /\ overview' \in {overview, Append(overview, mirror[w])} /\ UNCHANGED <<row, proc, owed>>
            Goal == Same \/ (\E w \in Writer : \E e : Takes(w, e)) \/ (\E w \in Writer : Goes(w))
<1>. SUFFICES Goal OBVIOUS
<1>0. Types /\ ProcsInv BY DEF StoreInv
<1>m. Moves /\ Types' /\ ProcsInv' BY <1>0, EveryStepMoves, ProcsStep
<1>n. \A s \in Step : TimedOut(s) # Nobody BY NobodyAssumption
<1>1. CASE AppendOwed
  <2>1. mirror' = [mirror EXCEPT ![Ticker] = owed] /\ overview' = overview /\ row' = row /\ owed # Nobody
    BY <1>1 DEF AppendOwed, PostAndMirror
  <2>2. Known(owed) BY <1>0, <2>1, OwedKnown
  <2>5. \E f : f = owed /\ Known(f)'
    <3>1. \A f : Known(f) => Known(f)' BY <1>0, <1>m, KnownStays
    <3>. QED BY <2>2, <3>1
  <2>6. PICK f : f = owed /\ Known(f)' BY <2>5
  <2>7. Takes(Ticker, f) BY <2>1, <2>6
  <2>. QED BY <2>7 DEF Writer
<1>2. ASSUME NEW n \in Attempt, Gone(n), overview' = overview PROVE Goal
  <2>1. mirror' = [mirror EXCEPT ![n] = Nobody] BY <1>2 DEF Gone
  <2>2. Takes(n, Nobody) BY <1>2, <1>n, <2>1
  <2>. QED BY <2>2 DEF Writer
<1>3. ASSUME NEW s \in Step, Timeout(s) PROVE Goal
  <2>1. overview' = overview /\ (UNCHANGED mirror \/ (row[s].status = "running" /\ Gone(row[s].attempt)))
    BY <1>3 DEF Timeout, Silent
  <2>2. row[s].status = "running" => row[s].attempt \in Attempt BY <1>0 DEF ProcsInv
  <2>. QED BY <1>2, <2>1, <2>2
<1>4. ASSUME NEW n \in Attempt, Die(n) PROVE Goal BY <1>2, <1>4 DEF Die, Silent
<1>5. ASSUME NEW n \in Attempt, PostPhase(n) PROVE Goal
  <2>. DEFINE s == proc[n].step  e == Phase(s, n)
  <2>1. s = Owner(n) /\ s \in Step /\ proc[n].at # "none" BY <1>0, <1>5, OwnerIsStep DEF PostPhase
  <2>2. mirror' = [mirror EXCEPT ![n] = e] /\ overview' = overview /\ proc' = proc
    BY <1>5, <2>1 DEF PostPhase, PostAndMirror
  <2>3. e.attempt = n /\ ~Red(e) /\ e.agent = AgentOf[s] /\ \A u \in Step : TimedOut(u) # e
    <3>. 0 \notin Attempt BY BoundAssumption DEF Attempt
    <3>. HIDE DEF s
    <3>. QED BY <2>1 DEF Phase, TimedOut, RowOf, Red
  <2>4. proc'[n].at # "none" /\ e.agent = AgentOf[proc'[n].step] BY <2>1, <2>2, <2>3
  <2>. HIDE DEF e
  <2>5. PICK f : f = e OBVIOUS
  <2>6. f.attempt = n /\ ~Red(f) /\ f.agent = AgentOf[proc'[n].step] /\ proc'[n].at # "none" BY <2>3, <2>4, <2>5
  <2>7. Known(f)' BY <2>6 DEF Known, Red, Holding
  <2>8. Takes(n, f) BY <2>2, <2>3, <2>5, <2>7
  <2>. QED BY <2>8 DEF Writer
<1>6. ASSUME NEW n \in Attempt, Report(n) PROVE Goal
  <2>0. PICK s, o : s = proc[n].step /\ o = proc[n].at OBVIOUS
  <2>. DEFINE e == Ended(s, n, o)
  <2>1. s = Owner(n) /\ s \in Step /\ o \in Outcome /\ o # "none" /\ ~Holding(s, n)
    BY <1>0, <1>6, <2>0, OwnerIsStep, OutcomeAssumption DEF Report, ProcsInv
  <2>2. mirror' = [mirror EXCEPT ![n] = e] /\ overview' = overview /\ row' = row
        /\ proc' = [proc EXCEPT ![n].at = "gone"]
    BY <1>6, <2>0, <2>1 DEF Report, PostAndMirror
  <2>3. /\ e.attempt \in {0, n} /\ (Red(e) => e.attempt = n) /\ e.agent = AgentOf[s]
        /\ \A u \in Step : TimedOut(u) # e
    BY <2>1, RowFacts
  <2>4. proc'[n].at = "gone" /\ proc'[n].step = s BY <1>0, <2>0, <2>2 DEF Types
  <2>5. ~Holding(s, n)' BY <2>1, <2>2 DEF Holding
  <2>. HIDE DEF e
  <2>6. PICK f : f = e OBVIOUS
  <2>7. Known(f)'
    <3>1. f.attempt \in {0, n} /\ (Red(f) => f.attempt = n) /\ f.agent = AgentOf[proc'[n].step] /\ n # 0
      BY <2>3, <2>4, <2>6, BoundAssumption DEF Attempt
    <3>2. ~Holding(proc[n].step, n)' BY <2>4, <2>5 DEF Holding
    <3>. QED BY <2>4, <3>1, <3>2 DEF Known, Red, Holding
  <2>8. Takes(n, f) BY <2>2, <2>3, <2>6, <2>7
  <2>. QED BY <2>8 DEF Writer
<1>7. ASSUME NEW w \in Writer, Mirror(w) PROVE Goal
  <2>1. Goes(w) BY <1>7 DEF Mirror
  <2>. QED BY <2>1
<1>8. CASE Crash \/ Say \/ Page \/ UNCHANGED vars
  BY <1>8 DEF Crash, Silent, Say, Page, Reopen, Deliver, vars, store
<1>9. ASSUME NEW s \in Step, Dispatch(s) \/ GiveUp(s) PROVE Same BY <1>9 DEF Dispatch, GiveUp, Silent
<1>10. ASSUME NEW n \in Attempt, Start(n) \/ \E o \in Outcome : Write(n, o) PROVE Same
  BY <1>10 DEF Start, Write, Silent
<1>. QED BY <1>1, <1>3, <1>4, <1>5, <1>6, <1>7, <1>8, <1>9, <1>10 DEF Next, Tick, Worker

LEMMA RowsStep ==
    ASSUME StoreInv, [Next]_vars PROVE RowsInv' /\ TimeoutFirst'
<1>0. Types /\ ProcsInv /\ RowsInv /\ TimeoutFirst BY DEF StoreInv
<1>m. Moves BY <1>0, EveryStepMoves
<1>k. \A e : Known(e) => Known(e)' BY <1>0, <1>m, KnownStays
<1>1. ASSUME NEW s \in Step, owed' = TimedOut(s) PROVE row'[s].status # "running"
  <2>1. CASE owed' = owed
    <3>1. row[s].status # "running" BY <1>0, <1>1, <2>1 DEF TimeoutFirst
    <3>2. \A u \in Step : ~Dispatch(u)
      BY <1>1, <2>1, NobodyAssumption DEF Dispatch, TickIsFree
    <3>3. row'[s].status = "running" => proc[row'[s].attempt].at = "none" /\ proc'[row'[s].attempt].at = "fresh"
          /\ row'[s].attempt \in Attempt
      BY <1>m, <3>1 DEF Moves
    <3>4. ASSUME row'[s].status = "running" PROVE FALSE
      <4>. DEFINE n == row'[s].attempt
      <4>1. n \in Attempt /\ proc[n].at = "none" /\ proc'[n].at = "fresh" BY <3>3, <3>4
      <4>2. row' # row BY <3>1, <3>4
      <4>3. ASSUME NEW u \in Step, Timeout(u) \/ GiveUp(u) PROVE FALSE
        <5>1. PICK st \in {"timeout", "failed"} : row' = [row EXCEPT ![u].status = st]
          BY <4>3 DEF Timeout, GiveUp
        <5>. QED BY <1>0, <3>1, <3>4, <5>1 DEF Types
      <4>4. ASSUME NEW m \in Attempt, Worker(m) PROVE FALSE
        <5>1. PICK o \in Outcome : Write(m, o)
          BY <4>2, <4>4 DEF Worker, Start, PostPhase, Report, Die
        <5>2. row' = [row EXCEPT ![Owner(m)].status = o] BY <4>2, <5>1 DEF Write
        <5>. QED BY <1>0, <3>1, <3>4, <5>2, OutcomeAssumption DEF Types
      <4>5. ~Crash BY <1>1, NobodyAssumption DEF Crash
      <4>. QED BY <3>2, <4>2, <4>3, <4>4, <4>5
            DEF Next, Tick, AppendOwed, Mirror, Say, Page, Reopen, Deliver, vars, store
    <3>. QED BY <3>4
  <2>2. CASE owed' # owed
    <3>1. ASSUME NEW u \in Step, Timeout(u) PROVE row'[s].status # "running"
      <4>1. u = s BY <1>1, <3>1 DEF Timeout, TimedOut, RowOf
      <4>. QED BY <1>0, <3>1, <4>1 DEF Timeout, Types
    <3>2. ASSUME NEW u \in Step, Dispatch(u) PROVE FALSE
      BY <1>1, <3>2 DEF Dispatch, Dispatched, TimedOut, RowOf
    <3>3. ~AppendOwed /\ ~Crash BY <1>1, NobodyAssumption DEF AppendOwed, Crash
    <3>. QED BY <2>2, <3>1, <3>2, <3>3
          DEF Next, Tick, GiveUp, Worker, Start, PostPhase, Report, Die, Write, Mirror, Say, Page,
              Reopen, Deliver, vars, store
  <2>. QED BY <2>1, <2>2
<1>n. \A s \in Step : TimedOut(s) # Nobody BY NobodyAssumption
\* While a timeout is on its way to the overview the tick is not free.
<1>2. ASSUME NEW s \in Step, mirror[Ticker] = TimedOut(s), row'[s].status = "running" PROVE FALSE
  <2>1. row[s].status # "running" BY <1>0, <1>2 DEF TimeoutFirst, Writer
  <2>2. \A u \in Step : ~Dispatch(u) /\ ~Timeout(u) /\ ~GiveUp(u)
    BY <1>n, <1>2 DEF Dispatch, Timeout, GiveUp, TickIsFree
  <2>3. CASE row' = row BY <1>2, <2>1, <2>3
  <2>4. CASE Crash
    <3>1. PICK b : row' = [row EXCEPT ![owed.step].pid = b] BY <2>4 DEF Crash
    <3>. QED BY <1>0, <1>2, <2>1, <3>1 DEF Types
  <2>5. ASSUME NEW m \in Attempt, Worker(m), row' # row PROVE FALSE
    <3>1. PICK o \in Outcome : Write(m, o)
      BY <2>5 DEF Worker, Start, PostPhase, Report, Die
    <3>2. row' = [row EXCEPT ![Owner(m)].status = o] BY <2>5, <3>1 DEF Write
    <3>. QED BY <1>0, <1>2, <2>1, <3>2, OutcomeAssumption DEF Types
  <2>. QED BY <2>2, <2>3, <2>4, <2>5
        DEF Next, Tick, AppendOwed, Mirror, Say, Page, Reopen, Deliver, vars, store
<1>3. CASE UNCHANGED <<mirror, overview>>
  <2>1. RowsInv' BY <1>0, <1>k, <1>3 DEF RowsInv
  <2>2. TimeoutFirst' BY <1>0, <1>1, <1>2, <1>3 DEF TimeoutFirst
  <2>. QED BY <2>1, <2>2
<1>4. ASSUME NEW w \in Writer, NEW e,
             mirror' = [mirror EXCEPT ![w] = e], overview' = overview, e # Nobody => Known(e)',
             \A s \in Step : e = TimedOut(s) => w = Ticker /\ owed = TimedOut(s) /\ row' = row
      PROVE  RowsInv' /\ TimeoutFirst'
  <2>1. \A v \in Writer : mirror'[v] = IF v = w THEN e ELSE mirror[v] BY <1>0, <1>4 DEF Types
  <2>2. RowsInv'
    <3>1. ASSUME NEW v \in Writer, mirror'[v] # Nobody PROVE Known(mirror[v])'
      <4>1. PICK f : f = mirror'[v] OBVIOUS
      <4>2. Known(f)'
        <5>1. CASE v = w BY <1>4, <2>1, <3>1, <4>1, <5>1
        <5>2. CASE v # w
          <6>1. f = mirror[v] /\ f # Nobody BY <2>1, <3>1, <4>1, <5>2
          <6>. QED BY <1>0, <1>k, <6>1 DEF RowsInv
        <5>. QED BY <5>1, <5>2
      <4>. QED BY <4>1, <4>2 DEF Known, Red, Holding
    <3>2. ASSUME NEW i \in DOMAIN overview PROVE Known(overview[i])'
      <4>1. PICK f : f = overview[i] OBVIOUS
      <4>2. Known(f)' BY <1>0, <1>k, <4>1 DEF RowsInv
      <4>. QED BY <1>4, <4>1, <4>2 DEF Known, Red, Holding
    <3>. QED BY <1>4, <3>1, <3>2 DEF RowsInv
  <2>3. TimeoutFirst' BY <1>0, <1>1, <1>2, <1>4, <2>1 DEF TimeoutFirst
  <2>. QED BY <2>2, <2>3
<1>5. ASSUME NEW w \in Writer, mirror[w] # Nobody, mirror' = [mirror EXCEPT ![w] = Nobody],
             overview' \in {overview, Append(overview, mirror[w])}, UNCHANGED <<row, proc, owed>>
      PROVE  RowsInv' /\ TimeoutFirst'
  <2>1. \A v \in Writer : mirror'[v] = IF v = w THEN Nobody ELSE mirror[v] BY <1>0, <1>5 DEF Types
  <2>2. PICK e : e = mirror[w] OBVIOUS
  <2>3. PICK V : overview \in Seq(V) BY <1>0 DEF Types
  <2>4. \A i \in DOMAIN overview' : (i \in DOMAIN overview /\ overview'[i] = overview[i]) \/ overview'[i] = e
    <3>1. CASE overview' = overview BY <3>1
    <3>2. CASE overview' = Append(overview, e)
      <4>. DEFINE W == V \cup {e}
      <4>1. overview \in Seq(W) /\ e \in W BY <2>3
      <4>. HIDE DEF W
      <4>. QED BY <3>2, <4>1, AppendProperties
    <3>. QED BY <1>5, <2>2, <3>1, <3>2
  <2>5. Known(e) BY <1>0, <1>5, <2>2 DEF RowsInv
  <2>6. RowsInv'
    <3>1. \A f : Known(f)' <=> Known(f) BY <1>5 DEF Known, Red, Holding
    <3>2. \A i \in DOMAIN overview' : Known(overview'[i]) BY <1>0, <2>4, <2>5 DEF RowsInv
    <3>3. \A v \in Writer : mirror'[v] # Nobody => Known(mirror'[v]) BY <1>0, <2>1 DEF RowsInv
    <3>. QED BY <1>5, <3>2, <3>3 DEF RowsInv, Known, Red, Holding
  <2>7. TimeoutFirst' BY <1>0, <1>1, <1>5, <1>n, <2>1 DEF TimeoutFirst
  <2>. QED BY <2>6, <2>7
<1>. QED BY <1>3, <1>4, <1>5, MirrorMoves

\* How the overview grows: by nothing, or by a row that was on its way.
LEMMA OverviewGrows ==
    ASSUME StoreInv, [Next]_vars
    PROVE  /\ DOMAIN overview \subseteq DOMAIN overview'
           /\ \A i \in DOMAIN overview : overview'[i] = overview[i]
           /\ overview' = overview \/ \E w \in Writer :
                 /\ mirror[w] # Nobody /\ UNCHANGED row
                 /\ \A i \in DOMAIN overview' \ DOMAIN overview :
                       overview'[i] = mirror[w] /\ \A j \in DOMAIN overview' : j # i => j < i
<1>1. CASE overview' = overview BY <1>1
<1>2. ASSUME NEW w \in Writer, overview' = Append(overview, mirror[w])
      PROVE  /\ DOMAIN overview \subseteq DOMAIN overview'
             /\ \A i \in DOMAIN overview : overview'[i] = overview[i]
             /\ \A i \in DOMAIN overview' \ DOMAIN overview :
                   overview'[i] = mirror[w] /\ \A j \in DOMAIN overview' : j # i => j < i
  <2>1. PICK V : overview \in Seq(V) BY DEF StoreInv, Types
  <2>2. PICK e : e = mirror[w] OBVIOUS
  <2>. DEFINE W == V \cup {e}
  <2>3. overview \in Seq(W) /\ e \in W /\ overview' = Append(overview, e) BY <1>2, <2>1, <2>2
  <2>. HIDE DEF W
  <2>4. PICK k \in Nat : k = Len(overview) /\ DOMAIN overview = 1..k BY <2>3
  <2>5. /\ overview' \in Seq(W) /\ Len(overview') = k + 1 /\ overview'[k + 1] = e
        /\ \A i \in 1..k : overview'[i] = overview[i]
    BY <2>3, <2>4, AppendProperties
  <2>6. DOMAIN overview' = 1..(k + 1) BY <2>5
  <2>. QED BY <2>2, <2>4, <2>5, <2>6
<1>. QED BY <1>1, <1>2, MirrorMoves

LEMMA TimeoutBeforeStep ==
    ASSUME StoreInv, [Next]_vars PROVE TimeoutBefore'
<1>0. Types /\ ProcsInv /\ RowsInv /\ TimeoutFirst /\ TimeoutBefore BY DEF StoreInv
<1>m. Moves BY <1>0, EveryStepMoves
<1>g. /\ DOMAIN overview \subseteq DOMAIN overview'
      /\ \A i \in DOMAIN overview : overview'[i] = overview[i]
      /\ overview' = overview \/ \E w \in Writer :
            /\ mirror[w] # Nobody /\ UNCHANGED row
            /\ \A i \in DOMAIN overview' \ DOMAIN overview :
                  overview'[i] = mirror[w] /\ \A j \in DOMAIN overview' : j # i => j < i
  BY OverviewGrows
<1>z. 0 \notin Attempt BY BoundAssumption DEF Attempt
<1>1. SUFFICES ASSUME NEW s \in Step, row'[s].status = "running",
                      NEW i \in DOMAIN overview', NEW j \in DOMAIN overview',
                      overview'[i] = TimedOut(s), overview'[j].attempt = row'[s].attempt
               PROVE  i < j
  BY DEF TimeoutBefore
<1>2. CASE overview' = overview
  <2>1. CASE row[s].status = "running" /\ row'[s].attempt = row[s].attempt
    BY <1>0, <1>1, <1>2, <2>1 DEF TimeoutBefore
  <2>2. CASE row'[s].attempt \in Attempt /\ proc[row'[s].attempt].at = "none"
    <3>1. Known(overview[j]) BY <1>0, <1>1, <1>2 DEF RowsInv
    <3>2. overview[j].attempt = row'[s].attempt /\ overview[j].attempt # 0 BY <1>1, <1>2, <1>z, <2>2
    <3>. QED BY <2>2, <3>1, <3>2 DEF Known
  <2>. QED BY <1>m, <1>1, <2>1, <2>2 DEF Moves
<1>3. ASSUME NEW w \in Writer, mirror[w] # Nobody, UNCHANGED row,
             \A k \in DOMAIN overview' \ DOMAIN overview :
                overview'[k] = mirror[w] /\ \A l \in DOMAIN overview' : l # k => l < k
      PROVE  i < j
  <2>1. row[s].status = "running" /\ row[s].attempt = row'[s].attempt /\ row[s].attempt \in Attempt
    BY <1>0, <1>1, <1>3 DEF ProcsInv
  <2>2. i \in DOMAIN overview BY <1>0, <1>1, <1>3, <2>1 DEF TimeoutFirst
  <2>3. CASE j \in DOMAIN overview
    BY <1>0, <1>1, <1>g, <2>1, <2>2, <2>3 DEF TimeoutBefore
  <2>4. CASE j \notin DOMAIN overview BY <1>1, <1>3, <2>2, <2>4
  <2>. QED BY <2>3, <2>4
<1>. QED BY <1>2, <1>3, <1>g

LEMMA StoreStep == ASSUME StoreInv, [Next]_vars PROVE StoreInv'
<1>1. Types /\ ProcsInv BY DEF StoreInv
<1>. QED BY <1>1, EveryStepMoves, ProcsStep, RowsStep, TimeoutBeforeStep DEF StoreInv

----------------------------------------------------------------------------
(* The desks.                                                               *)

\* What a row makes of the desk it is about: only a red row turns it red, and then
\* the desk follows the attempt that the row names.
LEMMA DeskMoves ==
    ASSUME NEW d \in Desk, NEW e, e.attempt \in Attempt \cup {0}
    PROVE  LET q == DeskAfter(d, e) IN
           /\ q \in Desk /\ q.attempt \in {d.attempt, e.attempt}
           /\ q.state = "error" => q = d \/ (Red(e) /\ e.attempt \in {0, q.attempt})
<1>. DEFINE q == DeskAfter(d, e)
<1>. USE DEF Desk
<1>0. \A k \in Nat : OneLess(k) \in Nat BY DEF OneLess
<1>1. CASE e.kind \in {"handoff", "review"}
  <2>1. q = [d EXCEPT !.live = OneLess(@), !.state = "done"] BY <1>1 DEF DeskAfter
  <2>. QED BY <1>0, <2>1
<1>2. CASE /\ e.kind \notin {"handoff", "review"}
           /\ e.kind = "step_status" /\ e.attempt = 0 /\ e.status = "started"
  <2>1. q = [d EXCEPT !.state = "working", !.attempt = 0, !.live = @ + 1]
    BY <1>2 DEF DeskAfter, Stale
  <2>2. q = [state |-> "working", attempt |-> 0, live |-> d.live + 1, late |-> d.late] BY <2>1
  <2>3. d.late \in BOOLEAN /\ d.live + 1 \in Nat OBVIOUS
  <2>4. q \in Desk BY <2>2, <2>3
  <2>5. q.attempt = 0 /\ q.state # "error" BY <2>2
  <2>. QED BY <1>2, <2>4, <2>5
<1>3. CASE /\ e.kind \notin {"handoff", "review"}
           /\ ~ (e.kind = "step_status" /\ e.attempt = 0 /\ e.status = "started")
  <2>1. CASE e.kind = "step_status" /\ Stale(d, e)
    <3>1. q = d BY <1>3, <2>1 DEF DeskAfter
    <3>. QED BY <3>1
  <2>2. CASE ~(e.kind = "step_status" /\ Stale(d, e))
    <3>. DEFINE st == NextState(e.status)
                at == IF e.attempt # 0 THEN e.attempt ELSE d.attempt
                lv == IF e.status \in {"failed", "needs_decision"} THEN OneLess(d.live) ELSE d.live
    <3>1. q = [d EXCEPT !.state = st, !.attempt = at, !.live = lv] BY <1>3, <2>2 DEF DeskAfter
    <3>2. lv \in Nat /\ at \in {d.attempt, e.attempt} /\ e.attempt \in {0, at} BY <1>0
    <3>3. /\ st \in {"working", "assigned", "error"}
          /\ st = "error" => e.status \notin {"started", "waiting_clarify"}
      BY DEF NextState
    <3>. HIDE DEF st, at, lv
    <3>. QED BY <1>3, <3>1, <3>2, <3>3 DEF Red
  <2>. QED BY <2>1, <2>2
<1>. QED BY <1>1, <1>2, <1>3

LEMMA FoldMoves ==
    ASSUME NEW d \in Desk, NEW i, overview[i].attempt \in Attempt \cup {0}
    PROVE  LET q == FoldRow(d, i)  e == overview[i] IN
           /\ q \in Desk /\ q.attempt \in {d.attempt, e.attempt}
           /\ q.state = "error" =>
                 \/ q.attempt = d.attempt /\ d.state = "error" /\ (d.late => q.late)
                 \/ Red(e) /\ e.attempt \in {0, q.attempt} /\ (ComesLate(i) => q.late)
<1>. DEFINE e == overview[i]  next == DeskAfter(d, e)  late == next.state = "error" /\ (d.late \/ ComesLate(i))
            q == FoldRow(d, i)
<1>1. /\ next \in Desk /\ next.attempt \in {d.attempt, e.attempt}
      /\ next.state = "error" => next = d \/ (Red(e) /\ e.attempt \in {0, next.attempt})
  BY DeskMoves
<1>2. q = [next EXCEPT !.late = late] BY DEF FoldRow
<1>3. late \in BOOLEAN BY <1>1 DEF Desk
<1>4. next.state = "error" => (d.late => late) /\ (ComesLate(i) => late) OBVIOUS
<1>. HIDE DEF next, late, e, q
<1>5. q \in Desk /\ q.state = next.state /\ q.attempt = next.attempt /\ q.late = late
  BY <1>1, <1>2, <1>3 DEF Desk
<1>6. q.state = "error" =>
         \/ q.attempt = d.attempt /\ d.state = "error" /\ (d.late => q.late)
         \/ Red(e) /\ e.attempt \in {0, q.attempt} /\ (ComesLate(i) => q.late)
  BY <1>1, <1>4, <1>5
<1>. QED BY <1>1, <1>5, <1>6 DEF e, q

\* Where the page does nothing the desks stay in order: a row that runs again has
\* an attempt of its own, which no desk follows.
LEMMA DesksWait ==
    ASSUME StoreInv, [Next]_vars, arrived' = arrived, NEW desks, Follows(desks), NotRed(desks)
    PROVE  Follows(desks)' /\ NotRed(desks)'
<1>0. Types /\ RowsInv BY DEF StoreInv
<1>m. Moves BY EveryStepMoves DEF StoreInv
<1>g. /\ DOMAIN overview \subseteq DOMAIN overview'
      /\ \A i \in DOMAIN overview : overview'[i] = overview[i]
  BY OverviewGrows
<1>1. Follows(desks)'
  <2>1. \A j \in arrived : overview'[j] = overview[j] BY <1>0, <1>g DEF Types
  <2>. QED BY <2>1 DEF Follows
<1>2. NotRed(desks)'
  <2>1. SUFFICES ASSUME NEW s \in Step, Alone(s), row'[s].status = "running",
                        desks[AgentOf[s]].attempt = row'[s].attempt
                 PROVE  desks[AgentOf[s]].state # "error" \/ desks[AgentOf[s]].late
    BY DEF NotRed, Alone
  <2>2. CASE row[s].status = "running" /\ row'[s].attempt = row[s].attempt
    BY <2>1, <2>2 DEF NotRed
  <2>3. CASE row'[s].attempt \in Attempt /\ proc[row'[s].attempt].at = "none"
    <3>1. AgentOf[s] \in Agent /\ row'[s].attempt # 0 BY <2>3, BoundAssumption DEF Agent, Attempt
    <3>2. PICK j \in arrived : overview[j].attempt = row'[s].attempt BY <2>1, <3>1 DEF Follows
    <3>3. Known(overview[j]) BY <1>0, <3>2 DEF Types, RowsInv
    <3>. QED BY <2>3, <3>1, <3>2, <3>3 DEF Known
  <2>. QED BY <1>m, <2>1, <2>2, <2>3 DEF Moves
<1>. QED BY <1>1, <1>2

\* A row that comes leaves the desk that follows the live attempt as it was, or
\* red for being late.
LEMMA RowComes ==
    ASSUME DeskInv, NEW i \in DOMAIN overview, NEW desks,
           desks = [cached EXCEPT ![overview[i].agent] = FoldRow(@, i)], arrived' = arrived \cup {i},
           UNCHANGED <<row, proc, overview>>
    PROVE  desks \in [Agent -> Desk] /\ Follows(desks)' /\ NotRed(desks)
<1>0. /\ Types /\ ProcsInv /\ RowsInv /\ TimeoutBefore /\ Follows(cached) /\ NotRed(cached)
      /\ cached \in [Agent -> Desk]
  BY DEF DeskInv, StoreInv, DesksInv, DeskTypes
<1>. DEFINE a0 == overview[i].agent  e == overview[i]
<1>1. Known(e) /\ e.attempt \in Attempt \cup {0} BY <1>0 DEF RowsInv, Known
<1>2. \A a \in Agent : desks[a] = IF a = a0 THEN FoldRow(cached[a], i) ELSE cached[a] BY <1>0
<1>3. ASSUME NEW a \in Agent, a = a0
      PROVE  /\ desks[a] \in Desk /\ desks[a].attempt \in {cached[a].attempt, e.attempt}
             /\ desks[a].state = "error" =>
                   \/ desks[a].attempt = cached[a].attempt /\ cached[a].state = "error"
                      /\ (cached[a].late => desks[a].late)
                   \/ Red(e) /\ e.attempt \in {0, desks[a].attempt} /\ (ComesLate(i) => desks[a].late)
  <2>1. desks[a] = FoldRow(cached[a], i) /\ cached[a] \in Desk BY <1>0, <1>2, <1>3
  <2>. QED BY <1>1, <2>1, FoldMoves
<1>4. desks \in [Agent -> Desk]
  <2>1. \A a \in Agent : desks[a] \in Desk BY <1>0, <1>2, <1>3
  <2>2. DOMAIN desks = Agent /\ desks = [a \in Agent |-> desks[a]] BY <1>0
  <2>. QED BY <2>1, <2>2
<1>5. Follows(desks)'
  <2>1. SUFFICES ASSUME NEW a \in Agent, desks[a].attempt # 0
                 PROVE  \E j \in arrived' : overview[j].attempt = desks[a].attempt /\ overview[j].agent = a
    BY DEF Follows
  <2>2. CASE desks[a].attempt = cached[a].attempt BY <1>0, <2>1, <2>2 DEF Follows
  <2>3. CASE a = a0 /\ desks[a].attempt = e.attempt BY <2>3
  <2>. QED BY <1>2, <1>3, <2>2, <2>3
<1>6. NotRed(desks)
  <2>1. SUFFICES ASSUME NEW s \in Step, Alone(s), row[s].status = "running",
                        desks[AgentOf[s]].attempt = row[s].attempt,
                        desks[AgentOf[s]].state = "error"
                 PROVE  desks[AgentOf[s]].late
    BY DEF NotRed
  <2>. DEFINE a == AgentOf[s]
  <2>2. a \in Agent BY DEF Agent
  <2>3. /\ row[s].attempt \in Attempt /\ row[s].attempt # 0 /\ proc[row[s].attempt].step = s
    BY <1>0, <2>1, BoundAssumption DEF ProcsInv, Attempt
  <2>4. CASE desks[a] = cached[a] BY <1>0, <2>1, <2>4 DEF NotRed
  <2>5. CASE desks[a].attempt = cached[a].attempt /\ cached[a].state = "error" /\ (cached[a].late => desks[a].late)
    BY <1>0, <2>1, <2>5 DEF NotRed
  <2>6. CASE /\ a = a0 /\ Red(e) /\ e.attempt \in {0, desks[a].attempt}
             /\ desks[a].attempt \in {cached[a].attempt, e.attempt} /\ (ComesLate(i) => desks[a].late)
    <3>1. CASE e.attempt = desks[a].attempt
      BY <1>1, <2>1, <2>3, <2>6, <3>1 DEF Known, Holding
    <3>2. CASE e.attempt = 0
      <4>1. PICK u \in Step : e = TimedOut(u) BY <1>1, <2>6, <3>2 DEF Known
      <4>2. e.agent = AgentOf[u] /\ e.step = u BY <4>1 DEF TimedOut, RowOf
      <4>3. u = s BY <2>1, <2>6, <4>2 DEF Alone
      <4>4. cached[a].attempt = row[s].attempt BY <2>1, <2>3, <2>6, <3>2
      <4>5. PICK j \in arrived : overview[j].attempt = row[s].attempt /\ overview[j].agent = a
        BY <1>0, <2>2, <2>3, <4>4 DEF Follows
      <4>6. i < j
        <5>1. j \in DOMAIN overview /\ overview[i] = TimedOut(s) BY <1>0, <4>1, <4>3, <4>5 DEF Types
        <5>. QED BY <1>0, <2>1, <4>5, <5>1 DEF TimeoutBefore
      <4>7. ComesLate(i) BY <2>6, <4>1, <4>2, <4>5, <4>6 DEF ComesLate
      <4>. QED BY <2>6, <4>7
    <3>. QED BY <2>6, <3>1, <3>2
  <2>7. a # a0 => desks[a] = cached[a] BY <1>2, <2>2
  <2>. QED BY <1>3, <2>1, <2>2, <2>4, <2>5, <2>6, <2>7
<1>. QED BY <1>4, <1>5, <1>6

LEMMA DesksStep ==
    ASSUME DeskInv, [Next]_vars PROVE DeskTypes' /\ DesksInv'
<1>0. StoreInv /\ DeskTypes /\ DesksInv BY DEF DeskInv
<1>1. CASE UNCHANGED <<arrived, cached, desk>>
  <2>1. \A ds : Follows(ds) /\ NotRed(ds) => Follows(ds)' /\ NotRed(ds)' BY <1>0, <1>1, DesksWait
  <2>2. PICK c, d : c = cached /\ d = desk OBVIOUS
  <2>3. Follows(c)' /\ NotRed(c)' /\ Follows(d)' /\ NotRed(d)' BY <1>0, <2>1, <2>2 DEF DesksInv
  <2>4. cached' = c /\ desk' = d BY <1>1, <2>2
  <2>. QED BY <1>0, <1>1, <2>3, <2>4 DEF DesksInv, DeskTypes, Follows, NotRed, Alone
<1>2. ASSUME NEW m \in Mount, Reopen(m) PROVE DeskTypes' /\ DesksInv'
  <2>1. UNCHANGED <<row, overview, arrived, cached>> /\ desk' \in {cached, desk}
    BY <1>2 DEF Reopen, store
  <2>. QED BY <1>0, <2>1 DEF DesksInv, DeskTypes, Follows, NotRed, Alone
<1>3. ASSUME NEW m \in Mount, NEW i, Deliver(m, i) PROVE DeskTypes' /\ DesksInv'
  <2>1. /\ i \in DOMAIN overview /\ UNCHANGED <<row, proc, overview>> /\ arrived' = arrived \cup {i}
        /\ desk' \in {cached', desk}
        /\ cached' = IF i \in arrived THEN cached ELSE [cached EXCEPT ![overview[i].agent] = FoldRow(@, i)]
    BY <1>3 DEF Deliver, store
  <2>2. \A ds : Follows(ds) => Follows(ds)' BY <2>1 DEF Follows
  <2>3. cached' \in [Agent -> Desk] /\ \E c : c = cached' /\ Follows(c)' /\ NotRed(c)
    <3>1. CASE i \in arrived
      <4>1. PICK c : c = cached OBVIOUS
      <4>2. Follows(c)' /\ NotRed(c) BY <1>0, <2>2, <4>1 DEF DesksInv
      <4>. QED BY <1>0, <2>1, <3>1, <4>1, <4>2 DEF DeskTypes
    <3>2. CASE i \notin arrived
      <4>1. PICK c : c = [cached EXCEPT ![overview[i].agent] = FoldRow(@, i)] OBVIOUS
      <4>2. c \in [Agent -> Desk] /\ Follows(c)' /\ NotRed(c) BY <2>1, <4>1, RowComes
      <4>3. c = cached' BY <2>1, <3>2, <4>1
      <4>. QED BY <4>2, <4>3
    <3>. QED BY <3>1, <3>2
  <2>4. PICK c : c = cached' /\ Follows(c)' /\ NotRed(c) BY <2>3
  <2>5. PICK d : d = desk OBVIOUS
  <2>6. Follows(d)' /\ NotRed(d) BY <1>0, <2>2, <2>5 DEF DesksInv
  <2>7. desk' \in {c, d} BY <2>1, <2>4, <2>5
  <2>8. DeskTypes' BY <1>0, <2>1, <2>3 DEF DeskTypes
  <2>9. \A ds : NotRed(ds) => NotRed(ds)' BY <2>1 DEF NotRed, Alone
  <2>10. NotRed(c)' /\ NotRed(d)' BY <2>4, <2>6, <2>9
  <2>11. Follows(cached)' /\ NotRed(cached)' BY <2>4, <2>10 DEF Follows, NotRed, Alone
  <2>12. Follows(desk)' /\ NotRed(desk)'
    <3>1. CASE desk' = c BY <2>4, <2>10, <3>1 DEF Follows, NotRed, Alone
    <3>2. CASE desk' = d BY <2>6, <2>10, <3>2 DEF Follows, NotRed, Alone
    <3>. QED BY <2>7, <3>1, <3>2
  <2>. QED BY <2>8, <2>11, <2>12 DEF DesksInv
<1>4. ASSUME NEW w \in Writer, Mirror(w) PROVE UNCHANGED <<arrived, cached, desk>> BY <1>4 DEF Mirror, page
<1>5. ASSUME NEW n \in Attempt, Worker(n) PROVE UNCHANGED <<arrived, cached, desk>>
  BY <1>5 DEF Worker, Start, PostPhase, Report, Die, Write, Silent, page
<1>6. CASE Tick \/ Say \/ UNCHANGED vars
  BY <1>1, <1>6 DEF Tick, AppendOwed, Crash, Dispatch, Timeout, GiveUp, Say, Silent, vars, page
<1>. QED BY <1>1, <1>2, <1>3, <1>4, <1>5, <1>6 DEF Next, Page

\* The strengthened invariant holds of every behaviour, however many processes
\* die, mirrors fail and streams begin where they like.
LEMMA DeskInvariant == Spec => []DeskInv
<1>1. Init => DeskInv
  <2>. SUFFICES ASSUME Init PROVE DeskInv OBVIOUS
  <2>1. /\ row = [s \in Step |-> [status |-> "pending", attempt |-> 0, pid |-> FALSE]]
        /\ proc = [n \in Attempt |-> [step |-> Nobody, at |-> "none"]]
        /\ owed = Nobody /\ mirror = [w \in Writer |-> Nobody] /\ overview = <<>> /\ arrived = {}
        /\ cached = [a \in Agent |-> [state |-> "idle", attempt |-> 0, live |-> 0, late |-> FALSE]]
        /\ desk = cached
    BY DEF Init, IdleDesk
  <2>2. Types
    <3>1. overview \in Seq({}) BY <2>1
    <3>. QED BY <2>1, <3>1 DEF Types, ProcState
  <2>3. ProcsInv BY <2>1, OutcomeAssumption DEF ProcsInv
  <2>4. RowsInv /\ TimeoutBefore BY <2>1 DEF RowsInv, TimeoutBefore
  <2>5. TimeoutFirst BY <2>1, NobodyAssumption DEF TimeoutFirst
  <2>6. DeskTypes BY <2>1 DEF DeskTypes, Desk
  <2>7. DesksInv
    <3>1. \A a \in Agent : cached[a].attempt = 0 /\ cached[a].state = "idle" BY <2>1
    <3>2. \A s \in Step : AgentOf[s] \in Agent BY DEF Agent
    <3>. QED BY <2>1, <3>1, <3>2 DEF DesksInv, Follows, NotRed
  <2>. QED BY <2>2, <2>3, <2>4, <2>5, <2>6, <2>7 DEF DeskInv, StoreInv
<1>2. DeskInv /\ [Next]_vars => DeskInv' BY StoreStep, DesksStep DEF DeskInv
<1>. QED BY <1>1, <1>2, PTL DEF Spec

\* A desk that follows the live attempt of its agent's one step is not red,
\* whatever a superseded worker reports and however late that comes, whichever
\* dispatch or mirror row is lost and wherever the overview's streams begin; the
\* one exception is a timeout's row that comes after a newer row of its agent
\* (agent-office-state.ts over the rows of the tick and of team_step_runner.py).
THEOREM DesksAreNotFalselyRed == Spec => []NoFalseRedDesk
<1>1. DeskInv => NoFalseRedDesk BY DEF DeskInv, DesksInv, NotRed, NoFalseRedDesk
<1>. QED BY <1>1, DeskInvariant, PTL

-----------------------------------------------------------------------------
(* The thread.                                                              *)

\* A row of the room; what it names besides its kind comes from any set.
Kinds    == {"step_status", "handoff", "review", "ceo"}
Event(V) == [kind : Kinds, task : V, step : V, agent : V, status : V, author : V, attempt : V, phase : BOOLEAN]
Item(V)  == [body : Event(V), steps : Nat \ {0}, repeats : Nat \ {0}]

ThreadFits == \E V : thread \in Seq(Item(V))

ThreadInv ==
    /\ ThreadFits
    /\ posted \in [Classes -> Nat]
    /\ \A c \in Classes : IsFiniteSet(Shown(c))
    /\ NothingVanishes

LEMMA ItemsGrow == ASSUME NEW V, NEW W, V \subseteq W PROVE Seq(Item(V)) \subseteq Seq(Item(W))
<1>1. Event(V) \subseteq Event(W) BY DEF Event
<1>2. Item(V) \subseteq Item(W) BY <1>1 DEF Item
<1>. QED BY <1>2

LEMMA RowIsEvent ==
    ASSUME NEW s, NEW kind \in Kinds, NEW st, NEW au, NEW n, NEW ph \in BOOLEAN
    PROVE  \E V : RowOf(s, kind, st, au, n, ph) \in Event(V)
<1>. DEFINE V == {TaskOf[s], s, AgentOf[s], st, au, n}
<1>1. RowOf(s, kind, st, au, n, ph) \in Event(V) BY DEF RowOf, Event
<1>. QED BY <1>1

\* Every row that is posted is one of these.
LEMMA PostedIsEvent ==
    /\ \E V : Message \in Event(V)
    /\ \A s : \E V : Dispatched(s) \in Event(V)
    /\ \A s : \E V : TimedOut(s) \in Event(V)
    /\ \A s, n : \E V : Phase(s, n) \in Event(V)
    /\ \A s, n, o : \E V : Ended(s, n, o) \in Event(V)
<1>1. \E V : Message \in Event(V)
  <2>. DEFINE V == {Nobody, Message.status, "ceo", 0}
  <2>1. Message \in Event(V) BY Zenon DEF Message, Event, Kinds
  <2>. QED BY <2>1
<1>2. ASSUME NEW s PROVE (\E V : Dispatched(s) \in Event(V)) /\ (\E V : TimedOut(s) \in Event(V))
  BY RowIsEvent DEF Kinds, Dispatched, TimedOut
<1>3. ASSUME NEW s, NEW n PROVE \E V : Phase(s, n) \in Event(V) BY RowIsEvent DEF Kinds, Phase
<1>4. ASSUME NEW s, NEW n, NEW o PROVE \E V : Ended(s, n, o) \in Event(V)
  <2>1. CASE o # "done" BY <2>1, RowIsEvent DEF Kinds, Ended
  <2>2. CASE o = "done" /\ s \in Review
    <3>1. Ended(s, n, o) = RowOf(s, "review", "", AgentOf[s], n, FALSE) BY <2>2, Zenon DEF Ended
    <3>. QED BY <3>1, RowIsEvent, Zenon DEF Kinds
  <2>3. CASE o = "done" /\ s \notin Review
    <3>1. Ended(s, n, o) = RowOf(s, "handoff", "", AgentOf[s], 0, FALSE) BY <2>3, Zenon DEF Ended
    <3>. QED BY <3>1, RowIsEvent, Zenon DEF Kinds
  <2>. QED BY <2>1, <2>2, <2>3
<1>. QED BY <1>1, <1>2, <1>3, <1>4

\* The rows that are shown, now and after the step.
LEMMA ShownIs ==
    ASSUME NEW c, NEW x
    PROVE  /\ x \in Shown(c) <=> \E i \in DOMAIN thread : \E k \in 1..Weight(i) :
                                 Class(thread[i].body) = c /\ x = <<i, k>>
           /\ x \in Shown(c)' <=> \E i \in DOMAIN thread' : \E k \in 1..Weight(i)' :
                                 Class(thread'[i].body) = c /\ x = <<i, k>>
<1>1. x \in Shown(c) <=> \E i \in DOMAIN thread : \E k \in 1..Weight(i) :
                            Class(thread[i].body) = c /\ x = <<i, k>>
  BY DEF Shown
<1>2. x \in Shown(c)' <=> \E i \in DOMAIN thread' : \E k \in 1..Weight(i)' :
                             Class(thread'[i].body) = c /\ x = <<i, k>>
  BY DEF Shown
<1>. QED BY <1>1, <1>2

\* Item m, which stood for w rows (a new one for none), stands for one row more,
\* of class c0, and the others are as they were.
Grows(m, c0, w) ==
    /\ w \in Nat /\ DOMAIN thread' = DOMAIN thread \cup {m}
    /\ \A j \in DOMAIN thread : j # m => thread'[j] = thread[j]
    /\ m \in DOMAIN thread => Weight(m) = w /\ Class(thread[m].body) = c0
    /\ m \notin DOMAIN thread => w = 0
    /\ Class(thread'[m].body) = c0 /\ Weight(m)' = w + 1

\* It shows one row more of its class.
LEMMA OneMore ==
    ASSUME NEW m, NEW c0, NEW w, Grows(m, c0, w)
    PROVE  /\ <<m, w + 1>> \notin Shown(c0)
           /\ Shown(c0)' = Shown(c0) \cup {<<m, w + 1>>}
           /\ \A c : c # c0 => Shown(c)' = Shown(c)
<1>. USE DEF Grows
<1>1. \A j \in DOMAIN thread : j # m => Weight(j)' = Weight(j) BY DEF Weight
<1>2. \A k : k \in 1..(w + 1) <=> k \in 1..w \/ k = w + 1 OBVIOUS
<1>3. \A k : k \in 1..0 <=> FALSE OBVIOUS
<1>4. <<m, w + 1>> \notin Shown(c0)
  <2>1. SUFFICES ASSUME <<m, w + 1>> \in Shown(c0) PROVE FALSE OBVIOUS
  <2>2. PICK i, k : i \in DOMAIN thread /\ k \in 1..Weight(i) /\ <<m, w + 1>> = <<i, k>> BY <2>1, ShownIs
  <2>3. m \in DOMAIN thread /\ w + 1 \in 1..w BY <2>2
  <2>. QED BY <2>3
<1>5. ASSUME NEW x PROVE x \in Shown(c0)' <=> x \in Shown(c0) \/ x = <<m, w + 1>>
  <2>1. ASSUME x \in Shown(c0)' PROVE x \in Shown(c0) \/ x = <<m, w + 1>>
    <3>1. PICK i, k : i \in DOMAIN thread' /\ k \in 1..Weight(i)' /\ Class(thread'[i].body) = c0 /\ x = <<i, k>>
      BY <2>1, ShownIs
    <3>2. CASE i # m
      <4>1. i \in DOMAIN thread /\ k \in 1..Weight(i) /\ Class(thread[i].body) = c0 BY <1>1, <3>1, <3>2
      <4>. QED BY <3>1, <4>1, ShownIs
    <3>3. CASE i = m
      <4>1. k \in 1..w \/ k = w + 1 BY <3>1, <3>3, <1>2
      <4>2. CASE k \in 1..w /\ m \in DOMAIN thread
        <5>1. k \in 1..Weight(m) /\ Class(thread[m].body) = c0 BY <4>2
        <5>. QED BY <3>1, <3>3, <4>2, <5>1, ShownIs
      <4>3. CASE k = w + 1 BY <3>1, <3>3, <4>3
      <4>. QED BY <4>1, <4>2, <4>3, <1>3
    <3>. QED BY <3>2, <3>3
  <2>2. ASSUME x \in Shown(c0) PROVE x \in Shown(c0)'
    <3>1. PICK i, k : i \in DOMAIN thread /\ k \in 1..Weight(i) /\ Class(thread[i].body) = c0 /\ x = <<i, k>>
      BY <2>2, ShownIs
    <3>2. i \in DOMAIN thread' /\ k \in 1..Weight(i)' /\ Class(thread'[i].body) = c0
      <4>1. CASE i # m BY <1>1, <3>1, <4>1
      <4>2. CASE i = m BY <1>2, <3>1, <4>2
      <4>. QED BY <4>1, <4>2
    <3>. QED BY <3>1, <3>2, ShownIs
  <2>3. ASSUME x = <<m, w + 1>> PROVE x \in Shown(c0)'
    <3>1. m \in DOMAIN thread' /\ w + 1 \in 1..Weight(m)' OBVIOUS
    <3>. QED BY <2>3, <3>1, ShownIs
  <2>. QED BY <2>1, <2>2, <2>3
<1>6. ASSUME NEW c, c # c0, NEW x PROVE x \in Shown(c)' <=> x \in Shown(c)
  <2>1. ASSUME x \in Shown(c)' PROVE x \in Shown(c)
    <3>1. PICK i, k : i \in DOMAIN thread' /\ k \in 1..Weight(i)' /\ Class(thread'[i].body) = c /\ x = <<i, k>>
      BY <2>1, ShownIs
    <3>2. i # m /\ i \in DOMAIN thread /\ k \in 1..Weight(i) /\ Class(thread[i].body) = c BY <1>1, <1>6, <3>1
    <3>. QED BY <3>1, <3>2, ShownIs
  <2>2. ASSUME x \in Shown(c) PROVE x \in Shown(c)'
    <3>1. PICK i, k : i \in DOMAIN thread /\ k \in 1..Weight(i) /\ Class(thread[i].body) = c /\ x = <<i, k>>
      BY <2>2, ShownIs
    <3>2. i # m /\ i \in DOMAIN thread' /\ k \in 1..Weight(i)' /\ Class(thread'[i].body) = c BY <1>1, <1>6, <3>1
    <3>. QED BY <3>1, <3>2, ShownIs
  <2>. QED BY <2>1, <2>2
<1>7. Shown(c0)' = Shown(c0) \cup {<<m, w + 1>>} BY <1>5
<1>8. ASSUME NEW c, c # c0 PROVE Shown(c)' = Shown(c)
  <2>1. \A x : x \in Shown(c)' <=> x \in Shown(c) BY <1>6, <1>8
  <2>. QED BY <2>1
<1>. QED BY <1>4, <1>7, <1>8

\* What joins an item is of the item's class, and no message of the CEO.
LEMMA JoinsItsClass ==
    ASSUME NEW V, NEW it \in Item(V), NEW W, NEW e \in Event(W),
           ExtendsStepBlock(it, e) \/ ExtendsRepeat(it, e)
    PROVE  /\ Class(it.body) = Class(e) /\ it.body.kind # "ceo" /\ e.kind # "ceo"
<1>1. it.body \in Event(V) BY DEF Item
<1>2. CASE ExtendsStepBlock(it, e) BY <1>2 DEF ExtendsStepBlock, Class
<1>3. CASE ExtendsRepeat(it, e)
  <2>1. RepeatKey(it.body).kind = it.body.kind /\ RepeatKey(it.body).status = it.body.status
    BY <1>1 DEF RepeatKey, Event
  <2>2. RepeatKey(e).kind = e.kind /\ RepeatKey(e).status = e.status BY DEF RepeatKey, Event
  <2>3. it.body.kind = e.kind /\ it.body.status = e.status BY <1>3, <2>1, <2>2 DEF ExtendsRepeat
  <2>. QED BY <1>3, <2>3 DEF ExtendsRepeat, Class
<1>. QED BY <1>2, <1>3

\* The joined item stands for one row more.
LEMMA JoinedItem ==
    ASSUME NEW V, NEW last \in Item(V), NEW e \in Event(V), Class(last.body) = Class(e),
           last.body.kind # "ceo", e.kind # "ceo", NEW it,
           \/ it = [body |-> e, steps |-> last.steps + 1, repeats |-> last.repeats]
           \/ it = [last EXCEPT !.repeats = @ + 1]
    PROVE  /\ it \in Item(V) /\ Class(it.body) = Class(e) /\ it.body.kind # "ceo"
           /\ last.steps + last.repeats - 1 \in Nat
           /\ it.steps + it.repeats - 1 = (last.steps + last.repeats - 1) + 1
<1>1. PICK b \in Event(V), s \in Nat \ {0}, r \in Nat \ {0} : last = [body |-> b, steps |-> s, repeats |-> r]
  BY DEF Item
<1>2. last.body = b /\ last.steps = s /\ last.repeats = r BY <1>1
<1>3. s + 1 \in Nat \ {0} /\ r + 1 \in Nat \ {0} /\ s + r - 1 \in Nat /\ (s + 1) + r - 1 = (s + r - 1) + 1
      /\ s + (r + 1) - 1 = (s + r - 1) + 1
  OBVIOUS
<1>4. CASE it = [body |-> e, steps |-> last.steps + 1, repeats |-> last.repeats]
  <2>1. it.body = e /\ it.steps = s + 1 /\ it.repeats = r BY <1>2, <1>4
  <2>2. it \in Item(V) BY <1>2, <1>3, <1>4 DEF Item
  <2>. QED BY <1>2, <1>3, <2>1, <2>2
<1>5. CASE it = [last EXCEPT !.repeats = @ + 1]
  <2>0. it = [body |-> b, steps |-> s, repeats |-> r + 1] BY <1>1, <1>2, <1>5
  <2>1. it.body = b /\ it.steps = s /\ it.repeats = r + 1 BY <2>0
  <2>2. it \in Item(V) BY <1>3, <2>0 DEF Item
  <2>. QED BY <1>2, <1>3, <2>1, <2>2
<1>. QED BY <1>4, <1>5

\* A row adds one to what one item stands for: to the last one's, where it joins
\* that, or to nothing, in an item of its own.  The CEO's never join.
LEMMA Folded ==
    ASSUME NEW V, thread \in Seq(Item(V)), NEW e \in Event(V), thread' = ApplyEvent(thread, e)
    PROVE  /\ thread' \in Seq(Item(V))
           /\ \E m, w : Grows(m, Class(e), w) /\ (thread'[m].body.kind = "ceo" => w = 0)
<1>1. PICK n \in Nat : n = Len(thread) /\ DOMAIN thread = 1..n OBVIOUS
<1>. DEFINE last == thread[n]
            joined == [body |-> e, steps |-> last.steps + 1, repeats |-> last.repeats]
            again == [last EXCEPT !.repeats = @ + 1]
            new == [body |-> e, steps |-> 1, repeats |-> 1]
<1>2. CASE n > 0 /\ (ExtendsStepBlock(last, e) \/ ExtendsRepeat(last, e))
  <2>1. n \in DOMAIN thread /\ last \in Item(V) BY <1>1, <1>2
  <2>2. PICK it \in {joined, again} : thread' = [thread EXCEPT ![n] = it]
    <3>1. CASE ExtendsStepBlock(last, e)
      <4>1. thread' = [thread EXCEPT ![n] = joined] BY <1>1, <1>2, <3>1 DEF ApplyEvent
      <4>. QED BY <4>1
    <3>2. CASE ~ExtendsStepBlock(last, e)
      <4>1. thread' = [thread EXCEPT ![n] = again] BY <1>1, <1>2, <3>2 DEF ApplyEvent
      <4>. QED BY <4>1
    <3>. QED BY <3>1, <3>2
  <2>. HIDE DEF last
  <2>3. /\ Class(last.body) = Class(e) /\ last.body.kind # "ceo" /\ e.kind # "ceo"
    BY <1>2, <2>1, JoinsItsClass
  <2>4. \/ it = [body |-> e, steps |-> last.steps + 1, repeats |-> last.repeats]
        \/ it = [last EXCEPT !.repeats = @ + 1]
    BY <2>2
  <2>. HIDE DEF joined, again
  <2>. DEFINE w == last.steps + last.repeats - 1
  <2>7. /\ it \in Item(V) /\ Class(it.body) = Class(e) /\ it.body.kind # "ceo"
        /\ w \in Nat /\ it.steps + it.repeats - 1 = w + 1
    BY <2>1, <2>3, <2>4, JoinedItem
  <2>8. /\ thread' \in Seq(Item(V)) /\ DOMAIN thread' = DOMAIN thread /\ thread'[n] = it
        /\ \A j \in DOMAIN thread : j # n => thread'[j] = thread[j]
    <3>. DEFINE S == Item(V)
    <3>1. thread \in Seq(S) /\ it \in S /\ n \in 1..Len(thread) BY <2>1, <2>7, <1>1
    <3>. HIDE DEF S
    <3>2. thread' \in Seq(S) /\ Len(thread') = Len(thread) BY <2>2, <3>1, ExceptSeq
    <3>3. DOMAIN thread' = DOMAIN thread /\ \A j \in DOMAIN thread : thread'[j] = IF j = n THEN it ELSE thread[j]
      BY <2>2
    <3>. QED BY <2>1, <3>2, <3>3 DEF S
  <2>10. Weight(n) = w BY DEF Weight, last
  <2>11. Weight(n)' = w + 1 BY <2>7, <2>8 DEF Weight
  <2>12. Class(thread[n].body) = Class(e) BY <2>3 DEF last
  <2>13. DOMAIN thread' = DOMAIN thread \cup {n} BY <2>1, <2>8
  <2>. HIDE DEF w
  <2>14. Grows(n, Class(e), w) BY <2>1, <2>7, <2>8, <2>10, <2>11, <2>12, <2>13 DEF Grows
  <2>. QED BY <2>7, <2>8, <2>14
<1>3. CASE ~(n > 0 /\ (ExtendsStepBlock(last, e) \/ ExtendsRepeat(last, e)))
  <2>1. thread' = Append(thread, new) BY <1>1, <1>3 DEF ApplyEvent
  <2>2. new \in Item(V) /\ new.body = e /\ new.steps = 1 /\ new.repeats = 1 BY DEF Item
  <2>. HIDE DEF new
  <2>3. /\ thread' \in Seq(Item(V)) /\ DOMAIN thread' = 1..(n + 1) /\ thread'[n + 1] = new
        /\ \A j \in 1..n : thread'[j] = thread[j]
    <3>. DEFINE S == Item(V)
    <3>1. thread \in Seq(S) /\ new \in S BY <2>2
    <3>. HIDE DEF S
    <3>2. thread' \in Seq(S) /\ Len(thread') = n + 1 BY <1>1, <2>1, <3>1, AppendProperties
    <3>3. thread'[n + 1] = new /\ \A j \in 1..n : thread'[j] = thread[j] BY <1>1, <2>1, <3>1, AppendProperties
    <3>. QED BY <3>2, <3>3 DEF S
  <2>4. DOMAIN thread' = DOMAIN thread \cup {n + 1} /\ n + 1 \notin DOMAIN thread BY <1>1, <2>3
  <2>5. Weight(n + 1)' = 0 + 1 BY <2>2, <2>3 DEF Weight
  <2>6. Grows(n + 1, Class(e), 0) BY <1>1, <2>2, <2>3, <2>4, <2>5 DEF Grows
  <2>. QED BY <2>3, <2>6
<1>. QED BY <1>2, <1>3

\* Every row that is posted is shown, once.
LEMMA PostKeepsThread ==
    ASSUME ThreadInv, NEW U, NEW e \in Event(U), Post(e) PROVE ThreadInv'
<1>1. thread' = ApplyEvent(thread, e) /\ posted' = [posted EXCEPT ![Class(e)] = @ + 1]
  BY DEF Post
<1>2. PICK V : thread \in Seq(Item(V)) BY DEF ThreadInv, ThreadFits
<1>3. thread \in Seq(Item(U \cup V)) /\ e \in Event(U \cup V)
  <2>. DEFINE W == U \cup V
  <2>1. V \subseteq W /\ e \in Event(W) BY DEF Event
  <2>. HIDE DEF W
  <2>2. thread \in Seq(Item(W)) BY <1>2, <2>1, ItemsGrow
  <2>. QED BY <2>1, <2>2 DEF W
<1>4. /\ thread' \in Seq(Item(U \cup V))
      /\ \E m, w : Grows(m, Class(e), w) /\ (thread'[m].body.kind = "ceo" => w = 0)
  BY <1>1, <1>3, Folded
<1>5. PICK m, w : Grows(m, Class(e), w) /\ (thread'[m].body.kind = "ceo" => w = 0) BY <1>4
<1>. DEFINE c0 == Class(e)  p == <<m, w + 1>>
<1>6. c0 \in Classes /\ posted \in [Classes -> Nat] BY DEF Class, Classes, Event, Kinds, ThreadInv
<1>7. /\ p \notin Shown(c0) /\ Shown(c0)' = Shown(c0) \cup {p}
      /\ \A c : c # c0 => Shown(c)' = Shown(c)
  BY <1>5, OneMore
<1>8. \A c \in Classes : IsFiniteSet(Shown(c)) /\ Cardinality(Shown(c)) = posted[c]
  BY DEF ThreadInv, NothingVanishes
<1>. HIDE DEF c0, p
<1>9. \A c \in Classes : posted'[c] = IF c = c0 THEN posted[c] + 1 ELSE posted[c]
  BY <1>1, <1>6 DEF c0
<1>10. posted' \in [Classes -> Nat] BY <1>1, <1>6 DEF c0
<1>11. IsFiniteSet(Shown(c0)') /\ Cardinality(Shown(c0)') = posted[c0] + 1
  BY <1>6, <1>7, <1>8, FS_AddElement
<1>12. ASSUME NEW c \in Classes PROVE IsFiniteSet(Shown(c)') /\ Cardinality(Shown(c)') = posted'[c]
  <2>1. CASE c = c0 BY <1>9, <1>11, <2>1
  <2>2. CASE c # c0
    <3>1. Shown(c)' = Shown(c) /\ posted'[c] = posted[c] BY <1>7, <1>9, <2>2
    <3>. QED BY <3>1, <1>8
  <2>. QED BY <2>1, <2>2
<1>13. ASSUME NEW i \in DOMAIN thread', thread'[i].body.kind = "ceo" PROVE Weight(i)' = 1
  <2>1. CASE i = m BY <1>5, <1>13, <2>1 DEF Grows
  <2>2. CASE i # m
    <3>1. i \in DOMAIN thread /\ thread'[i] = thread[i] BY <1>5, <2>2 DEF Grows
    <3>2. Weight(i)' = Weight(i) BY <3>1 DEF Weight
    <3>. QED BY <1>13, <3>1, <3>2 DEF ThreadInv, NothingVanishes
  <2>. QED BY <2>1, <2>2
<1>14. ThreadFits' BY <1>4 DEF ThreadFits
<1>15. NothingVanishes' BY <1>12, <1>13 DEF NothingVanishes
<1>. QED BY <1>10, <1>12, <1>14, <1>15 DEF ThreadInv

LEMMA QuietThread == ASSUME ThreadInv, UNCHANGED <<thread, posted>> PROVE ThreadInv'
BY DEF ThreadInv, ThreadFits, NothingVanishes, Shown, Weight

\* Nothing that is said in the room vanishes in the fold, and nothing is shown
\* that was not: per class of rows, for any steps, agents and number of rows, and
\* wherever processes die between a write and its row (thread-folding.ts).
THEOREM NothingVanishesInTheFold == Spec => []NothingVanishes
<1>1. Init => ThreadInv
  <2>. SUFFICES ASSUME Init PROVE ThreadInv OBVIOUS
  <2>1. thread = <<>> /\ posted = [c \in Classes |-> 0] BY DEF Init
  <2>2. thread \in Seq(Item({})) /\ DOMAIN thread = {} BY <2>1
  <2>3. \A c : Shown(c) = {}
    <3>1. \A c, x : x \notin Shown(c) BY <2>2, ShownIs
    <3>. QED BY <3>1
  <2>4. IsFiniteSet({}) /\ Cardinality({}) = 0 BY FS_EmptySet
  <2>. QED BY <2>1, <2>2, <2>3, <2>4 DEF ThreadInv, ThreadFits, NothingVanishes
<1>2. ThreadInv /\ Types /\ [Next]_vars => ThreadInv'
  <2>. SUFFICES ASSUME ThreadInv, Types, [Next]_vars PROVE ThreadInv' OBVIOUS
  <2>1. CASE AppendOwed
    <3>1. PICK s \in Step : owed \in {Dispatched(s), TimedOut(s)} BY <2>1, OwedKnown DEF AppendOwed
    <3>2. PICK U : owed \in Event(U) BY <3>1, PostedIsEvent
    <3>3. Post(owed) BY <2>1 DEF AppendOwed, PostAndMirror
    <3>4. \E e \in Event(U) : Post(e) BY <3>2, <3>3
    <3>. QED BY <3>4, PostKeepsThread
  <2>2. ASSUME NEW n \in Attempt, PostPhase(n) PROVE ThreadInv'
    <3>1. \E U : \E e \in Event(U) : Post(e) BY <2>2, PostedIsEvent DEF PostPhase, PostAndMirror
    <3>. QED BY <3>1, PostKeepsThread
  <2>3. ASSUME NEW n \in Attempt, Report(n) PROVE ThreadInv'
    <3>1. \E U : \E e \in Event(U) : Post(e) BY <2>3, PostedIsEvent DEF Report, PostAndMirror
    <3>. QED BY <3>1, PostKeepsThread
  <2>4. CASE Say
    <3>1. \E U : \E e \in Event(U) : Post(e) BY <2>4, PostedIsEvent DEF Say
    <3>. QED BY <3>1, PostKeepsThread
  <2>5. CASE Crash \/ Page \/ UNCHANGED vars \/ \E w \in Writer : Mirror(w)
    BY <2>5, QuietThread DEF Crash, Page, Reopen, Deliver, Mirror, Silent, vars, store
  <2>6. ASSUME NEW s \in Step, Dispatch(s) \/ Timeout(s) \/ GiveUp(s) PROVE ThreadInv'
    BY <2>6, QuietThread DEF Dispatch, Timeout, GiveUp, Silent
  <2>7. ASSUME NEW n \in Attempt, Start(n) \/ Die(n) \/ (\E o \in Outcome : Write(n, o)) PROVE ThreadInv'
    BY <2>7, QuietThread DEF Start, Die, Write, Silent
  <2>. QED BY <2>1, <2>2, <2>3, <2>4, <2>5, <2>6, <2>7 DEF Next, Tick, Worker
<1>3. DeskInv => Types BY DEF DeskInv, StoreInv
<1>4. ThreadInv => NothingVanishes BY DEF ThreadInv
<1>. QED BY <1>1, <1>2, <1>3, <1>4, DeskInvariant, PTL DEF Spec
=============================================================================
