------------------------------- MODULE StepLife -------------------------------
(***************************************************************************)
(* What the rows of a task promise of a step, without ticks, snapshots,    *)
(* pids, leases that run out and retry counters: attempts are granted one  *)
(* after the other, on inputs that have been achieved; only the latest     *)
(* begins to work, and only it can end; a ruling settles what has stopped; *)
(* and what is sealed stays so.  TeamTaskTick implements it.               *)
(***************************************************************************)
EXTENDS Naturals

CONSTANTS Step, Deps

VARIABLES
    phase,     \* where each step stands
    granted,   \* how many attempts it was granted: the latest is granted[s]
    achieved,  \* the steps that have ever had a result
    atWork     \* the attempts of each step that have a process at work

life == <<phase, granted, achieved, atWork>>

\* A sealed step is done and no attempt holds its row any more.
Settled == {"done", "sealed"}
Ends    == {"done", "paused", "judged", "dead"}

Init ==
    /\ phase = [s \in Step |-> "waiting"] /\ granted = [s \in Step |-> 0]
    /\ achieved = {} /\ atWork = [s \in Step |-> {}]

Enter(S, p) ==
    /\ phase' = [s \in Step |-> IF s \in S THEN p ELSE phase[s]]
    /\ achieved' = IF p \in Settled THEN achieved \cup S ELSE achieved

\* A grant takes the step from whoever had it; a sealed one is out of reach.
Grant(s) ==
    /\ phase[s] # "sealed" /\ Deps[s] \subseteq achieved
    /\ Enter({s}, "leased")
    /\ granted' = [granted EXCEPT ![s] = @ + 1]
    /\ UNCHANGED atWork

Begin(s) ==
    /\ phase[s] = "leased"
    /\ atWork' = [atWork EXCEPT ![s] = @ \cup {granted[s]}]
    /\ UNCHANGED <<phase, granted, achieved>>

\* The end of the latest attempt, which may have been given up for dead.
End(s, p) ==
    /\ phase[s] \notin {"waiting", "sealed"} /\ granted[s] \in atWork[s]
    /\ Enter({s}, p)
    /\ atWork' = [atWork EXCEPT ![s] = @ \ {granted[s]}]
    /\ UNCHANGED granted

\* Steps are given up for dead, and processes leave, of these or others.
Fail(S) ==
    /\ \A s \in S : phase[s] # "sealed"
    /\ \A s \in Step : atWork'[s] \subseteq atWork[s]
    /\ Enter(S, "dead")
    /\ UNCHANGED granted

\* What has stopped is put back, or settled by somebody else.
Rule(S, p) ==
    /\ \A s \in S : phase[s] \in {"judged", "dead"}
    /\ Enter(S, p)
    /\ UNCHANGED <<granted, atWork>>

Next ==
    \/ \E s \in Step : Grant(s) \/ Begin(s) \/ \E p \in Ends : End(s, p)
    \/ \E S \in SUBSET Step : Fail(S) \/ \E p \in {"waiting"} \cup Settled : Rule(S, p)

Spec == Init /\ [][Next]_life
=============================================================================
