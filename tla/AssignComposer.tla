----------------------------- MODULE AssignComposer -----------------------------
(***************************************************************************)
(* The composer with which the CEO briefs the crew: one text field, one    *)
(* round trip at a time, a queue for what is typed meanwhile, and a        *)
(* preview that waits for a decision (assign-composer.tsx,                 *)
(* composer-queue.ts, preauth-card.tsx), against the drafts of PlanDrafts. *)
(*                                                                         *)
(* An effect runs right after the commit that asks for it: no click comes  *)
(* between a phase that lets the queue flush and the flush.                *)
(***************************************************************************)
EXTENDS PlanDrafts

CONSTANTS
    Texts,      \* what the CEO may type
    NoText,     \* the empty field
    NoRoom,     \* activeRoom = null, the overview
    MaxTyped,   \* bound: texts typed
    MaxLost     \* bound: requests that fail on the way, and pages left

ASSUME ComposerAssumption == NoText \notin Texts /\ MaxTyped \in Nat /\ MaxLost \in Nat

VARIABLES
    phase,      \* the state machine of the composer, with what its card shows
    brief,      \* the text field
    lastBrief,  \* the text as submitted
    queued,     \* follow-ups typed while a round trip is in flight
    scope,      \* preauthScope, with the task whose card it was picked on
    room,       \* the activeRoom property
    request,    \* the round trip in flight, and its answer once there is one
    cancels,    \* assignCancel calls in flight
    forsaken,   \* drafts whose request failed, or whose page was left
    typed, lost \* counters of the bounds

clientVars == <<phase, brief, lastBrief, queued, scope, room, request, cancels, forsaken, typed, lost>>
vars == <<serverVars, clientVars>>

Rooms  == {NoRoom, "room"}
Scopes == {"", "once"}   \* "always" differs in what the server learns from it

(***************************************************************************)
(* Phases and requests.                                                    *)
(***************************************************************************)
Phase(kind) == [kind |-> kind, ref |-> 0]
Card(kind, ref) == [kind |-> kind, ref |-> ref]
Unpicked == [scope |-> "", task |-> 0]
NoRequest == [kind |-> "none", ref |-> 0, room |-> NoRoom, scope |-> "", answer |-> Phase("none")]
Request(kind, ref, s) == [NoRequest EXCEPT !.kind = kind, !.ref = ref, !.room = room, !.scope = s]

\* Faulty: a confirm does not park what is typed; a done composer flushes no more.
ShouldQueuePreview == phase.kind = "previewing"
FlushableIdle == {"idle", "reply"}

Busy      == {"previewing", "confirming"}
Flushable == {"idle", "reply", "done"}
ShouldQueue == phase.kind \in Busy
CanFlush == queued # <<>> /\ phase.kind \in Flushable
LivePreview == phase.kind \in {"preview", "adjust-preview"}

Init ==
    /\ ServerInit
    /\ phase = Phase("idle") /\ brief = NoText /\ lastBrief = NoText /\ queued = <<>>
    /\ scope = Unpicked /\ room \in Rooms /\ request = NoRequest
    /\ cancels = {} /\ forsaken = {} /\ typed = 0 /\ lost = 0

(***************************************************************************)
(* The CEO at the composer.  Every handler returns at once while an effect *)
(* is due.                                                                 *)
(***************************************************************************)
Idle == ~CanFlush /\ UNCHANGED serverVars

\* onChange, and a seed of the welcome card, which leaves the phase alone.
Type(text) ==
    /\ Idle /\ typed < MaxTyped /\ typed' = typed + 1
    /\ brief' = text
    /\ phase' \in {phase, IF phase.kind \in {"error", "done"} THEN Phase("idle") ELSE phase}
    /\ UNCHANGED <<lastBrief, queued, scope, room, request, cancels, forsaken, lost>>

\* Faulty: the scope of the card before is kept.
SendKeepingScope(text) ==
    /\ lastBrief' = text /\ scope' = scope /\ phase' = Phase("previewing")
    /\ request' = Request(IF room = NoRoom THEN "preview" ELSE "chat", 0, "")

\* The part of submitText that sends: to the room's chat, or for a preview.
Send(text) ==
    /\ lastBrief' = text /\ scope' = Unpicked /\ phase' = Phase("previewing")
    /\ request' = Request(IF room = NoRoom THEN "preview" ELSE "chat", 0, "")

\* Faulty: a live preview is submitted over.
SubmitOver ==
    /\ Idle /\ brief # NoText /\ ~ShouldQueue
    /\ Send(brief) /\ UNCHANGED <<queued, brief, room, cancels, forsaken, typed, lost>>

\* Enter: not over a live preview; parked while a round trip is in flight.
Submit ==
    /\ Idle /\ brief # NoText /\ ~LivePreview
    /\ IF ShouldQueue
       THEN /\ queued' = Append(queued, brief) /\ brief' = NoText
            /\ UNCHANGED <<phase, lastBrief, scope, request>>
       ELSE Send(brief) /\ UNCHANGED <<queued, brief>>
    /\ UNCHANGED <<room, cancels, forsaken, typed, lost>>

\* The effect that sends the oldest queued text once the composer is free.
Flush ==
    /\ CanFlush
    /\ Send(Head(queued)) /\ queued' = SubSeq(queued, 2, Len(queued))
    /\ UNCHANGED <<serverVars, brief, room, cancels, forsaken, typed, lost>>

RemoveQueued(i) ==
    /\ Idle /\ queued' = RemoveAt(queued, i)
    /\ UNCHANGED <<phase, brief, lastBrief, scope, room, request, cancels, forsaken, typed, lost>>

\* The radio buttons of the pre-authorization card.
PickScope(s) ==
    /\ Idle /\ phase.kind = "preview" /\ scope.scope # s
    /\ scope' = [scope |-> s, task |-> phase.ref]
    /\ UNCHANGED <<phase, brief, lastBrief, queued, room, request, cancels, forsaken, typed, lost>>

Confirm ==
    /\ Idle /\ phase.kind = "preview"
    /\ request' = Request("confirm", phase.ref, scope.scope)
    /\ phase' = Phase("confirming")
    /\ UNCHANGED <<brief, lastBrief, queued, scope, room, cancels, forsaken, typed, lost>>

\* Without an active room the button does nothing.
ConfirmAdjust ==
    /\ Idle /\ phase.kind = "adjust-preview" /\ room # NoRoom
    /\ request' = Request("confirmAdjust", phase.ref, "")
    /\ phase' = Phase("confirming")
    /\ UNCHANGED <<brief, lastBrief, queued, scope, room, cancels, forsaken, typed, lost>>

\* Cancel, and Edit request, which hands the submitted text back.
Cancel ==
    /\ Idle /\ phase.kind = "preview"
    /\ cancels' = cancels \cup {phase.ref} /\ phase' = Phase("idle")
    /\ brief' \in {brief, lastBrief}
    /\ UNCHANGED <<lastBrief, queued, scope, room, request, forsaken, typed, lost>>

\* Dismiss an amendment: its draft stays confirmable until it expires.
Dismiss ==
    /\ Idle /\ phase.kind = "adjust-preview" /\ phase' = Phase("idle")
    /\ UNCHANGED <<brief, lastBrief, queued, scope, room, request, cancels, forsaken, typed, lost>>

\* Another conversation: the same composer with another activeRoom.
Navigate ==
    /\ Idle /\ room' \in Rooms \ {room}
    /\ UNCHANGED <<phase, brief, lastBrief, queued, scope, request, cancels, forsaken, typed, lost>>

\* The task whose draft a request or a card is about.
DraftOf(q) == CASE q.kind = "confirm" -> {q.ref}
                [] q.answer.kind = "preview" -> {q.answer.ref}
                [] OTHER -> {}
Shown == IF phase.kind = "preview" THEN {phase.ref} ELSE {}

\* The page is left: the state of the component is gone, and whoever answers
\* its request answers nobody.
Leave ==
    /\ Idle /\ lost < MaxLost /\ lost' = lost + 1
    /\ phase' = Phase("idle") /\ brief' = NoText /\ lastBrief' = NoText /\ queued' = <<>>
    /\ scope' = Unpicked /\ request' = NoRequest
    /\ forsaken' = forsaken \cup Shown \cup DraftOf(request)
    /\ UNCHANGED <<room, cancels, typed>>

(***************************************************************************)
(* The server side of a request: routes_office_assign.py and               *)
(* routes_office_room_chat.py.                                             *)
(***************************************************************************)
Waiting(kinds) == request.kind \in kinds /\ request.answer.kind = "none"
AnswerWith(card) == request' = [request EXCEPT !.answer = card]
Client == UNCHANGED <<phase, brief, lastBrief, queued, scope, room, cancels, forsaken, typed, lost>>

\* A plan for the text; in a room, only when the text asks for a new task.
ServePlan(plan, auto) ==
    /\ Waiting({"preview", "chat"}) /\ DraftPlan(plan, request.room, auto)
    /\ AnswerWith(IF auto THEN Phase("done") ELSE Card("preview", Len(tasks) + 1))
    /\ UNCHANGED <<drafts, amending>> /\ Client

\* A brief that is refused; in a room, a question, or an amendment that finds
\* no task, several, or one that it merely steers.
ServeOther ==
    /\ Waiting({"preview", "chat"})
    /\ \/ AnswerWith(Phase("error"))
       \/ request.kind = "chat" /\ AnswerWith(Phase("reply"))
    /\ UNCHANGED serverVars /\ Client

\* The one open task of the room is to be amended.
ServeAdjust(t) ==
    /\ Waiting({"chat"}) /\ \A a \in amending : a.by # "web"
    /\ {u \in DOMAIN tasks : tasks[u].room = request.room /\ tasks[u].status \in {"open", "stalled"}} = {t}
    /\ StartAmend(t, "web")
    /\ request' = [request EXCEPT !.kind = "amend"]
    /\ UNCHANGED <<tasks, drafts>> /\ Client

\* Faulty: an amendment that failed is answered with a card.
ServeDraftBlind(a) ==
    /\ a.by = "web" /\ Waiting({"amend"})
    /\ DropAmend(a) /\ AnswerWith(Card("adjust-preview", Len(drafts) + 1)) /\ Client

ServeDraft(a) ==
    /\ a.by = "web"
    /\ \E card \in {Phase("error"), Card("adjust-preview", Len(drafts) + 1)} :
         /\ IF card.kind = "error" THEN DropAmend(a) ELSE \E tail \in Tails : WriteDraft(a, tail)
         /\ request' = IF Waiting({"amend"}) THEN [request EXCEPT !.answer = card] ELSE request
    /\ Client

ServeConfirm ==
    /\ Waiting({"confirm"})
    /\ ConfirmPlan(request.ref, tasks[request.ref].hash, request.scope)
    /\ AnswerWith(Phase(IF CanConfirm(request.ref, tasks[request.ref].hash) THEN "done" ELSE "error"))
    /\ UNCHANGED <<drafts, amending>> /\ Client

ServeConfirmAdjust ==
    /\ Waiting({"confirmAdjust"}) /\ ConfirmAmendment(request.ref)
    /\ AnswerWith(Phase(IF Applies(request.ref) THEN "done" ELSE "error"))
    /\ UNCHANGED amending /\ Client

ServeCancel(t) ==
    /\ t \in cancels /\ cancels' = cancels \ {t}
    /\ CancelPlan(t)
    /\ UNCHANGED <<drafts, amending, phase, brief, lastBrief, queued, scope, room, request, forsaken,
                   typed, lost>>

(***************************************************************************)
(* What comes back.                                                        *)
(***************************************************************************)
\* The then of a request: its phase, and an empty field when all is said.
Answer ==
    /\ request.answer.kind # "none"
    /\ phase' = request.answer
    /\ brief' = IF request.answer.kind \in {"reply", "done"} THEN NoText ELSE brief
    /\ request' = NoRequest
    /\ UNCHANGED <<serverVars, lastBrief, queued, scope, room, cancels, forsaken, typed, lost>>

\* The catch of a request that does not reach the server, or whose answer is
\* lost; a cancel that fails is not tried again.
Fail ==
    /\ lost < MaxLost /\ lost' = lost + 1
    /\ \/ /\ request.kind # "none"
          /\ phase' = Phase("error") /\ request' = NoRequest
          /\ forsaken' = forsaken \cup DraftOf(request) /\ UNCHANGED cancels
       \/ \E t \in cancels : /\ cancels' = cancels \ {t} /\ forsaken' = forsaken \cup {t}
                             /\ UNCHANGED <<phase, request>>
    /\ UNCHANGED <<serverVars, brief, lastBrief, queued, scope, room, typed>>

\* The tick starts a step that an amendment was to replace; bound: of the task
\* that runs already.
Dispatch == (\E i \in Steps(1) : Reserve(1, i)) /\ UNCHANGED clientVars

CEO ==
    \/ \E text \in Texts : Type(text)
    \/ Submit \/ \E i \in DOMAIN queued : RemoveQueued(i)
    \/ \E s \in Scopes : PickScope(s)
    \/ Confirm \/ ConfirmAdjust \/ Cancel \/ Dismiss \/ Navigate \/ Leave

Serve ==
    \/ \E plan \in Plans, auto \in BOOLEAN : ServePlan(plan, auto)
    \/ ServeOther
    \/ \E t \in DOMAIN tasks : ServeAdjust(t)
    \/ \E a \in amending : ServeDraft(a)
    \/ ServeConfirm \/ ServeConfirmAdjust

Next ==
    \/ CEO \/ Flush \/ Serve \/ Answer \/ Fail \/ Dispatch
    \/ \E t \in cancels : ServeCancel(t)

Spec == Init /\ [][Next]_vars

\* Routes answer, promises settle and effects run; the CEO may do nothing.
FairSpec == Spec /\ WF_vars(Serve) /\ WF_vars(Answer) /\ WF_vars(Flush)

-----------------------------------------------------------------------------
(***************************************************************************)
(* Properties.                                                             *)
(***************************************************************************)
TaskIds == 0..MaxTasks
Kinds == {"idle", "previewing", "preview", "adjust-preview", "reply", "confirming", "done", "error", "none"}
CardType == [kind : Kinds, ref : Nat]

(* The types of the composer's state: a card names a task or a draft that   *)
(* the server has.                                                          *)
TypeOK ==
    /\ phase \in CardType /\ request.answer \in CardType
    /\ brief \in Texts \cup {NoText} /\ lastBrief \in Texts \cup {NoText}
    /\ queued \in Seq(Texts) /\ room \in Rooms
    /\ scope \in [scope : Scopes, task : TaskIds]
    /\ request.kind \in {"none", "preview", "chat", "amend", "confirm", "confirmAdjust"}
    /\ cancels \cup forsaken \cup DraftOf(request) \cup Shown \subseteq DOMAIN tasks
    /\ phase.kind = "adjust-preview" => phase.ref \in DOMAIN drafts

(* An answer always finds the composer waiting for it: a round trip is in   *)
(* flight exactly in the phases that queue what is submitted, and none is   *)
(* replaced by another, so no second answer overwrites a card the CEO is    *)
(* looking at (composer-queue.ts).                                          *)
OneRoundTrip ==
    /\ [](request.kind # "none" <=> phase.kind \in Busy)
    /\ [][request.kind # "none" /\ request'.kind # "none" =>
             request'.kind \in {request.kind, "amend"} /\ request'.ref = request.ref]_vars

(* No previewed draft is let go of: an unconfirmed plan is on the card, or  *)
(* on its way to or from it, or being cancelled, unless its request failed  *)
(* or its page was left (submitText, review m5).                            *)
NoOrphanDraft ==
    \A t \in DOMAIN tasks :
        tasks[t].status = "planning" => t \in Shown \cup DraftOf(request) \cup cancels \cup forsaken

(* The approval posture a confirm carries was picked on the card of that    *)
(* very plan, and no other task ever gets it (preauthScope).                *)
ScopeIsOfThisPlan ==
    /\ request.kind = "confirm" /\ request.scope # "" => scope.task = request.ref
    /\ phase.kind = "preview" /\ scope.scope # "" => scope.task = phase.ref
    /\ \A t \in DOMAIN tasks : tasks[t].scope # "" => tasks[t].status \in {"open", "stalled"}

(* What was queued is sent: a parked text leaves the queue, unless a        *)
(* preview waits for the CEO's decision or a failure stopped the flush.     *)
QueueDrains ==
    \A n \in 1..MaxTyped :
        Len(queued) = n ~> (Len(queued) < n \/ LivePreview \/ phase.kind = "error")
=============================================================================
