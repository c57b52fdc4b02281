------------------------------- MODULE RoomFeed -------------------------------
(***************************************************************************)
(* What a room promises its reader, without streams, cursors, mounts or    *)
(* mirrors: the reader takes the rows of a room one after the other, skips *)
(* only what has been forgotten, and never goes back, unless it starts     *)
(* over with nothing.  OfficeStream implements it for the workrooms.       *)
(***************************************************************************)
EXTENDS Naturals

CONSTANT Room

VARIABLES
    sent,  \* the rows ever written to each room
    gone,  \* rows up to this one are forgotten
    held,  \* the rows of each room the reader has
    upTo   \* how far the reader has come in each room

feed == <<sent, gone, held, upTo>>

Init ==
    /\ sent = [r \in Room |-> {}] /\ held = [r \in Room |-> {}]
    /\ upTo = [r \in Room |-> 0] /\ gone = 0

\* A new row; one counter numbers the rows of all rooms.
Send(r) == \E s \in sent'[r] \ sent[r] :
    /\ \A q \in Room : \A t \in sent[q] : t < s
    /\ sent' = [sent EXCEPT ![r] = @ \cup {s}]
    /\ UNCHANGED <<gone, held, upTo>>

Forget ==
    /\ gone' \in Nat /\ gone' > gone
    /\ UNCHANGED <<sent, held, upTo>>

Take(r) == \E s \in sent[r] :
    /\ upTo[r] < s
    /\ \A t \in sent[r] : upTo[r] < t /\ t < s => t <= gone
    /\ held' = [held EXCEPT ![r] = @ \cup {s}]
    /\ upTo' = [upTo EXCEPT ![r] = s]
    /\ UNCHANGED <<sent, gone>>

StartOver ==
    /\ held' = [r \in Room |-> {}] /\ upTo' = [r \in Room |-> 0]
    /\ UNCHANGED <<sent, gone>>

Next == (\E r \in Room : Send(r) \/ Take(r)) \/ Forget \/ StartOver

Spec == Init /\ [][Next]_feed
=============================================================================
