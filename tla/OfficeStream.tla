----------------------------- MODULE OfficeStream -----------------------------
(***************************************************************************)
(* How the rows of the office room store reach the screens of one browser  *)
(* tab: the append-only store with one seq over all rooms, whose workroom  *)
(* rows are mirrored into the overview room by a second insert; the SSE    *)
(* route with its three cursors; the EventSource that breaks and connects  *)
(* again; useOfficeStream with the cache its mounts share; the chat page,  *)
(* which marks rooms read, and the office page, which mounts two streams.  *)
(*                                                                         *)
(* A row's payload is left out: what a thread and a desk make of it is the *)
(* subject of OfficeEvents.                                                *)
(***************************************************************************)
EXTENDS Naturals, Sequences, FiniteSets, FiniteSetsExt

CONSTANTS
    Workrooms,   \* rooms of tasks
    Office,      \* OFFICE_ROOM_ID, the overview room
    NoRoom,      \* a mount that is not on screen
    Kinds,       \* kinds of rows, of which the thread knows all but "advisor"
    ColdTail,        \* OVERVIEW_COLD_TAIL and OFFICE_COLD_TAIL
    MaxRows,     \* bound: rows the store ever gets
    MaxPruned,   \* bound: rows the retention sweep deletes
    MaxBreaks    \* bound: connections that break, are refused, or tabs reloaded

ASSUME RoomAssumption == Office \notin Workrooms /\ NoRoom \notin Workrooms \cup {Office}
ASSUME TailAssumption == ColdTail \in Nat \ {0}
ASSUME BoundAssumption == MaxRows \in Nat /\ MaxPruned \in Nat /\ MaxBreaks \in Nat

VARIABLES
    log,       \* the rows of office_room.db; the seq of a row is its index
    owed,      \* workroom rows whose mirror row is not inserted yet
    pruned,    \* rows up to this seq are deleted
    cache,     \* roomCache of use-office-stream.ts, alive as long as the tab
    stream,    \* the state of each mount of useOfficeStream and its EventSource
    read,      \* the read cursors of the conversation list
    breaks     \* counter of the bounded failures

vars == <<log, owed, pruned, cache, stream, read, breaks>>

Rooms  == Workrooms \cup {Office}
Mounts == {"thread", "floor", "feed"}
Rows   == DOMAIN log

(***************************************************************************)
(* The store and the cursor of the route.                                  *)
(***************************************************************************)
RowsOf(r) == {s \in Rows : s > pruned /\ log[s].room = r}
LastSeq(r) == Max(RowsOf(r) \cup {0})
TailCursor(r) == IF LastSeq(r) > ColdTail THEN LastSeq(r) - ColdTail ELSE 0
After(r, cursor) == {s \in RowsOf(r) : s > cursor}

(***************************************************************************)
(* The shared cache and one mount.                                         *)
(***************************************************************************)
EmptyCache == [seen |-> {}, messages |-> 0, lastSeq |-> 0]

Unmounted == [room |-> NoRoom, view |-> {}, link |-> "none", connected |-> FALSE,
              errored |-> FALSE, pos |-> 0, cold |-> FALSE]

\* Faulty variants, for the mutants of the runs: any room connects cold; a
\* mount does not seed its screen; a row is pushed twice; the cursor runs ahead.
MountedCold(r, c) ==
    IF r = NoRoom THEN Unmounted
    ELSE [Unmounted EXCEPT !.room = r, !.view = c[r].seen, !.link = "connecting",
                           !.pos = c[r].lastSeq, !.cold = c[r].lastSeq = 0]
MountedBlank(r, c) == [MountedCold(r, c) EXCEPT !.view = {}]
PushedTwice(c, s) == [c EXCEPT !.seen = @ \cup {s}, !.messages = @ + 1, !.lastSeq = Max({@, s})]
PushedAhead(c, s) ==
    IF s \in c.seen THEN c ELSE [PushedTwice(c, s) EXCEPT !.lastSeq = s + 1]

\* The effect of useOfficeStream: seed from the cache, open an EventSource
\* that asks for the rows after the cache's cursor, or for the tail.
Mounted(r, c) ==
    IF r = NoRoom THEN Unmounted
    ELSE [room |-> r, view |-> c[r].seen, link |-> "connecting", connected |-> FALSE,
          errored |-> FALSE, pos |-> c[r].lastSeq, cold |-> r = Office /\ c[r].lastSeq = 0]

\* onmessage: a row the tab has seen is dropped without touching the state.
Pushed(c, s) ==
    IF s \in c.seen THEN c
    ELSE [seen |-> c.seen \cup {s}, messages |-> c.messages + 1,
          lastSeq |-> IF s > c.lastSeq THEN s ELSE c.lastSeq]

\* thread.lastSeq: the highest row of view that the thread of room r takes in;
\* an advisor note is neither history nor activity.
InThread(s, r) == log[s].kind # "advisor" /\ (r = Office \/ log[s].source = r)
ThreadSeq(view, r) == Max({s \in view : InThread(s, r)} \cup {0})

\* Faulty: only the first visit counts.
MarkReadOnce(r, view) == IF read[r] = 0 THEN [read EXCEPT ![r] = ThreadSeq(view, r)] ELSE read

\* onRead and markRead: a cursor only moves forward.
MarkRead(r, view) ==
    IF ThreadSeq(view, r) > read[r] THEN [read EXCEPT ![r] = ThreadSeq(view, r)] ELSE read

Init ==
    /\ log = <<>> /\ owed = {} /\ pruned = 0 /\ breaks = 0
    /\ cache = [r \in Rooms |-> EmptyCache]
    /\ stream = [m \in Mounts |-> Unmounted]
    /\ read = [r \in Rooms |-> 0]

(***************************************************************************)
(* Writers: append, its second insert, and the retention sweep.            *)
(***************************************************************************)
WriteRow(r, k) ==
    /\ Len(log) < MaxRows
    /\ log' = Append(log, [room |-> r, source |-> r, kind |-> k])
    /\ owed' = IF r = Office THEN owed ELSE owed \cup {Len(log) + 1}
    /\ UNCHANGED <<pruned, cache, stream, read, breaks>>

Mirror(s) ==
    /\ s \in owed /\ Len(log) < MaxRows
    /\ log' = Append(log, [log[s] EXCEPT !.room = Office])
    /\ owed' = owed \ {s}
    /\ UNCHANGED <<pruned, cache, stream, read, breaks>>

\* delete_older_than goes by ts, which rises with the seq.
Prune ==
    /\ pruned < MaxPruned /\ pruned < Len(log)
    /\ pruned' = pruned + 1
    /\ UNCHANGED <<log, owed, cache, stream, read, breaks>>

(***************************************************************************)
(* Navigation: each mount gets a room or none.  A mount whose room changes *)
(* closes its EventSource and runs the effect; in the same commit the      *)
(* thread view marks the NEW room read, first with what the OLD room's     *)
(* messages say of it, then with the cached ones.                          *)
(***************************************************************************)
Navigate(target) ==
    /\ \E m \in Mounts : target[m] # stream[m].room
    /\ stream' = [m \in Mounts |->
                    IF target[m] = stream[m].room THEN stream[m] ELSE Mounted(target[m], cache)]
    /\ LET r == target["thread"] IN
       read' = IF r \in {NoRoom, stream["thread"].room} THEN read
               ELSE MarkRead(r, stream["thread"].view \cup cache[r].seen)
    /\ UNCHANGED <<log, owed, pruned, cache, breaks>>

ChatPage(r)   == [thread |-> r, floor |-> NoRoom, feed |-> NoRoom]
OfficePage(r) == [thread |-> NoRoom, floor |-> Office, feed |-> r]
OtherPage     == [m \in Mounts |-> NoRoom]
Screens == {ChatPage(r) : r \in Rooms} \cup {OfficePage(r) : r \in Rooms} \cup {OtherPage}

\* A reload of the tab: module and component state are gone, the read cursors
\* come back from localStorage.
Reload ==
    /\ breaks < MaxBreaks /\ breaks' = breaks + 1
    /\ cache' = [r \in Rooms |-> EmptyCache]
    /\ stream' = [m \in Mounts |-> Mounted(stream[m].room, cache')]
    /\ UNCHANGED <<log, owed, pruned, read>>

(***************************************************************************)
(* The EventSource of mount m.                                             *)
(***************************************************************************)
\* The route answers: a cold connect starts at the tail of this moment.
\* onopen sets connected; errored stays as it was.
Open(m) ==
    /\ stream[m].link = "connecting"
    /\ stream' = [stream EXCEPT ![m].link = "open", ![m].connected = TRUE,
                                ![m].pos = IF stream[m].cold THEN TailCursor(stream[m].room) ELSE @]
    /\ UNCHANGED <<log, owed, pruned, cache, read, breaks>>

\* The poll of the route and onmessage: the next row of the room.  From here
\* on a reconnect carries Last-Event-ID.
Deliver(m) ==
    LET r == stream[m].room
        s == Min(After(r, stream[m].pos))
        c == Pushed(cache[r], s)
        view == IF s \in cache[r].seen THEN stream[m].view ELSE c.seen
    IN  /\ stream[m].link = "open" /\ After(r, stream[m].pos) # {}
        /\ cache' = [cache EXCEPT ![r] = c]
        /\ stream' = [stream EXCEPT ![m].pos = s, ![m].cold = FALSE, ![m].view = view]
        /\ read' = IF m = "thread" THEN MarkRead(r, view) ELSE read
        /\ UNCHANGED <<log, owed, pruned, breaks>>

\* Faulty: a broken connection leaves connected set.
BreakUnseen(m) ==
    /\ stream[m].link = "open" /\ breaks < MaxBreaks /\ breaks' = breaks + 1
    /\ stream' = [stream EXCEPT ![m].link = "connecting", ![m].errored = TRUE]
    /\ UNCHANGED <<log, owed, pruned, cache, read>>

\* onerror: the browser connects again after a broken connection, and gives
\* up after an answer that is no event stream.
Break(m) ==
    /\ stream[m].link \in {"connecting", "open"}
    /\ breaks < MaxBreaks /\ breaks' = breaks + 1
    /\ \E link \in {"connecting", "closed"} :
         stream' = [stream EXCEPT ![m].link = link, ![m].connected = FALSE, ![m].errored = TRUE]
    /\ UNCHANGED <<log, owed, pruned, cache, read>>

Next ==
    \/ \E r \in Rooms, k \in Kinds : WriteRow(r, k)
    \/ \E s \in owed : Mirror(s)
    \/ Prune
    \/ \E target \in Screens : Navigate(target)
    \/ Reload
    \/ \E m \in Mounts : Open(m) \/ Deliver(m) \/ Break(m)

Spec == Init /\ [][Next]_vars

\* The browser keeps trying to connect and the route polls every second.
Fairness == \A m \in Mounts : WF_vars(Open(m)) /\ WF_vars(Deliver(m))
FairSpec == Spec /\ Fairness

-----------------------------------------------------------------------------
(***************************************************************************)
(* Properties.                                                             *)
(***************************************************************************)
Row == [room : Rooms, source : Rooms, kind : Kinds]
CacheEntry == [seen : SUBSET Nat, messages : Nat, lastSeq : Nat]
Stream == [room : Rooms \cup {NoRoom}, view : SUBSET Nat,
           link : {"none", "connecting", "open", "closed"},
           connected : BOOLEAN, errored : BOOLEAN, pos : Nat, cold : BOOLEAN]

(* The types of the store's rows, of the cache entries and of the mounts;   *)
(* a screen shows connected exactly while its EventSource is open.          *)
TypeOK ==
    /\ log \in Seq(Row) /\ owed \subseteq Rows /\ pruned \in 0..Len(log) /\ breaks \in Nat
    /\ cache \in [Rooms -> CacheEntry]
    /\ stream \in [Mounts -> Stream]
    /\ read \in [Rooms -> Nat]
    /\ \A m \in Mounts : stream[m].connected <=> stream[m].link = "open"

(* The cached history of a workroom has no hole: whatever was dropped,      *)
(* reconnected, re-mounted or left in between, every row of the room up to  *)
(* the cursor a later mount resumes from is in it, unless the row had been  *)
(* pruned (use-office-stream.ts, resume by Last-Event-ID and by since_seq). *)
WorkroomHistoryComplete ==
    \A r \in Workrooms : \A s \in Rows :
        log[s].room = r /\ s <= cache[r].lastSeq => s \in cache[r].seen \/ s <= pruned

(* The timeline of a room holds every row once, even on the office page,    *)
(* where two EventSources deliver the same rows into one cache.             *)
EveryRowOnce == \A r \in Rooms : cache[r].messages = Cardinality(cache[r].seen)

(* A screen on a workroom shows all that is cached of it, and only rows of  *)
(* that room: the effect's clean-up leaves no handler of the room before.   *)
WorkroomViewIsCache ==
    \A m \in Mounts : stream[m].room \in Workrooms =>
        /\ stream[m].view = cache[stream[m].room].seen
        /\ \A s \in stream[m].view : log[s].room = stream[m].room

(* Rows of a workroom enter its cache in the order of their seq: the folds  *)
(* over the messages may take arrival order for event order.                *)
WorkroomRowsArriveInOrder ==
    [][\A r \in Workrooms : \A s \in cache'[r].seen \ cache[r].seen : s > cache[r].lastSeq]_vars

(* A row of a known kind in a room that stays open in the chat reaches the  *)
(* screen and counts as read, although connections break and rows come      *)
(* while they are down, unless the server refused the stream for good.      *)
OpenRoomIsRead ==
    \A r \in Workrooms : \A s \in 1..MaxRows :
        (/\ stream["thread"].room = r /\ s \in RowsOf(r) /\ log[s].kind # "advisor")
        ~> (\/ s \in stream["thread"].view /\ read[r] >= s
            \/ stream["thread"].room # r \/ stream["thread"].link = "closed" \/ s <= pruned)

\* The workrooms as RoomFeed sees them: the store, and the cache of the tab.
Sent == [r \in Workrooms |-> {s \in Rows : log[s].room = r}]
Held == [r \in Workrooms |-> cache[r].seen]
UpTo == [r \in Workrooms |-> cache[r].lastSeq]

Feed == INSTANCE RoomFeed WITH
    Room <- Workrooms, sent <- Sent, gone <- pruned, held <- Held, upTo <- UpTo

(* Streams, cursors, mounts that come and go, reconnects and mirror rows    *)
(* keep what a room promises: every step is one of RoomFeed or changes      *)
(* nothing it sees.                                                         *)
ImplementsRoomFeed == Feed!Spec
=============================================================================
