-------------------------- MODULE OfficeStreamProofs --------------------------
(***************************************************************************)
(* Proofs about OfficeStream: for any workrooms, tail and bounds, the      *)
(* cached history of a workroom has no hole, its screens show all of it,   *)
(* and its rows arrive in the order of their seq.                          *)
(***************************************************************************)
EXTENDS OfficeStream, FiniteSetTheorems, WellFoundedInduction, TLAPS

(* All that the tab holds was in the store, and a workroom's cache entry   *)
(* holds rows of that room up to its own cursor (cache of                  *)
(* use-office-stream.ts).                                                  *)
SeenInLog ==
    /\ \A r \in Rooms : cache[r].seen \subseteq Rows
    /\ \A m \in Mounts : stream[m].view \subseteq Rows
    /\ \A r \in Workrooms :
         /\ cache[r].lastSeq <= Len(log)
         /\ \A s \in cache[r].seen : log[s].room = r /\ s <= cache[r].lastSeq

(* No two mounts are ever on the same workroom. *)
OneReader ==
    \A m, n \in Mounts :
        stream[m].room \in Workrooms /\ stream[m].room = stream[n].room => m = n

(* What a connection to a workroom has received is in the cache: all rows   *)
(* up to its position.                                                      *)
Received ==
    \A m \in Mounts : stream[m].room \in Workrooms =>
        /\ ~stream[m].cold
        /\ stream[m].pos <= Len(log)
        /\ \A s \in Rows : log[s].room = stream[m].room /\ s <= stream[m].pos =>
              s \in cache[stream[m].room].seen \/ s <= pruned

IInv == /\ TypeOK /\ SeenInLog /\ OneReader /\ Received
        /\ WorkroomHistoryComplete /\ WorkroomViewIsCache

-----------------------------------------------------------------------------
(* The least row of a non-empty set is in it, and below all others: what    *)
(* the route sends next.                                                    *)
LEMMA MinIsLeast ==
    ASSUME NEW S, S \subseteq Nat, S # {}
    PROVE  Min(S) \in S /\ \A y \in S : Min(S) <= y
<1> DEFINE Less == OpToRel(<, Nat)
<1>1. \A x, y \in Nat : y < x => <<y, x>> \in Less
  BY DEF OpToRel
<1>2. PICK x \in S : \A y \in S : ~(<<y, x>> \in Less)
  BY NatLessThanWellFounded, WFMin
<1> HIDE DEF Less
<1>3. \A y \in S : x <= y
  <2> TAKE y \in S
  <2>1. x \in Nat /\ y \in Nat /\ ~(y < x)
    BY <1>1, <1>2
  <2> QED
    BY <2>1
<1>4. QED
  BY <1>3 DEF Min

(* A bounded non-empty set of rows has a greatest one: last_seq.            *)
LEMMA MaxIsMember ==
    ASSUME NEW n \in Nat, NEW S, S \subseteq 0..n, S # {}
    PROVE  Max(S) \in S
<1> DEFINE T == {n - x : x \in S}
<1>1. T \subseteq Nat /\ T # {}
  <2>1. \A x \in S : x \in 0..n
    OBVIOUS
  <2>2. \A x \in S : n - x \in Nat
    BY <2>1
  <2> QED
    BY <2>2
<1>2. PICK t \in T : \A y \in T : t <= y
  BY <1>1, MinIsLeast
<1>3. PICK x \in S : t = n - x
  BY <1>2
<1>4. \A y \in S : x >= y
  <2> TAKE y \in S
  <2>1. n - y \in T
    OBVIOUS
  <2>2. t <= n - y
    BY <1>2, <2>1
  <2>3. x \in 0..n /\ y \in 0..n
    OBVIOUS
  <2>4. x >= y
    BY <1>3, <2>2, <2>3
  <2> QED
    BY <2>4
<1>5. QED
  BY <1>4 DEF Max

(* The seqs the route and the thread compute are numbers.                   *)
LEMMA CursorsAreNat ==
    ASSUME TypeOK, NEW r
    PROVE  /\ TailCursor(r) \in Nat
           /\ \A view \in SUBSET Rows : ThreadSeq(view, r) \in Nat
<1>1. Len(log) \in Nat /\ Rows = 1..Len(log)
  BY DEF TypeOK, Rows
<1>2. LastSeq(r) \in Nat
  <2>1. RowsOf(r) \cup {0} \subseteq 0..Len(log)
    BY <1>1 DEF RowsOf
  <2> QED
    BY <1>1, <2>1, MaxIsMember DEF LastSeq
<1>3. TailCursor(r) \in Nat
  BY <1>2, TailAssumption DEF TailCursor
<1>4. ASSUME NEW view \in SUBSET Rows PROVE ThreadSeq(view, r) \in Nat
  <2> DEFINE S == {s \in view : InThread(s, r)} \cup {0}
  <2>1. \A s \in S : s \in 0..Len(log)
    <3> HIDE DEF InThread
    <3> QED
      BY <1>1
  <2>2. S # {}
    OBVIOUS
  <2>3. ThreadSeq(view, r) = Max(S)
    BY DEF ThreadSeq
  <2> HIDE DEF S
  <2>4. Max(S) \in S
    BY <1>1, <2>1, <2>2, MaxIsMember
  <2> QED
    BY <2>1, <2>3, <2>4
<1>5. QED
  BY <1>3, <1>4

(* markRead keeps the cursors numbers.                                      *)
LEMMA MarkReadType ==
    ASSUME TypeOK, NEW r, NEW view \in SUBSET Rows
    PROVE  MarkRead(r, view) \in [Rooms -> Nat]
BY CursorsAreNat DEF MarkRead, TypeOK

(* A new row keeps everything the tab has where it was.                     *)
LEMMA LogGrows ==
    ASSUME TypeOK, NEW row \in Row, log' = Append(log, row)
    PROVE  /\ log' \in Seq(Row) /\ Len(log') = Len(log) + 1
           /\ Rows = 1..Len(log) /\ Rows' = 1..(Len(log) + 1)
           /\ \A s \in Rows : log'[s] = log[s]
BY DEF TypeOK, Rows

(* WriteRow and Mirror: the store grows, the tab is as it was.              *)
LEMMA GrowthKeepsIInv ==
    ASSUME IInv, NEW row \in Row, log' = Append(log, row), owed' \subseteq Rows',
           UNCHANGED <<pruned, cache, stream, read, breaks>>
    PROVE  IInv'
<1>1. /\ log' \in Seq(Row) /\ Len(log') = Len(log) + 1 /\ Len(log) \in Nat
      /\ Rows = 1..Len(log) /\ Rows' = 1..(Len(log) + 1)
      /\ \A s \in Rows : log'[s] = log[s]
  BY LogGrows DEF IInv, TypeOK
<1>2. TypeOK'
  <2>1. pruned \in 0..Len(log') /\ owed' \subseteq Rows'
    BY <1>1 DEF IInv, TypeOK
  <2> QED
    BY <1>1, <2>1 DEF IInv, TypeOK
<1>3. SeenInLog'
  <2>1. Rows \subseteq Rows'
    BY <1>1
  <2>2. \A r \in Rooms : cache[r].seen \subseteq Rows' /\ cache[r].lastSeq \in Nat
    BY <2>1 DEF IInv, SeenInLog, TypeOK, CacheEntry
  <2>3. \A m \in Mounts : stream[m].view \subseteq Rows'
    BY <2>1 DEF IInv, SeenInLog
  <2>4. \A r \in Workrooms :
          /\ cache[r].lastSeq <= Len(log')
          /\ \A s \in cache[r].seen : log'[s].room = r /\ s <= cache[r].lastSeq
    BY <1>1, <2>2 DEF IInv, SeenInLog, Rooms
  <2> QED
    BY <2>2, <2>3, <2>4 DEF SeenInLog
<1>4. OneReader'
  BY DEF IInv, OneReader
<1>5. Received'
  <2> SUFFICES ASSUME NEW m \in Mounts, stream[m].room \in Workrooms
               PROVE  /\ ~stream[m].cold /\ stream[m].pos <= Len(log')
                      /\ \A s \in Rows' : log'[s].room = stream[m].room /\ s <= stream[m].pos =>
                            s \in cache[stream[m].room].seen \/ s <= pruned
    BY DEF Received
  <2>1. stream[m].pos \in Nat /\ stream[m].pos <= Len(log) /\ ~stream[m].cold
    BY DEF IInv, TypeOK, Stream, Received
  <2>2. \A s \in Rows' : s <= stream[m].pos => s \in Rows
    BY <1>1, <2>1
  <2> QED
    BY <1>1, <2>1, <2>2 DEF IInv, Received
<1>6. WorkroomHistoryComplete'
  <2> SUFFICES ASSUME NEW r \in Workrooms, NEW s \in Rows', log'[s].room = r,
                      s <= cache[r].lastSeq
               PROVE  s \in cache[r].seen \/ s <= pruned
    BY DEF WorkroomHistoryComplete
  <2>1. cache[r].lastSeq \in Nat /\ cache[r].lastSeq <= Len(log)
    BY DEF IInv, TypeOK, SeenInLog, CacheEntry, Rooms
  <2>2. s \in Rows
    BY <1>1, <2>1
  <2> QED
    BY <1>1, <2>2 DEF IInv, WorkroomHistoryComplete
<1>7. WorkroomViewIsCache'
  <2> SUFFICES ASSUME NEW m \in Mounts, stream[m].room \in Workrooms
               PROVE  /\ stream[m].view = cache[stream[m].room].seen
                      /\ \A s \in stream[m].view : log'[s].room = stream[m].room
    BY DEF WorkroomViewIsCache
  <2> QED
    BY <1>1 DEF IInv, WorkroomViewIsCache, SeenInLog
<1>8. QED
  BY <1>2, <1>3, <1>4, <1>5, <1>6, <1>7 DEF IInv

(* Init: an empty store and an empty cache.                                 *)
LEMMA InitIInv == Init => IInv
<1> SUFFICES ASSUME Init PROVE IInv
  OBVIOUS
<1>1. log \in Seq(Row) /\ Rows = {} /\ Len(log) = 0
  BY DEF Init, Rows
<1>2. TypeOK
  BY <1>1 DEF Init, TypeOK, EmptyCache, CacheEntry, Unmounted, Stream
<1>3. \A m \in Mounts : stream[m] = Unmounted /\ stream[m].room \notin Workrooms
  BY RoomAssumption DEF Init, Unmounted
<1>4. \A r \in Rooms : cache[r] = EmptyCache
  BY DEF Init
<1>5. SeenInLog
  BY <1>1, <1>3, <1>4 DEF SeenInLog, EmptyCache, Unmounted, Rooms
<1>6. WorkroomHistoryComplete
  BY <1>1 DEF WorkroomHistoryComplete
<1>7. OneReader /\ Received /\ WorkroomViewIsCache
  BY <1>3 DEF OneReader, Received, WorkroomViewIsCache
<1>8. QED
  BY <1>2, <1>5, <1>6, <1>7 DEF IInv

(* The retention sweep: more rows are excused, none moves.                  *)
LEMMA PruneKeepsIInv == IInv /\ Prune => IInv'
<1> SUFFICES ASSUME IInv, Prune PROVE IInv'
  OBVIOUS
<1>1. /\ UNCHANGED <<log, owed, cache, stream, read, breaks>> /\ Rows' = Rows
      /\ pruned \in Nat /\ Len(log) \in Nat /\ pruned' = pruned + 1 /\ pruned < Len(log)
  BY DEF Prune, IInv, TypeOK, Rows
<1>2. \A s \in Rows : s <= pruned => s <= pruned'
  BY <1>1 DEF Rows
<1>3. TypeOK'
  BY <1>1 DEF IInv, TypeOK
<1>4. SeenInLog' /\ OneReader' /\ WorkroomViewIsCache'
  BY <1>1 DEF IInv, SeenInLog, OneReader, WorkroomViewIsCache
<1>5. Received'
  BY <1>1, <1>2 DEF IInv, Received
<1>6. WorkroomHistoryComplete'
  BY <1>1, <1>2 DEF IInv, WorkroomHistoryComplete
<1>7. QED
  BY <1>3, <1>4, <1>5, <1>6 DEF IInv

(* What the effect of a mount makes of a room and the cache.                *)
LEMMA MountedFacts ==
    ASSUME IInv, NEW r \in Rooms \cup {NoRoom}, NEW c \in [Rooms -> CacheEntry]
    PROVE  /\ Mounted(r, c) \in Stream /\ Mounted(r, c).room = r
           /\ Mounted(r, c).connected <=> Mounted(r, c).link = "open"
           /\ r = NoRoom => Mounted(r, c).view = {}
           /\ r # NoRoom => Mounted(r, c).view = c[r].seen /\ Mounted(r, c).pos = c[r].lastSeq
           /\ r \in Workrooms => ~Mounted(r, c).cold
BY RoomAssumption DEF Mounted, Unmounted, Stream, CacheEntry, Rooms

(* Rooms change together, to those of one screen.                           *)
LEMMA ScreenFacts ==
    ASSUME NEW target \in Screens
    PROVE  /\ \A m \in Mounts : target[m] \in Rooms \cup {NoRoom}
           /\ \A m, n \in Mounts : target[m] \in Workrooms /\ target[m] = target[n] => m = n
<1>1. CASE \E r \in Rooms : target = ChatPage(r)
  BY <1>1, RoomAssumption DEF ChatPage, Mounts, Rooms
<1>2. CASE \E r \in Rooms : target = OfficePage(r)
  BY <1>2, RoomAssumption DEF OfficePage, Mounts, Rooms
<1>3. CASE target = OtherPage
  BY <1>3, RoomAssumption DEF OtherPage, Mounts, Rooms
<1>4. QED
  BY <1>1, <1>2, <1>3 DEF Screens

(* A freshly mounted workroom resumes where its cache ends.                 *)
LEMMA NavigateKeepsIInv ==
    ASSUME IInv, NEW target \in Screens, Navigate(target)
    PROVE  IInv'
<1>1. /\ UNCHANGED <<log, owed, pruned, cache, breaks>> /\ Rows' = Rows
      /\ stream' = [m \in Mounts |-> IF target[m] = stream[m].room THEN stream[m]
                                     ELSE Mounted(target[m], cache)]
  BY DEF Navigate, Rows
<1>2. cache \in [Rooms -> CacheEntry] /\ stream \in [Mounts -> Stream]
  BY DEF IInv, TypeOK
<1>3. \A m \in Mounts : target[m] \in Rooms \cup {NoRoom}
  BY ScreenFacts
<1>4. \A m \in Mounts : \/ stream'[m] = stream[m] /\ target[m] = stream[m].room
                        \/ stream'[m] = Mounted(target[m], cache)
  BY <1>1
<1>5. \A m \in Mounts : stream'[m].room = target[m]
  BY <1>2, <1>3, <1>4, MountedFacts
<1>6. read' \in [Rooms -> Nat]
  <2>1. CASE target["thread"] \in {NoRoom, stream["thread"].room}
    BY <2>1 DEF Navigate, IInv, TypeOK
  <2>2. CASE target["thread"] \notin {NoRoom, stream["thread"].room}
    <3>1. stream["thread"].view \cup cache[target["thread"]].seen \in SUBSET Rows
      BY <1>3, <2>2 DEF IInv, SeenInLog, Mounts
    <3> QED
      BY <2>2, <3>1, MarkReadType DEF Navigate, IInv
  <2> QED
    BY <2>1, <2>2
<1>7. TypeOK'
  <2>1. \A m \in Mounts : stream'[m] \in Stream /\ (stream'[m].connected <=> stream'[m].link = "open")
    <3> TAKE m \in Mounts
    <3>1. CASE stream'[m] = stream[m]
      BY <3>1 DEF IInv, TypeOK
    <3>2. CASE stream'[m] = Mounted(target[m], cache)
      BY <1>2, <1>3, <3>2, MountedFacts
    <3> QED
      BY <1>4, <3>1, <3>2
  <2>2. stream' \in [Mounts -> Stream]
    BY <1>1, <2>1
  <2> QED
    BY <1>1, <1>6, <2>1, <2>2 DEF IInv, TypeOK
<1>8. SeenInLog'
  <2>1. \A m \in Mounts : stream'[m].view \subseteq Rows
    BY <1>2, <1>3, <1>4, MountedFacts DEF IInv, SeenInLog
  <2> QED
    BY <1>1, <2>1 DEF IInv, SeenInLog
<1>9. OneReader'
  BY <1>5, ScreenFacts DEF OneReader
<1>10. WorkroomHistoryComplete'
  BY <1>1 DEF IInv, WorkroomHistoryComplete
<1>11. Received'
  <2> SUFFICES ASSUME NEW m \in Mounts, stream'[m].room \in Workrooms
               PROVE  /\ ~stream'[m].cold /\ stream'[m].pos <= Len(log)
                      /\ \A s \in Rows : log[s].room = stream'[m].room /\ s <= stream'[m].pos =>
                            s \in cache[stream'[m].room].seen \/ s <= pruned
    BY <1>1 DEF Received
  <2>1. CASE stream'[m] = stream[m]
    BY <2>1 DEF IInv, Received
  <2>2. CASE stream'[m] = Mounted(target[m], cache)
    <3>1. /\ target[m] \in Workrooms /\ stream'[m].room = target[m] /\ ~stream'[m].cold
          /\ stream'[m].pos = cache[target[m]].lastSeq
      BY <1>2, <1>3, <1>5, <2>2, MountedFacts, RoomAssumption
    <3> QED
      BY <3>1 DEF IInv, SeenInLog, WorkroomHistoryComplete
  <2> QED
    BY <1>4, <2>1, <2>2
<1>12. WorkroomViewIsCache'
  <2> SUFFICES ASSUME NEW m \in Mounts, stream'[m].room \in Workrooms
               PROVE  /\ stream'[m].view = cache[stream'[m].room].seen
                      /\ \A s \in stream'[m].view : log[s].room = stream'[m].room
    BY <1>1 DEF WorkroomViewIsCache
  <2>1. CASE stream'[m] = stream[m]
    BY <2>1 DEF IInv, WorkroomViewIsCache
  <2>2. CASE stream'[m] = Mounted(target[m], cache)
    <3>1. target[m] \in Workrooms /\ stream'[m].room = target[m]
          /\ stream'[m].view = cache[target[m]].seen
      BY <1>2, <1>3, <1>5, <2>2, MountedFacts, RoomAssumption
    <3> QED
      BY <3>1 DEF IInv, SeenInLog
  <2> QED
    BY <1>4, <2>1, <2>2
<1>13. QED
  BY <1>7, <1>8, <1>9, <1>10, <1>11, <1>12 DEF IInv

(* After a reload of the tab every mount is cold again.                     *)
LEMMA ReloadKeepsIInv == IInv /\ Reload => IInv'
<1> SUFFICES ASSUME IInv, Reload PROVE IInv'
  OBVIOUS
<1>1. /\ UNCHANGED <<log, owed, pruned, read>> /\ Rows' = Rows /\ breaks' = breaks + 1
      /\ cache' = [r \in Rooms |-> EmptyCache]
      /\ stream' = [m \in Mounts |-> Mounted(stream[m].room, cache')]
  BY DEF Reload, Rows
<1>2. \A m \in Mounts : stream[m].room \in Rooms \cup {NoRoom}
  BY DEF IInv, TypeOK, Stream
<1>3. /\ cache' \in [Rooms -> CacheEntry]
      /\ \A r \in Rooms : cache'[r].seen = {} /\ cache'[r].lastSeq = 0
  BY <1>1 DEF EmptyCache, CacheEntry
<1>4. \A m \in Mounts : /\ stream'[m] \in Stream /\ stream'[m].room = stream[m].room
                        /\ stream'[m].connected <=> stream'[m].link = "open"
                        /\ stream'[m].view = {}
                        /\ stream'[m].room \in Workrooms => ~stream'[m].cold /\ stream'[m].pos = 0
  <2> TAKE m \in Mounts
  <2>1. stream'[m] = Mounted(stream[m].room, cache')
    BY <1>1
  <2>2. /\ stream'[m] \in Stream /\ stream'[m].room = stream[m].room
        /\ stream'[m].connected <=> stream'[m].link = "open"
        /\ stream[m].room = NoRoom => stream'[m].view = {}
        /\ stream[m].room # NoRoom => /\ stream'[m].view = cache'[stream[m].room].seen
                                      /\ stream'[m].pos = cache'[stream[m].room].lastSeq
        /\ stream[m].room \in Workrooms => ~stream'[m].cold
    BY <1>2, <1>3, <2>1, MountedFacts
  <2>3. CASE stream[m].room = NoRoom
    BY <2>2, <2>3, RoomAssumption
  <2>4. CASE stream[m].room # NoRoom
    BY <1>2, <1>3, <2>2, <2>4
  <2> QED
    BY <2>3, <2>4
<1>5. TypeOK'
  BY <1>1, <1>3, <1>4 DEF IInv, TypeOK
<1>6. Len(log) \in Nat /\ Rows = 1..Len(log)
  BY DEF IInv, TypeOK, Rows
<1>7. SeenInLog'
  <2>1. \A r \in Workrooms : r \in Rooms
    BY DEF Rooms
  <2> QED
    BY <1>1, <1>3, <1>4, <1>6, <2>1 DEF SeenInLog
<1>8. OneReader'
  BY <1>4 DEF IInv, OneReader
<1>9. Received'
  BY <1>1, <1>4, <1>6 DEF Received
<1>10. WorkroomHistoryComplete'
  BY <1>1, <1>3, <1>6 DEF WorkroomHistoryComplete, Rooms
<1>11. WorkroomViewIsCache'
  <2>1. \A r \in Workrooms : r \in Rooms
    BY DEF Rooms
  <2> QED
    BY <1>1, <1>3, <1>4, <2>1 DEF WorkroomViewIsCache
<1>12. QED
  BY <1>5, <1>7, <1>8, <1>9, <1>10, <1>11 DEF IInv

(* Open and Break move no workroom's position and no row.                   *)
LEMMA LinkKeepsIInv ==
    ASSUME IInv, NEW m \in Mounts, Open(m) \/ Break(m)
    PROVE  IInv'
<1>1. /\ UNCHANGED <<log, owed, pruned, cache, read>> /\ Rows' = Rows /\ breaks' \in Nat
      /\ stream' \in [Mounts -> Stream]
      /\ \A n \in Mounts : /\ stream'[n].room = stream[n].room /\ stream'[n].view = stream[n].view
                           /\ stream'[n].cold = stream[n].cold
                           /\ stream'[n].connected <=> stream'[n].link = "open"
                           /\ stream[n].room \in Workrooms => stream'[n].pos = stream[n].pos
  <2>1. stream \in [Mounts -> Stream] /\ \A n \in Mounts : stream[n] \in Stream
    BY DEF IInv, TypeOK
  <2>2. \A n \in Mounts : stream[n].connected <=> stream[n].link = "open"
    BY DEF IInv, TypeOK
  <2>3. CASE Open(m)
    <3>1. TailCursor(stream[m].room) \in Nat
      BY CursorsAreNat DEF IInv
    <3>2. stream[m].room \in Workrooms => ~stream[m].cold
      BY DEF IInv, Received
    <3> QED
      BY <2>1, <2>2, <2>3, <3>1, <3>2 DEF Open, Stream, Rows, IInv, TypeOK
  <2>4. CASE Break(m)
    <3>1. PICK link \in {"connecting", "closed"} :
            stream' = [stream EXCEPT ![m].link = link, ![m].connected = FALSE, ![m].errored = TRUE]
      BY <2>4 DEF Break
    <3>2. UNCHANGED <<log, owed, pruned, cache, read>> /\ Rows' = Rows /\ breaks' \in Nat
      BY <2>4 DEF Break, Rows, IInv, TypeOK
    <3>3. stream'[m] = [stream[m] EXCEPT !.link = link, !.connected = FALSE, !.errored = TRUE]
      BY <2>1, <3>1
    <3>4. stream'[m] \in Stream /\ stream'[m].room = stream[m].room
          /\ stream'[m].view = stream[m].view /\ stream'[m].cold = stream[m].cold
          /\ stream'[m].pos = stream[m].pos /\ ~stream'[m].connected /\ stream'[m].link # "open"
      BY <2>1, <3>3 DEF Stream
    <3>5. \A n \in Mounts : n # m => stream'[n] = stream[n]
      BY <2>1, <3>1
    <3>6. stream' \in [Mounts -> Stream]
      BY <2>1, <3>1, <3>4, <3>5
    <3> QED
      BY <2>2, <3>2, <3>4, <3>5, <3>6
  <2> QED
    BY <2>3, <2>4
<1>2. TypeOK'
  BY <1>1 DEF IInv, TypeOK
<1>3. SeenInLog' /\ OneReader'
  BY <1>1 DEF IInv, SeenInLog, OneReader
<1>4. Received'
  BY <1>1 DEF IInv, Received
<1>5. WorkroomHistoryComplete' /\ WorkroomViewIsCache'
  BY <1>1 DEF IInv, WorkroomHistoryComplete, WorkroomViewIsCache
<1>6. QED
  BY <1>2, <1>3, <1>4, <1>5 DEF IInv

(* What one frame does: the next row of the room enters the cache, unless    *)
(* it is there, and every row of the room up to it has then been received.   *)
LEMMA DeliverFacts ==
    ASSUME IInv, NEW m \in Mounts, Deliver(m), NEW r, r = stream[m].room,
           NEW s, s = Min(After(r, stream[m].pos))
    PROVE  /\ r \in Rooms /\ s \in Rows /\ s > pruned /\ log[s].room = r
           /\ \A q \in Rows : log[q].room = r /\ stream[m].pos < q /\ q < s => q <= pruned
           /\ cache' = [cache EXCEPT ![r] = Pushed(cache[r], s)]
           /\ stream' = [stream EXCEPT ![m].pos = s, ![m].cold = FALSE,
                                       ![m].view = IF s \in cache[r].seen THEN stream[m].view
                                                   ELSE Pushed(cache[r], s).seen]
           /\ UNCHANGED <<log, owed, pruned, breaks>> /\ Rows' = Rows
<1>1. Len(log) \in Nat /\ Rows = 1..Len(log) /\ stream[m] \in Stream /\ pruned \in Nat
  BY DEF IInv, TypeOK, Rows
<1>2. After(r, stream[m].pos) \subseteq Nat /\ After(r, stream[m].pos) # {}
  <2>1. \A q \in After(r, stream[m].pos) : q \in Rows
    BY DEF After, RowsOf
  <2>2. \A q \in Rows : q \in Nat
    BY <1>1
  <2> QED
    BY <2>1, <2>2 DEF Deliver
<1>3. s \in After(r, stream[m].pos) /\ \A q \in After(r, stream[m].pos) : s <= q
  BY <1>2, MinIsLeast
<1>4. r # NoRoom
  <2>1. s \in Rows /\ log[s].room = r
    BY <1>3 DEF After, RowsOf
  <2>2. log[s] \in Row
    BY <1>1, <2>1 DEF IInv, TypeOK
  <2> QED
    BY <2>1, <2>2, RoomAssumption DEF Row, Rooms
<1>5. r \in Rooms
  BY <1>1, <1>4 DEF Stream
<1>6. \A q \in Rows : log[q].room = r /\ stream[m].pos < q /\ q < s => q <= pruned
  <2> SUFFICES ASSUME NEW q \in Rows, log[q].room = r, stream[m].pos < q, q < s, ~(q <= pruned)
               PROVE  FALSE
    OBVIOUS
  <2>1. q \in After(r, stream[m].pos)
    BY <1>1 DEF After, RowsOf, Stream
  <2>2. s \in Nat /\ q \in Nat /\ s <= q
    BY <1>1, <1>2, <1>3, <2>1
  <2> QED
    BY <2>2
<1>7. QED
  BY <1>3, <1>5, <1>6 DEF Deliver, After, RowsOf, Rows

(* A frame of a workroom, new or replayed, leaves its history complete.      *)
LEMMA DeliverKeepsIInv ==
    ASSUME IInv, NEW m \in Mounts, Deliver(m)
    PROVE  IInv'
<1> DEFINE r == stream[m].room
           s == Min(After(r, stream[m].pos))
<1>1. /\ r \in Rooms /\ s \in Rows /\ s > pruned /\ log[s].room = r
      /\ \A q \in Rows : log[q].room = r /\ stream[m].pos < q /\ q < s => q <= pruned
      /\ cache' = [cache EXCEPT ![r] = Pushed(cache[r], s)]
      /\ stream' = [stream EXCEPT ![m].pos = s, ![m].cold = FALSE,
                                  ![m].view = IF s \in cache[r].seen THEN stream[m].view
                                              ELSE Pushed(cache[r], s).seen]
      /\ UNCHANGED <<log, owed, pruned, breaks>> /\ Rows' = Rows
  BY DeliverFacts
<1> HIDE DEF r, s
<1>2. /\ Len(log) \in Nat /\ Rows = 1..Len(log) /\ s \in Nat /\ s <= Len(log) /\ pruned \in Nat
      /\ cache \in [Rooms -> CacheEntry] /\ stream \in [Mounts -> Stream] /\ cache[r] \in CacheEntry
  BY <1>1 DEF IInv, TypeOK, Rows
<1>3. /\ Pushed(cache[r], s) \in CacheEntry
      /\ Pushed(cache[r], s).seen = cache[r].seen \cup {s}
      /\ s \notin cache[r].seen =>
           Pushed(cache[r], s).lastSeq = IF s > cache[r].lastSeq THEN s ELSE cache[r].lastSeq
      /\ s \in cache[r].seen => Pushed(cache[r], s) = cache[r]
  BY <1>2 DEF Pushed, CacheEntry
<1>4. /\ cache' \in [Rooms -> CacheEntry] /\ cache'[r] = Pushed(cache[r], s)
      /\ \A q \in Rooms : q # r => cache'[q] = cache[q]
  BY <1>1, <1>2, <1>3
<1>5. /\ stream'[m].room = r /\ stream'[m].pos = s /\ ~stream'[m].cold
      /\ stream'[m].view = IF s \in cache[r].seen THEN stream[m].view ELSE cache[r].seen \cup {s}
      /\ stream'[m].link = stream[m].link /\ stream'[m].connected = stream[m].connected
      /\ stream'[m].view \subseteq Rows
      /\ \A n \in Mounts : n # m => stream'[n] = stream[n]
  BY <1>1, <1>2, <1>3 DEF r, IInv, SeenInLog, Stream
<1>6. TypeOK'
  <2>1. stream' \in [Mounts -> Stream]
    <3>1. stream'[m].view \in SUBSET Nat
      BY <1>2, <1>5
    <3>2. stream[m] \in Stream
      BY <1>2
    <3> DEFINE view == IF s \in cache[r].seen THEN stream[m].view ELSE Pushed(cache[r], s).seen
    <3>3. stream'[m] = [stream[m] EXCEPT !.pos = s, !.cold = FALSE, !.view = view]
      BY <1>1, <1>2
    <3>4. view \in SUBSET Nat
      BY <1>5, <1>3, <3>1
    <3> HIDE DEF view
    <3>5. stream'[m] \in Stream
      BY <1>2, <3>2, <3>3, <3>4 DEF Stream
    <3> QED
      BY <1>1, <1>2, <1>5, <3>5
  <2>2. read' \in [Rooms -> Nat]
    <3>1. CASE m = "thread"
      <4>1. \A view \in SUBSET Rows : MarkRead(r, view) \in [Rooms -> Nat]
        BY MarkReadType DEF IInv
      <4>2. read' = MarkRead(r, stream'[m].view)
        BY <3>1, <1>3, <1>5 DEF Deliver, r, s
      <4> QED
        BY <1>5, <4>1, <4>2
    <3>2. CASE m # "thread"
      BY <3>2 DEF Deliver, IInv, TypeOK
    <3> QED
      BY <3>1, <3>2
  <2>3. \A n \in Mounts : stream'[n].connected <=> stream'[n].link = "open"
    BY <1>5 DEF IInv, TypeOK
  <2> QED
    BY <1>1, <1>4, <2>1, <2>2, <2>3 DEF IInv, TypeOK
<1>7. \A q \in Workrooms : /\ q \in Rooms /\ cache[q] \in CacheEntry
                           /\ cache[q].lastSeq <= Len(log)
                           /\ \A x \in cache[q].seen : log[x].room = q /\ x <= cache[q].lastSeq
  BY <1>2 DEF IInv, SeenInLog, Rooms
<1>8. r \in Workrooms =>
        /\ cache'[r].lastSeq \in Nat /\ cache'[r].lastSeq <= Len(log)
        /\ cache[r].lastSeq <= cache'[r].lastSeq /\ s <= cache'[r].lastSeq
        /\ cache'[r].lastSeq \in {s, cache[r].lastSeq}
  BY <1>1, <1>2, <1>3, <1>4, <1>7 DEF CacheEntry
<1>9. SeenInLog'
  <2>1. \A q \in Rooms : cache'[q].seen \subseteq Rows
    BY <1>1, <1>3, <1>4 DEF IInv, SeenInLog
  <2>2. \A n \in Mounts : stream'[n].view \subseteq Rows
    BY <1>5 DEF IInv, SeenInLog
  <2>3. ASSUME NEW q \in Workrooms
        PROVE  /\ cache'[q].lastSeq <= Len(log)
               /\ \A x \in cache'[q].seen : log[x].room = q /\ x <= cache'[q].lastSeq
    <3>1. CASE q # r
      BY <1>4, <1>7, <3>1
    <3>2. CASE q = r
      <4>1. \A x \in cache[r].seen : x \in Nat /\ cache[r].lastSeq \in Nat
        BY <1>2 DEF CacheEntry
      <4>2. \A x \in cache[r].seen : x <= cache'[r].lastSeq
        BY <1>7, <1>8, <3>2, <4>1
      <4> QED
        BY <1>1, <1>3, <1>4, <1>7, <1>8, <3>2, <4>2
    <3> QED
      BY <3>1, <3>2
  <2> QED
    BY <1>1, <2>1, <2>2, <2>3 DEF SeenInLog
<1>10. OneReader'
  <2>1. \A n \in Mounts : stream'[n].room = stream[n].room
    BY <1>5 DEF r
  <2> QED
    BY <2>1 DEF IInv, OneReader
<1>11. r \in Workrooms => \A q \in Rows : log[q].room = r /\ q <= s => q \in cache'[r].seen \/ q <= pruned
  <2> SUFFICES ASSUME r \in Workrooms, NEW q \in Rows, log[q].room = r, q <= s
               PROVE  q \in cache'[r].seen \/ q <= pruned
    OBVIOUS
  <2>1. stream[m].pos \in Nat /\ q \in Nat
    BY <1>2 DEF Stream
  <2>2. CASE q <= stream[m].pos
    BY <1>3, <1>4, <2>2 DEF IInv, Received, r
  <2>3. CASE q = s
    BY <1>3, <1>4, <2>3
  <2>4. CASE stream[m].pos < q /\ q < s
    BY <1>1, <2>4
  <2> QED
    BY <1>2, <2>1, <2>2, <2>3, <2>4
<1>12. WorkroomHistoryComplete'
  <2> SUFFICES ASSUME NEW q \in Workrooms, NEW x \in Rows, log[x].room = q, x <= cache'[q].lastSeq
               PROVE  x \in cache'[q].seen \/ x <= pruned
    BY <1>1 DEF WorkroomHistoryComplete
  <2>1. CASE q # r \/ x <= cache[q].lastSeq
    BY <1>3, <1>4, <1>7, <2>1 DEF IInv, WorkroomHistoryComplete
  <2>2. CASE q = r /\ ~(x <= cache[q].lastSeq)
    <3>1. x <= s
      BY <1>2, <1>8, <2>2
    <3> QED
      BY <1>11, <2>2, <3>1
  <2> QED
    BY <2>1, <2>2
<1>13. Received'
  <2> SUFFICES ASSUME NEW n \in Mounts, stream'[n].room \in Workrooms
               PROVE  /\ ~stream'[n].cold /\ stream'[n].pos <= Len(log)
                      /\ \A x \in Rows : log[x].room = stream'[n].room /\ x <= stream'[n].pos =>
                            x \in cache'[stream'[n].room].seen \/ x <= pruned
    BY <1>1 DEF Received
  <2>1. CASE n = m
    BY <1>2, <1>5, <1>11, <2>1
  <2>2. CASE n # m
    <3>1. /\ stream'[n] = stream[n] /\ stream[n].room \in Rooms
          /\ cache[stream[n].room].seen \subseteq cache'[stream[n].room].seen
      BY <1>3, <1>4, <1>5, <2>2 DEF Rooms
    <3> QED
      BY <3>1 DEF IInv, Received
  <2> QED
    BY <2>1, <2>2
<1>14. WorkroomViewIsCache'
  <2> SUFFICES ASSUME NEW n \in Mounts, stream'[n].room \in Workrooms
               PROVE  /\ stream'[n].view = cache'[stream'[n].room].seen
                      /\ \A x \in stream'[n].view : log[x].room = stream'[n].room
    BY <1>1 DEF WorkroomViewIsCache
  <2>1. CASE n = m
    <3>1. r \in Workrooms
      BY <1>5, <2>1
    <3>2. stream[m].view = cache[r].seen
      BY <3>1 DEF IInv, WorkroomViewIsCache, r
    <3>3. cache'[r].seen = cache[r].seen \cup {s}
      BY <1>3, <1>4
    <3>4. stream'[m].view = cache[r].seen \cup {s}
      BY <1>5, <3>2
    <3>5. \A x \in cache[r].seen \cup {s} : log[x].room = r
      BY <1>1, <1>7, <3>1
    <3> QED
      BY <1>5, <2>1, <3>3, <3>4, <3>5
  <2>2. CASE n # m
    <3>1. stream'[n] = stream[n] /\ stream[n].room # r /\ stream[n].room \in Rooms
      BY <1>5, <2>2 DEF IInv, OneReader, r, Rooms
    <3> QED
      BY <1>4, <3>1 DEF IInv, WorkroomViewIsCache
  <2> QED
    BY <2>1, <2>2
<1>15. QED
  BY <1>6, <1>9, <1>10, <1>12, <1>13, <1>14 DEF IInv

(* A new frame of a workroom is a row past the end of its cache.            *)
LEMMA DeliverInOrder ==
    ASSUME IInv, NEW m \in Mounts, Deliver(m), NEW q \in Workrooms,
           NEW x \in cache'[q].seen \ cache[q].seen
    PROVE  x > cache[q].lastSeq
<1> DEFINE r == stream[m].room
           s == Min(After(r, stream[m].pos))
<1>1. /\ r \in Rooms /\ s \in Rows /\ s > pruned /\ log[s].room = r
      /\ \A y \in Rows : log[y].room = r /\ stream[m].pos < y /\ y < s => y <= pruned
      /\ cache' = [cache EXCEPT ![r] = Pushed(cache[r], s)]
      /\ stream' = [stream EXCEPT ![m].pos = s, ![m].cold = FALSE,
                                  ![m].view = IF s \in cache[r].seen THEN stream[m].view
                                              ELSE Pushed(cache[r], s).seen]
      /\ UNCHANGED <<log, owed, pruned, breaks>> /\ Rows' = Rows
  BY DeliverFacts
<1> HIDE DEF r, s
<1>2. cache \in [Rooms -> CacheEntry] /\ Rows = 1..Len(log) /\ pruned \in Nat /\ Len(log) \in Nat
      /\ q \in Rooms
  BY DEF IInv, TypeOK, Rows, Rooms
<1>3. q = r /\ x = s /\ s \notin cache[q].seen
  <2>1. q = r
    BY <1>1, <1>2
  <2>2. cache'[q] = Pushed(cache[r], s)
    BY <1>1, <1>2, <2>1
  <2> QED
    BY <2>1, <2>2 DEF Pushed
<1>4. ~(s <= cache[q].lastSeq)
  BY <1>1, <1>2, <1>3 DEF IInv, WorkroomHistoryComplete
<1>5. cache[q].lastSeq \in Nat /\ s \in Nat
  BY <1>1, <1>2 DEF CacheEntry
<1>6. QED
  BY <1>3, <1>4, <1>5

-----------------------------------------------------------------------------
(* Every step keeps the inductive invariant.                                *)
LEMMA NextKeepsIInv == IInv /\ [Next]_vars => IInv'
<1> SUFFICES ASSUME IInv, [Next]_vars PROVE IInv'
  OBVIOUS
<1>1. CASE \E r \in Rooms, k \in Kinds : WriteRow(r, k)
  <2> PICK r \in Rooms, k \in Kinds : WriteRow(r, k)
    BY <1>1
  <2> DEFINE row == [room |-> r, source |-> r, kind |-> k]
  <2>1. row \in Row /\ log' = Append(log, row)
    BY DEF Row, WriteRow
  <2>2. Rows = 1..Len(log) /\ Rows' = 1..(Len(log) + 1) /\ Len(log) \in Nat
    BY <2>1, LogGrows DEF IInv, TypeOK
  <2>3. owed \subseteq Rows /\ owed' \subseteq owed \cup {Len(log) + 1}
    BY DEF WriteRow, IInv, TypeOK
  <2>4. owed' \subseteq Rows'
    <3>1. \A s \in Rows : s \in Rows'
      BY <2>2
    <3>2. Len(log) + 1 \in Rows'
      BY <2>2
    <3> QED
      BY <2>3, <3>1, <3>2
  <2> HIDE DEF row
  <2> QED
    BY <2>1, <2>4, GrowthKeepsIInv DEF WriteRow
<1>2. CASE \E s \in owed : Mirror(s)
  <2> PICK s \in owed : Mirror(s)
    BY <1>2
  <2> DEFINE row == [log[s] EXCEPT !.room = Office]
  <2>1. log[s] \in Row
    BY DEF IInv, TypeOK, Rows
  <2>2. row \in Row /\ log' = Append(log, row)
    BY <2>1 DEF Row, Mirror, Rooms
  <2>3. Rows = 1..Len(log) /\ Rows' = 1..(Len(log) + 1) /\ Len(log) \in Nat
    BY <2>2, LogGrows DEF IInv, TypeOK
  <2>4. owed' \subseteq Rows'
    BY <2>3 DEF Mirror, IInv, TypeOK
  <2> HIDE DEF row
  <2> QED
    BY <2>2, <2>4, GrowthKeepsIInv DEF Mirror
<1>3. CASE Prune
  BY <1>3, PruneKeepsIInv
<1>4. CASE \E target \in Screens : Navigate(target)
  BY <1>4, NavigateKeepsIInv
<1>5. CASE Reload
  BY <1>5, ReloadKeepsIInv
<1>6. CASE \E m \in Mounts : Open(m) \/ Deliver(m) \/ Break(m)
  BY <1>6, LinkKeepsIInv, DeliverKeepsIInv
<1>7. CASE UNCHANGED vars
  BY <1>7 DEF vars, IInv, TypeOK, SeenInLog, OneReader, Received, WorkroomHistoryComplete,
             WorkroomViewIsCache, Rows
<1>8. QED
  BY <1>1, <1>2, <1>3, <1>4, <1>5, <1>6, <1>7 DEF Next

(* The inductive invariant holds in every state: a screen on a workroom     *)
(* resumes where its cache ends, and no two of them share a workroom.       *)
THEOREM StreamInvariant == Spec => []IInv
<1>1. Init => IInv
  BY InitIInv
<1>2. IInv /\ [Next]_vars => IInv'
  BY NextKeepsIInv
<1>3. QED
  BY <1>1, <1>2, PTL DEF Spec

(* The rows of the store, the cache entries and the mounts have their types *)
(* for any number of workrooms, kinds and rows.                             *)
THEOREM StreamTypes == Spec => []TypeOK
<1>1. IInv => TypeOK
  BY DEF IInv
<1>2. QED
  BY <1>1, StreamInvariant, PTL

(* The history a tab has of a workroom has no hole, whatever breaks and     *)
(* however the user moves between rooms (useOfficeStream, stream_room).     *)
THEOREM WorkroomHistoryIsComplete == Spec => []WorkroomHistoryComplete
<1>1. IInv => WorkroomHistoryComplete
  BY DEF IInv
<1>2. QED
  BY <1>1, StreamInvariant, PTL

(* A screen on a workroom shows all that is cached of it and nothing of     *)
(* another room.                                                            *)
THEOREM WorkroomViewsAgree == Spec => []WorkroomViewIsCache
<1>1. IInv => WorkroomViewIsCache
  BY DEF IInv
<1>2. QED
  BY <1>1, StreamInvariant, PTL

(* A workroom's rows enter its cache in the order of their seq, so that the *)
(* folds over the messages may take arrival order for event order.          *)
THEOREM WorkroomRowsInOrder == Spec => WorkroomRowsArriveInOrder
<1> DEFINE InOrder == \A r \in Workrooms : \A s \in cache'[r].seen \ cache[r].seen :
                        s > cache[r].lastSeq
<1>1. IInv /\ [Next]_vars => [InOrder]_vars
  <2> SUFFICES ASSUME IInv, Next, NEW r \in Workrooms, NEW s \in cache'[r].seen \ cache[r].seen
               PROVE  s > cache[r].lastSeq
    OBVIOUS
  <2>1. CASE UNCHANGED cache
    BY <2>1
  <2>2. CASE Reload
    BY <2>2 DEF Reload, EmptyCache, Rooms
  <2>3. CASE \E m \in Mounts : Deliver(m)
    BY <2>3, DeliverInOrder
  <2> QED
    BY <2>1, <2>2, <2>3 DEF Next, WriteRow, Mirror, Prune, Navigate, Open, Break
<1>2. QED
  BY <1>1, StreamInvariant, PTL DEF Spec, WorkroomRowsArriveInOrder

(* The timeline counts what the cache has seen, a finite set: a row that is *)
(* delivered again adds nothing.                                            *)
Counted ==
    \A r \in Rooms : IsFiniteSet(cache[r].seen) /\ cache[r].messages = Cardinality(cache[r].seen)

LEMMA PushedCounts ==
    ASSUME NEW c \in CacheEntry, NEW s \in Nat, IsFiniteSet(c.seen), c.messages = Cardinality(c.seen)
    PROVE  IsFiniteSet(Pushed(c, s).seen) /\ Pushed(c, s).messages = Cardinality(Pushed(c, s).seen)
<1>1. CASE s \in c.seen
  BY <1>1 DEF Pushed
<1>2. CASE s \notin c.seen
  <2>1. Pushed(c, s).seen = c.seen \cup {s} /\ Pushed(c, s).messages = c.messages + 1
    BY <1>2 DEF Pushed
  <2>2. IsFiniteSet(c.seen \cup {s}) /\ Cardinality(c.seen \cup {s}) = Cardinality(c.seen) + 1
    BY <1>2, FS_AddElement
  <2> QED
    BY <2>1, <2>2
<1> QED
  BY <1>1, <1>2

(* Two mounts that deliver the same rows into one cache, or a connection    *)
(* that replays them, leave every row in the timeline once.                 *)
THEOREM RowsAreCountedOnce == Spec => []EveryRowOnce
<1>1. Init => Counted
  <2> SUFFICES ASSUME Init, NEW r \in Rooms
               PROVE  IsFiniteSet(cache[r].seen) /\ cache[r].messages = Cardinality(cache[r].seen)
    BY DEF Counted
  <2>1. cache[r] = EmptyCache
    BY DEF Init
  <2> QED
    BY <2>1, FS_EmptySet DEF EmptyCache
<1>2. IInv /\ Counted /\ [Next]_vars => Counted'
  <2> SUFFICES ASSUME IInv, Counted, [Next]_vars, NEW q \in Rooms
               PROVE  IsFiniteSet(cache'[q].seen) /\ cache'[q].messages = Cardinality(cache'[q].seen)
    BY DEF Counted
  <2>1. CASE UNCHANGED cache
    BY <2>1 DEF Counted
  <2>2. CASE Reload
    <3>1. cache'[q] = EmptyCache
      BY <2>2 DEF Reload
    <3> QED
      BY <3>1, FS_EmptySet DEF EmptyCache
  <2>3. CASE \E m \in Mounts : Deliver(m)
    <3> PICK m \in Mounts : Deliver(m)
      BY <2>3
    <3> DEFINE r == stream[m].room
               s == Min(After(r, stream[m].pos))
    <3>1. /\ r \in Rooms /\ s \in Rows /\ s > pruned /\ log[s].room = r
          /\ \A y \in Rows : log[y].room = r /\ stream[m].pos < y /\ y < s => y <= pruned
          /\ cache' = [cache EXCEPT ![r] = Pushed(cache[r], s)]
          /\ stream' = [stream EXCEPT ![m].pos = s, ![m].cold = FALSE,
                                      ![m].view = IF s \in cache[r].seen THEN stream[m].view
                                                  ELSE Pushed(cache[r], s).seen]
          /\ UNCHANGED <<log, owed, pruned, breaks>> /\ Rows' = Rows
      BY DeliverFacts
    <3> HIDE DEF r, s
    <3>2. cache \in [Rooms -> CacheEntry] /\ s \in Nat
      BY <3>1 DEF IInv, TypeOK, Rows
    <3>3. CASE q = r
      <4>1. cache'[q] = Pushed(cache[q], s) /\ cache[q] \in CacheEntry
        BY <3>1, <3>2, <3>3
      <4> QED
        BY <3>2, <4>1, PushedCounts DEF Counted
    <3>4. CASE q # r
      BY <3>1, <3>2, <3>4 DEF Counted
    <3> QED
      BY <3>3, <3>4
  <2> QED
    BY <2>1, <2>2, <2>3 DEF Next, WriteRow, Mirror, Prune, Navigate, Open, Break, vars
<1>3. Counted => EveryRowOnce
  BY DEF Counted, EveryRowOnce
<1>4. QED
  BY <1>1, <1>2, <1>3, StreamInvariant, PTL DEF Spec

-----------------------------------------------------------------------------
(* A row that is appended is sent to its own room and to no other.           *)
LEMMA AppendIsSent ==
    ASSUME TypeOK, NEW row \in Row, log' = Append(log, row)
    PROVE  /\ \A r \in Workrooms :
                Sent'[r] = IF row.room = r THEN Sent[r] \cup {Len(log) + 1} ELSE Sent[r]
           /\ \A r \in Workrooms : \A t \in Sent[r] : t < Len(log) + 1
<1>1. /\ Rows = 1..Len(log) /\ Rows' = 1..(Len(log) + 1) /\ Len(log) \in Nat
      /\ \A s \in Rows : log'[s] = log[s]
      /\ log'[Len(log) + 1] = row
  BY LogGrows DEF TypeOK
<1>2. Rows' = Rows \cup {Len(log) + 1}
  BY <1>1
<1>3. ASSUME NEW r \in Workrooms
      PROVE  Sent'[r] = IF row.room = r THEN Sent[r] \cup {Len(log) + 1} ELSE Sent[r]
  <2>1. Sent'[r] = {s \in Rows \cup {Len(log) + 1} : log'[s].room = r}
    BY <1>2 DEF Sent
  <2>2. Sent[r] = {s \in Rows : log[s].room = r}
    BY DEF Sent
  <2> QED
    BY <1>1, <2>1, <2>2
<1>4. \A r \in Workrooms : \A t \in Sent[r] : t < Len(log) + 1
  BY <1>1 DEF Sent
<1>5. QED
  BY <1>3, <1>4

(* A frame of a workroom that the tab has not seen is the next row of the   *)
(* room that is not forgotten.                                              *)
LEMMA DeliverTakes ==
    ASSUME IInv, NEW m \in Mounts, Deliver(m)
    PROVE  UNCHANGED <<Held, UpTo>> \/ \E r \in Workrooms : Feed!Take(r)
<1> DEFINE r == stream[m].room
           s == Min(After(r, stream[m].pos))
<1>1. /\ r \in Rooms /\ s \in Rows /\ s > pruned /\ log[s].room = r
      /\ \A q \in Rows : log[q].room = r /\ stream[m].pos < q /\ q < s => q <= pruned
      /\ cache' = [cache EXCEPT ![r] = Pushed(cache[r], s)]
      /\ stream' = [stream EXCEPT ![m].pos = s, ![m].cold = FALSE,
                                  ![m].view = IF s \in cache[r].seen THEN stream[m].view
                                              ELSE Pushed(cache[r], s).seen]
      /\ UNCHANGED <<log, owed, pruned, breaks>> /\ Rows' = Rows
  BY DeliverFacts
<1> HIDE DEF s
<1>2. /\ cache \in [Rooms -> CacheEntry] /\ Rows = 1..Len(log) /\ Len(log) \in Nat
      /\ stream[m].pos \in Nat
  BY DEF IInv, TypeOK, Rows, Stream
<1>3. Sent' = Sent
  BY <1>1 DEF Sent
<1>4. CASE r \notin Workrooms \/ s \in cache[r].seen
  <2>1. \A q \in Workrooms : cache'[q] = cache[q]
    BY <1>1, <1>2, <1>4 DEF Pushed, Rooms
  <2> QED
    BY <2>1 DEF Held, UpTo
<1>5. CASE r \in Workrooms /\ s \notin cache[r].seen
  <2>1. /\ cache'[r] = Pushed(cache[r], s) /\ cache'[r].seen = cache[r].seen \cup {s}
        /\ \A q \in Workrooms : q # r => cache'[q] = cache[q]
    BY <1>1, <1>2 DEF Pushed, Rooms
  <2>2. s > cache[r].lastSeq
    BY <1>5, <2>1, DeliverInOrder
  <2>3. /\ cache[r].lastSeq \in Nat /\ s \in Nat /\ cache'[r].lastSeq = s
        /\ cache[r].seen \subseteq Nat
    BY <1>1, <1>2, <1>5, <2>1, <2>2 DEF Pushed, CacheEntry
  <2>4. /\ Held' = [Held EXCEPT ![r] = @ \cup {s}]
        /\ UpTo' = [UpTo EXCEPT ![r] = s]
    BY <1>5, <2>1, <2>3 DEF Held, UpTo
  <2>5. s \in Sent[r] /\ UpTo[r] = cache[r].lastSeq
    BY <1>1, <1>5 DEF Sent, UpTo
  <2>6. ASSUME NEW t \in Sent[r], UpTo[r] < t, t < s PROVE t <= pruned
    <3>1. t \in Rows /\ log[t].room = r /\ t \in Nat
      BY <1>2, <1>5, <2>6 DEF Sent
    <3>2. t \notin cache[r].seen
      <4>1. \A x \in cache[r].seen : x <= cache[r].lastSeq
        BY <1>5 DEF IInv, SeenInLog
      <4> QED
        BY <2>3, <2>5, <2>6, <3>1, <4>1
    <3>3. CASE t <= stream[m].pos
      BY <1>5, <3>1, <3>2, <3>3 DEF IInv, Received
    <3>4. CASE stream[m].pos < t
      BY <1>1, <2>6, <3>1, <3>4
    <3> QED
      BY <1>2, <3>1, <3>3, <3>4
  <2>7. Feed!Take(r)
    BY <1>1, <1>3, <2>2, <2>4, <2>5, <2>6, <2>3 DEF Feed!Take
  <2> QED
    BY <1>5, <2>7
<1>6. QED
  BY <1>4, <1>5

(* Every step of the rooms, streams and mounts is a step of the abstract    *)
(* feed or leaves it as it is.                                              *)
LEMMA StepIsFeedStep == IInv /\ [Next]_vars => [Feed!Next]_(Feed!feed)
<1> SUFFICES ASSUME IInv, [Next]_vars, ~UNCHANGED Feed!feed PROVE Feed!Next
  OBVIOUS
<1> USE DEF Feed!feed
<1>1. CASE \E r \in Rooms, k \in Kinds : WriteRow(r, k)
  <2> PICK r \in Rooms, k \in Kinds : WriteRow(r, k)
    BY <1>1
  <2> DEFINE row == [room |-> r, source |-> r, kind |-> k]
  <2>1. row \in Row /\ log' = Append(log, row) /\ row.room = r
    BY DEF Row, WriteRow
  <2> HIDE DEF row
  <2>2. /\ \A q \in Workrooms :
              Sent'[q] = IF r = q THEN Sent[q] \cup {Len(log) + 1} ELSE Sent[q]
        /\ \A q \in Workrooms : \A t \in Sent[q] : t < Len(log) + 1
    BY <2>1, AppendIsSent DEF IInv
  <2>3. UNCHANGED <<pruned, Held, UpTo>>
    BY DEF WriteRow, Held, UpTo
  <2>4. r \in Workrooms
    <3>1. CASE r \notin Workrooms
      <4>1. Sent' = Sent
        BY <2>2, <3>1 DEF Sent
      <4> QED
        BY <2>3, <4>1
    <3> QED
      BY <3>1
  <2>5. Sent' = [Sent EXCEPT ![r] = @ \cup {Len(log) + 1}]
    BY <2>2, <2>4 DEF Sent
  <2>6. Len(log) + 1 \in Sent'[r] \ Sent[r]
    <3>1. Len(log) + 1 \in Sent'[r]
      BY <2>2, <2>4
    <3>2. Len(log) + 1 \notin Sent[r]
      BY <2>2, <2>4 DEF IInv, TypeOK
    <3> QED
      BY <3>1, <3>2
  <2>7. Feed!Send(r)
    BY <2>2, <2>3, <2>5, <2>6 DEF Feed!Send
  <2> QED
    BY <2>4, <2>7 DEF Feed!Next
<1>2. CASE \E s \in owed : Mirror(s)
  <2> PICK s \in owed : Mirror(s)
    BY <1>2
  <2> DEFINE row == [log[s] EXCEPT !.room = Office]
  <2>1. log[s] \in Row
    BY DEF IInv, TypeOK, Rows
  <2>2. row \in Row /\ log' = Append(log, row) /\ row.room = Office
    BY <2>1 DEF Row, Mirror, Rooms
  <2> HIDE DEF row
  <2>3. \A q \in Workrooms : Sent'[q] = Sent[q]
    BY <2>2, AppendIsSent, RoomAssumption DEF IInv
  <2>4. Sent' = Sent
    BY <2>3 DEF Sent
  <2> QED
    BY <2>4 DEF Mirror, Held, UpTo
<1>3. CASE Prune
  <2>1. UNCHANGED <<Sent, Held, UpTo>>
    BY <1>3 DEF Prune, Sent, Held, UpTo, Rows
  <2>2. pruned' \in Nat /\ pruned' > pruned
    BY <1>3 DEF Prune, IInv, TypeOK
  <2> QED
    BY <2>1, <2>2 DEF Feed!Next, Feed!Forget
<1>4. CASE \E target \in Screens : Navigate(target)
  BY <1>4 DEF Navigate, Sent, Held, UpTo, Rows
<1>5. CASE Reload
  <2>1. \A r \in Workrooms : cache'[r].seen = {} /\ cache'[r].lastSeq = 0
    BY <1>5 DEF Reload, EmptyCache, Rooms
  <2>2. Held' = [r \in Workrooms |-> {}] /\ UpTo' = [r \in Workrooms |-> 0]
    BY <2>1 DEF Held, UpTo
  <2>3. UNCHANGED <<Sent, pruned>>
    BY <1>5 DEF Reload, Sent, Rows
  <2> QED
    BY <2>2, <2>3 DEF Feed!Next, Feed!StartOver
<1>6. CASE \E m \in Mounts : Open(m) \/ Break(m)
  BY <1>6 DEF Open, Break, Sent, Held, UpTo, Rows
<1>7. CASE \E m \in Mounts : Deliver(m)
  <2> PICK m \in Mounts : Deliver(m)
    BY <1>7
  <2>1. UNCHANGED <<Sent, pruned>>
    BY DEF Deliver, Sent, Rows
  <2> QED
    BY <2>1, DeliverTakes DEF Feed!Next
<1>8. CASE UNCHANGED vars
  BY <1>8 DEF vars, Sent, Held, UpTo, Rows
<1>9. QED
  BY <1>1, <1>2, <1>3, <1>4, <1>5, <1>6, <1>7, <1>8 DEF Next

(* The streams, the shared cache and the mounts of a tab implement what a   *)
(* room promises its reader: its rows in order, once, without a hole that   *)
(* is not the retention sweep's, or a fresh start (useOfficeStream,         *)
(* stream_room).                                                            *)
THEOREM StreamImplementsFeed == Spec => ImplementsRoomFeed
<1>1. Init => Feed!Init
  BY DEF Init, Feed!Init, Sent, Held, UpTo, Rows, EmptyCache, Rooms
<1>2. IInv /\ [Next]_vars => [Feed!Next]_(Feed!feed)
  BY StepIsFeedStep
<1>3. QED
  BY <1>1, <1>2, StreamInvariant, PTL DEF Spec, Feed!Spec, ImplementsRoomFeed
=============================================================================
