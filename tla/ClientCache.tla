------------------------------ MODULE ClientCache ------------------------------
(***************************************************************************)
(* What the pages of the web client show of the server, and the buttons on *)
(* them: the query cache with the hooks that invalidate it after a write   *)
(* (web/src/api/queries), and the request cache under the roster           *)
(* (web/src/lib/api-cache.ts).                                             *)
(*                                                                         *)
(* The data behind an endpoint is a version that every write raises; what  *)
(* a query shows is the version it read.  The query library is external:   *)
(* an invalidation marks its entries and fetches those on display again,   *)
(* giving up the fetch under way if there is something to show, and joining*)
(* it if there is not; a fetch without a reader is not retried.  Left out: *)
(* its collection of entries nobody has read for five minutes, and the     *)
(* lists that hooks invalidate besides those below (an agent's status, the *)
(* team hub's banners): they come by a plain request and are not retried,  *)
(* like the one list of a task's details here.                             *)
(***************************************************************************)
EXTENDS Naturals, FiniteSets

CONSTANTS
    Key,        \* the queries looked at
    Mutation,   \* the hooks looked at
    Page,       \* the pages looked at
    Tap,        \* writes that may be under way together
    MaxActs,    \* bound: buttons pressed
    MaxElse,    \* bound: others write while no version is above it
    MaxLost     \* bound: requests and answers lost

From == [queue |-> "approvals", questions |-> "questions", board |-> "tasks", room |-> "tasks",
         detail |-> "tasks", agents |-> "roster", auto |-> "roster"]
Endpoint == {"approvals", "questions", "tasks", "roster"}

\* getAgents goes through fetchCached.
Memoised == {"roster"}

\* What is mounted: the bell's lists on every page, the others on theirs.
Shell == {"queue", "questions", "board"}
Shows == [chat |-> {}, work |-> {"auto"}, task |-> {"room", "detail"}, team |-> {"agents"}]

\* The hooks: whose rows have the button and on which pages, what is
\* invalidated, and whether also after an error.
DecideHook  == [row |-> "queue",     on |-> {"chat", "work"}, hits |-> {"queue"},                   settled |-> TRUE]
AnswerHook  == [row |-> "questions", on |-> {"chat", "work"}, hits |-> {"questions"},               settled |-> TRUE]
UnstickHook == [row |-> "room",      on |-> {"task"},         hits |-> {"board", "detail", "room"}, settled |-> TRUE]
CardHook    == [row |-> "board",     on |-> {"work"},         hits |-> {"board", "detail"},         settled |-> TRUE]
DismissHook == [row |-> "board",     on |-> {"work"},         hits |-> {"board"},                   settled |-> TRUE]
RosterHook  == [row |-> "agents",    on |-> {"team"},         hits |-> {"agents"},                  settled |-> FALSE]

Hook == [decide |-> DecideHook, answer |-> AnswerHook, unstick |-> UnstickHook,
         unstickCard |-> CardHook, dismiss |-> DismissHook, pause |-> RosterHook]

ASSUME CacheAssumption ==
    /\ Key \subseteq DOMAIN From /\ Mutation \subseteq {m \in DOMAIN Hook : Hook[m].row \in Key}
    /\ Page \subseteq DOMAIN Shows
    /\ MaxActs \in Nat /\ MaxElse \in Nat /\ MaxLost \in Nat

VARIABLES
    server,     \* the version of each endpoint
    query,      \* the cache entries: data, stale, and the fetch under way
    memo,       \* api-cache.ts: an entry and a promise in flight for an endpoint
    page,
    taps,       \* the mutations under way
    \* For the properties and the bounds.
    owed,       \* the version an entry has to show since the last settle
    acts, lost

vars == <<server, query, memo, page, taps, owed, acts, lost>>

\* Version 0 stands for none.
NoEntry == [data |-> 0, stale |-> FALSE, load |-> "no", got |-> 0, retries |-> 0]
NoFlight == [value |-> 0, flight |-> "no", got |-> 0]
Idle == [m |-> "none", at |-> "no", seen |-> 0]

Init ==
    /\ server = [e \in Endpoint |-> 1]
    /\ query = [k \in Key |-> NoEntry]
    /\ memo = [e \in Memoised |-> NoFlight]
    /\ page = "none"
    /\ taps = [t \in Tap |-> Idle]
    /\ owed = [k \in Key |-> 0] /\ acts = 0 /\ lost = 0

MountedOn(p) == Key \cap (Shell \cup (IF p = "none" THEN {} ELSE Shows[p]))
Mounted(k) == page # "none" /\ k \in MountedOn(page)
Shared(k) == From[k] \in Memoised
Busy(k) == query[k].load # "no"

(***************************************************************************)
(* Fetching.                                                               *)
(***************************************************************************)
\* Faulty: the first error is final.
RetriesNone == [k \in Key |-> 0]

\* retry: 1, or false.
Retries == [k \in Key |-> IF k = "detail" THEN 0 ELSE 1]

Answered(version) == [data |-> version, stale |-> FALSE, load |-> "no", got |-> 0, retries |-> 0]

\* What is shown stays while it loads, and stays marked.
Loading(entry, load, retries) == [entry EXCEPT !.load = load, !.got = 0, !.retries = retries]

\* The queries ks call their functions, fetchCached among them, with so many
\* retries left.
Start(Q, M, ks, left) ==
    /\ query' = [k \in Key |->
         IF k \notin ks THEN Q[k]
         ELSE IF ~Shared(k) THEN Loading(Q[k], "asked", left[k])
         ELSE IF M[From[k]].value # 0 THEN Answered(M[From[k]].value)
         ELSE Loading(Q[k], "shared", left[k])]
    /\ memo' = [e \in Memoised |->
         IF M[e].value = 0 /\ M[e].flight = "no" /\ \E k \in ks : From[k] = e
         THEN [M[e] EXCEPT !.flight = "asked"] ELSE M[e]]

\* A page is opened: what has nothing to show or is marked is fetched, and
\* what has become old (aged), unless it is being fetched.
Navigate(p) ==
    /\ page # p
    /\ page' = p
    /\ \E aged \in SUBSET MountedOn(p) :
         Start(query, memo, {k \in MountedOn(p) :
             /\ ~Mounted(k) /\ ~Busy(k)
             /\ query[k].data = 0 \/ query[k].stale \/ k \in aged}, Retries)
    /\ UNCHANGED <<server, taps, owed, acts, lost>>

\* refetchInterval.
Poll ==
    /\ "auto" \in Key /\ Mounted("auto") /\ ~Busy("auto")
    /\ Start(query, memo, {"auto"}, Retries)
    /\ UNCHANGED <<server, page, taps, owed, acts, lost>>

Serve(k) ==
    /\ query[k].load = "asked"
    /\ query' = [query EXCEPT ![k].load = "read", ![k].got = server[From[k]]]
    /\ UNCHANGED <<server, memo, page, taps, owed, acts, lost>>

Arrive(k) ==
    /\ query[k].load = "read"
    /\ query' = [query EXCEPT ![k] = Answered(query[k].got)]
    /\ UNCHANGED <<server, memo, page, taps, owed, acts, lost>>

\* Tried again after a pause if it is read and a retry is left; else what
\* was shown stays.
Failed(entry, k) ==
    IF Mounted(k) /\ entry.retries > 0 THEN Loading(entry, "paused", entry.retries - 1) ELSE Loading(entry, "no", 0)

Fail(k) ==
    /\ query[k].load \in {"asked", "read"} /\ lost < MaxLost /\ lost' = lost + 1
    /\ query' = [query EXCEPT ![k] = Failed(@, k)]
    /\ UNCHANGED <<server, memo, page, taps, owed, acts>>

\* The pause is over; nobody may read it any more.
Retry(k) ==
    /\ query[k].load = "paused"
    /\ \/ Mounted(k) /\ Start(query, memo, {k}, [j \in Key |-> query[j].retries])
       \/ ~Mounted(k) /\ query' = [query EXCEPT ![k] = Loading(@, "no", 0)] /\ UNCHANGED memo
    /\ UNCHANGED <<server, page, taps, owed, acts, lost>>

\* The same for a promise of fetchCached and all who hold it.
Waiting(e) == {k \in Key : query[k].load = "shared" /\ From[k] = e}

ServeShared(e) ==
    /\ memo[e].flight = "asked"
    /\ memo' = [memo EXCEPT ![e].flight = "read", ![e].got = server[e]]
    /\ UNCHANGED <<server, query, page, taps, owed, acts, lost>>

ArriveShared(e) ==
    /\ memo[e].flight = "read"
    /\ memo' = [memo EXCEPT ![e] = [value |-> @.got, flight |-> "no", got |-> 0]]
    /\ query' = [k \in Key |-> IF k \in Waiting(e) THEN Answered(memo[e].got) ELSE query[k]]
    /\ UNCHANGED <<server, page, taps, owed, acts, lost>>

\* An error is not cached; whoever tries again starts a new promise.
FailShared(e) ==
    /\ memo[e].flight # "no" /\ lost < MaxLost /\ lost' = lost + 1
    /\ query' = [k \in Key |-> IF k \in Waiting(e) THEN Failed(query[k], k) ELSE query[k]]
    /\ memo' = [memo EXCEPT ![e].flight = "no", ![e].got = 0]
    /\ UNCHANGED <<server, page, taps, owed, acts>>

\* The entry's five seconds are over.
Expire(e) ==
    /\ memo[e].value # 0 /\ memo' = [memo EXCEPT ![e].value = 0]
    /\ UNCHANGED <<server, query, page, taps, owed, acts, lost>>

(***************************************************************************)
(* Writing.                                                                *)
(***************************************************************************)
Target(t) == From[Hook[taps[t].m].row]

\* A row is there to be acted on.  Its button is disabled while its own
\* action is under way, but each row, or button, has a mutation of its own
\* (the questions of a page share one: fewer acts than here).
\* Which of the free places it takes makes no difference.
Act(t, m) ==
    /\ taps[t].at = "no" /\ t = CHOOSE u \in Tap : taps[u].at = "no"
    /\ acts < MaxActs /\ acts' = acts + 1
    /\ page \in Hook[m].on /\ query[Hook[m].row].data # 0
    /\ taps' = [taps EXCEPT ![t] = [m |-> m, at |-> "sent", seen |-> 0]]
    /\ UNCHANGED <<server, query, memo, page, owed, lost>>

TakeEffect(t) ==
    /\ taps[t].at = "sent"
    /\ server' = [server EXCEPT ![Target(t)] = @ + 1]
    /\ taps' = [taps EXCEPT ![t].at = "done", ![t].seen = server[Target(t)] + 1]
    /\ UNCHANGED <<query, memo, page, owed, acts, lost>>

\* Somebody was first, or the handler failed.
Refuse(t) ==
    /\ taps[t].at = "sent"
    /\ taps' = [taps EXCEPT ![t].at = "refused", ![t].seen = server[Target(t)]]
    /\ UNCHANGED <<server, query, memo, page, owed, acts, lost>>

LoseAnswer(t) ==
    /\ taps[t].at \in {"sent", "done"} /\ lost < MaxLost /\ lost' = lost + 1
    /\ taps' = [taps EXCEPT ![t].at = "refused"]
    /\ UNCHANGED <<server, query, memo, page, owed, acts>>

\* invalidateQueries: all are marked, and those on display fetched anew.
Refetched(ks) == {k \in ks : Mounted(k) /\ (~Busy(k) \/ query[k].data # 0)}

\* A fetch that an invalidation does not give up, or cannot, and that has
\* been answered before the write: it takes the mark off.
Joined(k) ==
    \/ query[k].load = "read" /\ (query[k].data = 0 \/ ~Mounted(k))
    \/ Shared(k) /\ memo[From[k]].flight = "read"

\* Only the roster's hooks promise nothing after an error.
Promised(t) == taps[t].at = "done" \/ taps[t].m # "pause"

\* Faulty: the entry is left to run out.
DroppedNothing(t) == memo

\* withRosterInvalidate: on success, the entry is dropped; a promise is not.
Dropped(t) == [e \in Memoised |->
    IF taps[t].at = "done" /\ e = Target(t) THEN [memo[e] EXCEPT !.value = 0] ELSE memo[e]]

\* The answer is in: the entry is dropped, then the hook invalidates, even
\* if its page has been left.
Settle(t) ==
    LET h == Hook[taps[t].m]
        ks == IF taps[t].at = "done" \/ h.settled THEN h.hits \cap Key ELSE {}
        marked == [k \in Key |-> IF k \in ks THEN [query[k] EXCEPT !.stale = TRUE] ELSE query[k]]
    IN
    /\ taps[t].at \in {"done", "refused"}
    /\ Start(marked, Dropped(t), Refetched(ks), Retries)
    /\ owed' = [k \in Key |->
         IF k \in h.hits /\ Promised(t) /\ ~Joined(k) /\ taps[t].seen > owed[k] THEN taps[t].seen ELSE owed[k]]
    /\ taps' = [taps EXCEPT ![t] = Idle]
    /\ UNCHANGED <<server, page, acts, lost>>

\* An agent, a tick, another tab, the chat; or a request of this tab that
\* the server took up after the connection broke.
WriteElsewhere(e) ==
    /\ (\A d \in Endpoint : server[d] <= MaxElse) /\ \E k \in Key : From[k] = e
    /\ server' = [server EXCEPT ![e] = @ + 1]
    /\ UNCHANGED <<query, memo, page, taps, owed, acts, lost>>

Network == \E k \in Key : Serve(k) \/ Arrive(k) \/ Retry(k)
Promises == \E e \in Memoised : ServeShared(e) \/ ArriveShared(e)
Losses == (\E k \in Key : Fail(k)) \/ (\E e \in Memoised : FailShared(e)) \/ (\E t \in Tap : LoseAnswer(t))

Next ==
    \/ \E p \in Page : Navigate(p)
    \/ Poll \/ Network \/ Promises \/ Losses
    \/ \E e \in Memoised : Expire(e)
    \/ \E t \in Tap, m \in Mutation : Act(t, m)
    \/ \E t \in Tap : TakeEffect(t) \/ Refuse(t) \/ Settle(t)
    \/ \E e \in Endpoint : WriteElsewhere(e)

\* Requests are answered, answers handled and pauses end.
Fairness ==
    /\ \A k \in Key : WF_vars(Serve(k)) /\ WF_vars(Arrive(k)) /\ WF_vars(Retry(k))
    /\ \A e \in Memoised : WF_vars(ServeShared(e)) /\ WF_vars(ArriveShared(e))

Spec == Init /\ [][Next]_vars
FairSpec == Spec /\ Fairness
-----------------------------------------------------------------------------
(***************************************************************************)
(* Properties.                                                             *)
(***************************************************************************)
TypeOK ==
    /\ server \in [Endpoint -> Nat \ {0}]
    /\ query \in [Key -> [data : Nat, stale : BOOLEAN, load : {"no", "asked", "read", "shared", "paused"}, got : Nat,
                          retries : Nat]]
    /\ memo \in [Memoised -> [value : Nat, flight : {"no", "asked", "read"}, got : Nat]]
    /\ page \in Page \cup {"none"}
    /\ taps \in [Tap -> [m : Mutation \cup {"none"}, at : {"no", "sent", "done", "refused"}, seen : Nat]]
    /\ owed \in [Key -> Nat] /\ acts \in 0..MaxActs /\ lost \in 0..MaxLost

(* The hooks' promise ("Settled, not success": the list must not show a     *)
(* decision that never happened, or miss one that did): a list at rest that *)
(* an action has invalidated shows what that action came to, its effect or  *)
(* the reason it was refused, whatever pages were left, requests lost and   *)
(* answers late, unless the invalidation met a read that had been answered  *)
(* before, and that it could only join.                                     *)
OwnWriteShown ==
    \A k \in Key : ~Busy(k) /\ ~query[k].stale => query[k].data >= owed[k]

(* And a list on display that is retried comes to show it, one lost request *)
(* or another.                                                              *)
OwnWriteEventuallyShown ==
    \A k \in Key :
        (Mounted(k) /\ k # "detail" /\ query[k].data < owed[k]) ~> (~Mounted(k) \/ query[k].data >= owed[k])
=============================================================================
