--------------------------- MODULE ClientCacheProofs ---------------------------
(***************************************************************************)
(* Proofs for ClientCache, for any of its queries and hooks, any writes    *)
(* under way together and any bounds.                                      *)
(***************************************************************************)
EXTENDS ClientCache, TLAPS

Load == {"no", "asked", "read", "shared", "paused"}
Entry == [data : Nat, stale : BOOLEAN, load : Load, got : Nat, retries : Nat]
Memo == [value : Nat, flight : {"no", "asked", "read"}, got : Nat]

TapType == [m : Mutation \cup {"none"}, at : {"no", "sent", "done", "refused"}, seen : Nat]

\* An entry shows what it owes, or is marked; what it is loading will show
\* it.
Good(entry, k, M, O) ==
    /\ entry.stale \/ entry.data >= O[k]
    /\ entry.load = "asked" => ~Shared(k)
    /\ entry.load = "read" => ~Shared(k) /\ entry.got >= O[k]
    /\ entry.load = "shared" => Shared(k) /\ M[From[k]].flight # "no"

\* What fetchCached holds is no older than what is owed.
Fresh(M, O) ==
    \A e \in Memoised, k \in Key : From[k] = e =>
        /\ M[e].value # 0 => M[e].value >= O[k]
        /\ M[e].flight = "read" => M[e].got >= O[k]

SeenFits == \A t \in Tap : taps[t].at # "no" => taps[t].m \in Mutation /\ taps[t].seen <= server[Target(t)]
OwedFits == \A k \in Key : owed[k] <= server[From[k]]

CacheTypes ==
    /\ server \in [Endpoint -> Nat] /\ query \in [Key -> Entry] /\ memo \in [Memoised -> Memo]
    /\ taps \in [Tap -> TapType]
    /\ owed \in [Key -> Nat]

CacheInv ==
    /\ CacheTypes /\ SeenFits /\ OwedFits
    /\ \A k \in Key : Good(query[k], k, memo, owed)
    /\ Fresh(memo, owed)

\* The tables of queries and hooks.
LEMMA KeysFit == \A k \in Key : From[k] \in Endpoint
BY CacheAssumption DEF From, Endpoint

LEMMA HooksFit ==
    ASSUME NEW m \in Mutation
    PROVE  /\ From[Hook[m].row] \in Endpoint
           /\ \A k \in Hook[m].hits : From[k] = From[Hook[m].row]
           /\ Hook[m].settled \in BOOLEAN
           /\ m # "pause" => Hook[m].settled /\ From[Hook[m].row] \notin Memoised
<1>1. m \in {"decide", "answer", "unstick", "unstickCard", "dismiss", "pause"} BY CacheAssumption DEF Hook
<1>2. CASE m = "decide" BY <1>2 DEF Hook, DecideHook, From, Endpoint, Memoised
<1>3. CASE m = "answer" BY <1>3 DEF Hook, AnswerHook, From, Endpoint, Memoised
<1>4. CASE m = "unstick"
  <2>1. Hook[m] = UnstickHook BY <1>4 DEF Hook
  <2>2. UnstickHook.row = "room" /\ UnstickHook.hits = {"board", "detail", "room"} /\ UnstickHook.settled = TRUE BY DEF UnstickHook
  <2>3. From["room"] = "tasks" /\ From["detail"] = "tasks" /\ From["board"] = "tasks" BY DEF From
  <2>. QED BY <2>1, <2>2, <2>3 DEF Endpoint, Memoised
<1>5. CASE m = "unstickCard"
  <2>1. Hook[m] = CardHook BY <1>5 DEF Hook
  <2>2. CardHook.row = "board" /\ CardHook.hits = {"board", "detail"} /\ CardHook.settled = TRUE BY DEF CardHook
  <2>3. From["detail"] = "tasks" /\ From["board"] = "tasks" BY DEF From
  <2>. QED BY <2>1, <2>2, <2>3 DEF Endpoint, Memoised
<1>6. CASE m = "dismiss" BY <1>6 DEF Hook, DismissHook, From, Endpoint, Memoised
<1>7. CASE m = "pause" BY <1>7 DEF Hook, RosterHook, From, Endpoint, Memoised
<1>. QED BY <1>1, <1>2, <1>3, <1>4, <1>5, <1>6, <1>7

LEMMA Loads ==
    /\ "no" \in Load /\ "asked" \in Load /\ "read" \in Load /\ "shared" \in Load /\ "paused" \in Load
    /\ 0 \in Nat
BY DEF Load

LEMMA RetriesFit == Retries \in [Key -> Nat]
BY DEF Retries

LEMMA LoadingKeeps ==
    ASSUME NEW q \in Entry, NEW l \in Load, NEW n \in Nat
    PROVE  /\ Loading(q, l, n) \in Entry
           /\ Loading(q, l, n).load = l /\ Loading(q, l, n).stale = q.stale /\ Loading(q, l, n).data = q.data
BY DEF Loading, Entry, Load

LEMMA LoadsAsked ==
    ASSUME NEW q \in Entry, NEW n \in Nat, NEW r, r = Loading(q, "asked", n)
    PROVE  r \in Entry /\ r.load = "asked" /\ r.stale = q.stale /\ r.data = q.data
BY Loads, LoadingKeeps

LEMMA LoadsShared ==
    ASSUME NEW q \in Entry, NEW n \in Nat, NEW r, r = Loading(q, "shared", n)
    PROVE  r \in Entry /\ r.load = "shared" /\ r.stale = q.stale /\ r.data = q.data
BY Loads, LoadingKeeps

\* Fetching makes the entries of ks good, if they are marked where they have
\* to be, and no other worse.
LEMMA StartKeeps ==
    ASSUME NEW Q \in [Key -> Entry], NEW M \in [Memoised -> Memo], NEW O \in [Key -> Nat], NEW ks \in SUBSET Key,
           Fresh(M, O), \A k \in Key \ ks : Good(Q[k], k, M, O),
           \A k \in ks : Q[k].stale \/ Q[k].data >= O[k], NEW left \in [Key -> Nat], Start(Q, M, ks, left)
    PROVE  /\ query' \in [Key -> Entry] /\ memo' \in [Memoised -> Memo]
           /\ Fresh(memo', O) /\ \A k \in Key : Good(query'[k], k, memo', O)
<1>1. ASSUME NEW e \in Memoised
      PROVE  /\ memo'[e] \in Memo
             /\ memo'[e].value = M[e].value /\ (memo'[e].flight = "read" => M[e].flight = "read" /\ memo'[e].got = M[e].got)
             /\ M[e].flight # "no" => memo'[e].flight # "no"
             /\ M[e].value = 0 /\ (\E k \in ks : From[k] = e) => memo'[e].flight # "no"
  BY DEF Start, Memo
<1>2. memo' \in [Memoised -> Memo] BY <1>1 DEF Start
<1>3. Fresh(memo', O) BY <1>1 DEF Fresh
<1>4. ASSUME NEW k \in Key PROVE query'[k] \in Entry /\ Good(query'[k], k, memo', O)
  <2>1. CASE k \notin ks
    <3>1. query'[k] = Q[k] BY <2>1 DEF Start
    <3>. QED BY <2>1, <3>1, <1>1 DEF Good, Shared
  <2>2. CASE k \in ks /\ ~Shared(k)
    <3>1. query'[k] = Loading(Q[k], "asked", left[k]) /\ left[k] \in Nat BY <2>2 DEF Start
    <3>2. Q[k] \in Entry OBVIOUS
    <3>3. /\ query'[k] \in Entry /\ query'[k].load = "asked"
          /\ query'[k].stale = Q[k].stale /\ query'[k].data = Q[k].data
      BY <3>1, <3>2, LoadsAsked
    <3>. QED BY <2>2, <3>3 DEF Good
  <2>3. CASE k \in ks /\ Shared(k) /\ M[From[k]].value # 0
    <3>1. From[k] \in Memoised /\ M[From[k]].value \in Nat /\ M[From[k]].value >= O[k]
      BY <2>3 DEF Shared, Fresh, Memo
    <3>2. query'[k] = Answered(M[From[k]].value) BY <2>3 DEF Start
    <3>. QED BY <3>1, <3>2 DEF Answered, Good, Entry, Load
  <2>4. CASE k \in ks /\ Shared(k) /\ M[From[k]].value = 0
    <3>1. query'[k] = Loading(Q[k], "shared", left[k]) /\ left[k] \in Nat BY <2>4 DEF Start
    <3>2. From[k] \in Memoised /\ memo'[From[k]].flight # "no" BY <2>4, <1>1 DEF Shared
    <3>3. Q[k] \in Entry OBVIOUS
    <3>4. /\ query'[k] \in Entry /\ query'[k].load = "shared"
          /\ query'[k].stale = Q[k].stale /\ query'[k].data = Q[k].data
      BY <3>1, <3>3, LoadsShared
    <3>. QED BY <2>4, <3>2, <3>4 DEF Good
  <2>. QED BY <2>1, <2>2, <2>3, <2>4
<1>5. query' \in [Key -> Entry] BY <1>4 DEF Start
<1>. QED BY <1>2, <1>3, <1>4, <1>5

\* What one entry becomes when its request is answered or fails.
LEMMA OneEntry ==
    ASSUME CacheInv, NEW k \in Key, NEW r \in Entry, Good(r, k, memo, owed),
           query' = [query EXCEPT ![k] = r], UNCHANGED <<server, memo, taps, owed>>
    PROVE  CacheInv'
<1>1. \A j \in Key : query'[j] = IF j = k THEN r ELSE query[j] BY DEF CacheInv, CacheTypes
<1>2. query' \in [Key -> Entry] BY DEF CacheInv, CacheTypes
<1>3. Fresh(memo', owed') /\ SeenFits' /\ OwedFits' BY DEF CacheInv, Fresh, SeenFits, OwedFits, Target
<1>4. \A j \in Key : Good(query'[j], j, memo', owed') BY <1>1 DEF CacheInv, Good, Shared
<1>. QED BY <1>2, <1>3, <1>4 DEF CacheInv, CacheTypes

LEMMA FailedKeeps ==
    ASSUME NEW q \in Entry, NEW k \in Key, NEW M, NEW O, q.stale \/ q.data >= O[k]
    PROVE  Failed(q, k) \in Entry /\ Failed(q, k).load # "shared" /\ Good(Failed(q, k), k, M, O)
<1>1. CASE Mounted(k) /\ q.retries > 0
  <2>1. q.retries - 1 \in Nat BY <1>1 DEF Entry
  <2> DEFINE n == q.retries - 1
  <2>2. Failed(q, k) = Loading(q, "paused", n) /\ n \in Nat BY <1>1, <2>1 DEF Failed
  <2> HIDE DEF n
  <2>3. Failed(q, k) \in Entry /\ Failed(q, k).load = "paused" /\ Failed(q, k).stale = q.stale /\ Failed(q, k).data = q.data
    BY <2>2, Loads, LoadingKeeps
  <2>. QED BY <2>3 DEF Good
<1>2. CASE ~(Mounted(k) /\ q.retries > 0)
  <2>1. Failed(q, k) = Loading(q, "no", 0) BY <1>2 DEF Failed
  <2>2. Failed(q, k) \in Entry /\ Failed(q, k).load = "no" /\ Failed(q, k).stale = q.stale /\ Failed(q, k).data = q.data
    BY <2>1, Loads, LoadingKeeps
  <2>. QED BY <2>2 DEF Good
<1>. QED BY <1>1, <1>2

LEMMA StepServe == ASSUME CacheInv, NEW k \in Key, Serve(k) PROVE CacheInv'
<1>1. query[k] \in Entry /\ Good(query[k], k, memo, owed) /\ server[From[k]] \in Nat /\ server[From[k]] >= owed[k]
  BY KeysFit DEF CacheInv, CacheTypes, OwedFits
<1> DEFINE r == [query[k] EXCEPT !.load = "read", !.got = server[From[k]]]
<1>2. query' = [query EXCEPT ![k] = r] BY DEF Serve
<1>3. r \in Entry /\ r.stale = query[k].stale /\ r.data = query[k].data /\ r.load = "read" /\ r.got = server[From[k]]
  BY <1>1 DEF Entry, Load
<1>4. Good(r, k, memo, owed) BY <1>1, <1>3 DEF Good, Serve
<1>. QED BY <1>2, <1>3, <1>4, OneEntry DEF Serve

LEMMA StepArrive == ASSUME CacheInv, NEW k \in Key, Arrive(k) PROVE CacheInv'
<1>1. query[k] \in Entry /\ Good(query[k], k, memo, owed) BY DEF CacheInv, CacheTypes
<1>2. Answered(query[k].got) \in Entry /\ Good(Answered(query[k].got), k, memo, owed)
  BY <1>1 DEF Answered, Entry, Load, Good, Arrive
<1>. QED BY <1>2, OneEntry DEF Arrive

LEMMA StepFail == ASSUME CacheInv, NEW k \in Key, Fail(k) PROVE CacheInv'
<1>1. query[k] \in Entry /\ Good(query[k], k, memo, owed) BY DEF CacheInv, CacheTypes
<1>2. query[k].stale \/ query[k].data >= owed[k] BY <1>1 DEF Good
<1>3. Failed(query[k], k) \in Entry /\ Good(Failed(query[k], k), k, memo, owed) BY <1>1, <1>2, FailedKeeps
<1>. QED BY <1>3, OneEntry DEF Fail

LEMMA StepServeShared == ASSUME CacheInv, NEW e \in Memoised, ServeShared(e) PROVE CacheInv'
<1>1. e \in Endpoint /\ server[e] \in Nat /\ memo[e] \in Memo BY DEF CacheInv, CacheTypes, Memoised, Endpoint
<1>2. \A d \in Memoised : memo'[d] = IF d = e THEN [memo[e] EXCEPT !.flight = "read", !.got = server[e]] ELSE memo[d]
  BY DEF ServeShared, CacheInv, CacheTypes
<1>3. memo'[e] \in Memo /\ memo'[e].value = memo[e].value /\ memo'[e].flight = "read" /\ memo'[e].got = server[e]
  BY <1>1, <1>2 DEF Memo
<1>4. memo' \in [Memoised -> Memo] BY <1>2, <1>3 DEF ServeShared, CacheInv, CacheTypes
<1>5. Fresh(memo', owed')
  <2>. SUFFICES ASSUME NEW d \in Memoised, NEW k \in Key, From[k] = d
               PROVE  /\ memo'[d].value # 0 => memo'[d].value >= owed[k]
                      /\ memo'[d].flight = "read" => memo'[d].got >= owed[k]
    BY DEF Fresh, ServeShared
  <2>1. CASE d = e BY <2>1, <1>1, <1>3 DEF CacheInv, Fresh, OwedFits
  <2>2. CASE d # e BY <2>2, <1>2 DEF CacheInv, Fresh
  <2>. QED BY <2>1, <2>2
<1>6. \A k \in Key : Good(query'[k], k, memo', owed')
  BY <1>2, <1>3 DEF ServeShared, CacheInv, Good, Shared
<1>7. CacheTypes' /\ SeenFits' /\ OwedFits' BY <1>4 DEF ServeShared, CacheInv, CacheTypes, SeenFits, OwedFits, Target
<1>. QED BY <1>5, <1>6, <1>7 DEF CacheInv

LEMMA StepArriveShared == ASSUME CacheInv, NEW e \in Memoised, ArriveShared(e) PROVE CacheInv'
<1>1. memo[e] \in Memo /\ memo[e].flight = "read" BY DEF CacheInv, CacheTypes, ArriveShared
<1>2. \A d \in Memoised : memo'[d] = IF d = e THEN [value |-> memo[e].got, flight |-> "no", got |-> 0] ELSE memo[d]
  BY DEF ArriveShared, CacheInv, CacheTypes
<1>3. memo' \in [Memoised -> Memo] BY <1>1, <1>2 DEF ArriveShared, CacheInv, CacheTypes, Memo
<1>4. Fresh(memo', owed') BY <1>1, <1>2 DEF ArriveShared, CacheInv, Fresh
<1>5. ASSUME NEW k \in Key PROVE query'[k] \in Entry /\ Good(query'[k], k, memo', owed')
  <2>1. query[k] \in Entry /\ Good(query[k], k, memo, owed) BY DEF CacheInv, CacheTypes
  <2>2. CASE k \in Waiting(e)
    <3>1. query'[k] = Answered(memo[e].got) BY <2>2 DEF ArriveShared
    <3>2. memo[e].got \in Nat /\ memo[e].got >= owed[k] BY <1>1, <2>2 DEF Waiting, CacheInv, Fresh, Memo
    <3>3. Answered(memo[e].got) \in Entry BY <3>2 DEF Answered, Entry, Load
    <3>4. Good(Answered(memo[e].got), k, memo', owed) BY <3>2 DEF Answered, Good
    <3>. QED BY <3>1, <3>3, <3>4 DEF ArriveShared
  <2>3. CASE k \notin Waiting(e)
    <3>1. query'[k] = query[k] BY <2>3 DEF ArriveShared
    <3>. QED BY <3>1, <2>1, <2>3, <1>2 DEF Good, Waiting, Shared, ArriveShared
  <2>. QED BY <2>2, <2>3
<1>6. query' \in [Key -> Entry] BY <1>5 DEF ArriveShared
<1>7. CacheTypes' /\ SeenFits' /\ OwedFits'
  BY <1>3, <1>6 DEF ArriveShared, CacheInv, CacheTypes, SeenFits, OwedFits, Target
<1>. QED BY <1>4, <1>5, <1>7 DEF CacheInv

LEMMA StepFailShared == ASSUME CacheInv, NEW e \in Memoised, FailShared(e) PROVE CacheInv'
<1>1. memo[e] \in Memo BY DEF CacheInv, CacheTypes
<1>2. \A d \in Memoised : memo'[d] = IF d = e THEN [memo[e] EXCEPT !.flight = "no", !.got = 0] ELSE memo[d]
  BY DEF FailShared, CacheInv, CacheTypes
<1>4. memo'[e] \in Memo /\ memo'[e].value = memo[e].value /\ memo'[e].flight = "no"
  <2> DEFINE h == [memo[e] EXCEPT !.flight = "no"]
  <2>1. h \in Memo /\ h.value = memo[e].value /\ h.flight = "no" BY <1>1 DEF Memo
  <2>2. memo'[e] = [h EXCEPT !.got = 0] BY <1>2
  <2> HIDE DEF h
  <2>. QED BY <2>1, <2>2 DEF Memo
<1>5. memo' \in [Memoised -> Memo] BY <1>2, <1>4 DEF FailShared, CacheInv, CacheTypes
<1>6. Fresh(memo', owed') BY <1>2, <1>4 DEF FailShared, CacheInv, Fresh
<1>7. ASSUME NEW k \in Key PROVE query'[k] \in Entry /\ Good(query'[k], k, memo', owed')
  <2>1. query[k] \in Entry /\ Good(query[k], k, memo, owed) BY DEF CacheInv, CacheTypes
  <2>2. CASE k \in Waiting(e)
    <3>1. query'[k] = Failed(query[k], k) BY <2>2 DEF FailShared
    <3>2. query[k].stale \/ query[k].data >= owed[k] BY <2>1 DEF Good
    <3>3. Failed(query[k], k) \in Entry /\ Good(Failed(query[k], k), k, memo', owed)
      BY <2>1, <3>2, FailedKeeps
    <3>. QED BY <3>1, <3>3 DEF FailShared
  <2>3. CASE k \notin Waiting(e)
    <3>1. query'[k] = query[k] BY <2>3 DEF FailShared
    <3>. QED BY <3>1, <2>1, <2>3, <1>2 DEF Good, Waiting, Shared, FailShared
  <2>. QED BY <2>2, <2>3
<1>8. query' \in [Key -> Entry] BY <1>7 DEF FailShared
<1>9. CacheTypes' /\ SeenFits' /\ OwedFits'
  BY <1>5, <1>8 DEF FailShared, CacheInv, CacheTypes, SeenFits, OwedFits, Target
<1>. QED BY <1>6, <1>7, <1>9 DEF CacheInv

LEMMA StepExpire == ASSUME CacheInv, NEW e \in Memoised, Expire(e) PROVE CacheInv'
<1>1. memo[e] \in Memo BY DEF CacheInv, CacheTypes
<1>2. \A d \in Memoised : memo'[d] = IF d = e THEN [memo[e] EXCEPT !.value = 0] ELSE memo[d]
  BY DEF Expire, CacheInv, CacheTypes
<1>3. memo'[e] \in Memo /\ memo'[e].value = 0 /\ memo'[e].flight = memo[e].flight /\ memo'[e].got = memo[e].got
  BY <1>1, <1>2 DEF Memo
<1>4. memo' \in [Memoised -> Memo] BY <1>2, <1>3 DEF Expire, CacheInv, CacheTypes
<1>5. Fresh(memo', owed') BY <1>2, <1>3 DEF Expire, CacheInv, Fresh
<1>6. \A k \in Key : Good(query'[k], k, memo', owed') BY <1>2, <1>3 DEF Expire, CacheInv, Good, Shared
<1>7. CacheTypes' /\ SeenFits' /\ OwedFits' BY <1>4 DEF Expire, CacheInv, CacheTypes, SeenFits, OwedFits, Target
<1>. QED BY <1>5, <1>6, <1>7 DEF CacheInv

\* Fetching alone.
LEMMA StepStart ==
    ASSUME CacheInv, NEW ks \in SUBSET Key, NEW left \in [Key -> Nat], Start(query, memo, ks, left),
           UNCHANGED <<server, taps, owed>>
    PROVE  CacheInv'
<1>1. /\ query' \in [Key -> Entry] /\ memo' \in [Memoised -> Memo]
      /\ Fresh(memo', owed) /\ \A k \in Key : Good(query'[k], k, memo', owed)
  <2>1. \A k \in Key : Good(query[k], k, memo, owed) BY DEF CacheInv
  <2>2. \A k \in ks : query[k].stale \/ query[k].data >= owed[k] BY <2>1 DEF Good
  <2>. QED BY <2>1, <2>2, StartKeeps DEF CacheInv, CacheTypes
<1>2. SeenFits' BY DEF CacheInv, SeenFits, Target
<1>. QED BY <1>1, <1>2 DEF CacheInv, CacheTypes, OwedFits

LEMMA StepNavigate == ASSUME CacheInv, NEW p \in Page, Navigate(p) PROVE CacheInv'
<1>1. PICK ks \in SUBSET Key : Start(query, memo, ks, Retries) BY DEF Navigate, MountedOn
<1>. QED BY <1>1, RetriesFit, StepStart DEF Navigate

LEMMA StepPoll == ASSUME CacheInv, Poll PROVE CacheInv'
<1>1. {"auto"} \in SUBSET Key BY DEF Poll
<1>. QED BY <1>1, RetriesFit, StepStart DEF Poll

LEMMA StepRetry == ASSUME CacheInv, NEW k \in Key, Retry(k) PROVE CacheInv'
<1>1. CASE Mounted(k)
  <2> DEFINE left == [j \in Key |-> query[j].retries]
  <2>1. left \in [Key -> Nat] BY DEF CacheInv, CacheTypes, Entry
  <2>2. Start(query, memo, {k}, left) /\ UNCHANGED <<server, taps, owed>> BY <1>1 DEF Retry
  <2> HIDE DEF left
  <2>. QED BY <2>1, <2>2, StepStart
<1>2. CASE ~Mounted(k)
  <2> DEFINE r == Loading(query[k], "no", 0)
  <2>1. query[k] \in Entry /\ Good(query[k], k, memo, owed) BY DEF CacheInv, CacheTypes
  <2>2. query' = [query EXCEPT ![k] = r] /\ UNCHANGED <<server, memo, taps, owed>> BY <1>2 DEF Retry
  <2>3. r \in Entry /\ r.load = "no" /\ r.stale = query[k].stale /\ r.data = query[k].data
    BY <2>1, Loads, LoadingKeeps
  <2> HIDE DEF r
  <2>4. Good(r, k, memo, owed) BY <2>1, <2>3 DEF Good
  <2>. QED BY <2>2, <2>3, <2>4, OneEntry
<1>. QED BY <1>1, <1>2

LEMMA SeenStays ==
    ASSUME CacheInv, \A e \in Endpoint : server'[e] >= server[e] /\ server'[e] \in Nat, NEW u \in Tap, taps[u].at # "no"
    PROVE  taps[u].m \in Mutation /\ taps[u].seen <= server'[Target(u)]
<1>1. taps[u].m \in Mutation /\ taps[u].seen <= server[Target(u)] /\ taps[u].seen \in Nat
  BY DEF CacheInv, SeenFits, CacheTypes, TapType
<1>2. Target(u) \in Endpoint BY <1>1, HooksFit DEF Target
<1>. QED BY <1>1, <1>2 DEF CacheInv, CacheTypes

LEMMA ServerStep ==
    ASSUME CacheInv, UNCHANGED <<query, memo, owed>>, server' \in [Endpoint -> Nat],
           \A e \in Endpoint : server'[e] >= server[e], taps' \in [Tap -> TapType], SeenFits'
    PROVE  CacheInv'
<1>1. OwedFits' BY KeysFit DEF CacheInv, CacheTypes, OwedFits
<1>2. \A k \in Key : Good(query'[k], k, memo', owed') BY DEF CacheInv, Good, Shared
<1>3. Fresh(memo', owed') BY DEF CacheInv, Fresh
<1>. QED BY <1>1, <1>2, <1>3 DEF CacheInv, CacheTypes

\* A step of one mutation and of the server.
LEMMA TapStep ==
    ASSUME CacheInv, UNCHANGED <<query, memo, owed>>, NEW t \in Tap, NEW r \in TapType,
           server' \in [Endpoint -> Nat], \A e \in Endpoint : server'[e] >= server[e],
           taps' = [taps EXCEPT ![t] = r],
           r.m \in Mutation /\ r.seen <= server'[From[Hook[r.m].row]]
    PROVE  CacheInv'
<1>1. taps \in [Tap -> TapType] BY DEF CacheInv, CacheTypes
<1>2. \A u \in Tap : taps'[u] = IF u = t THEN r ELSE taps[u] BY <1>1
<1>3. taps' \in [Tap -> TapType] BY <1>1
<1>4. ASSUME NEW u \in Tap, taps'[u].at # "no"
      PROVE  taps'[u].m \in Mutation /\ taps'[u].seen <= server'[From[Hook[taps'[u].m].row]]
  <2>1. CASE u = t BY <1>2, <2>1
  <2>2. CASE u # t BY <1>2, <1>4, <2>2, SeenStays DEF Target
  <2>. QED BY <2>1, <2>2
<1>5. SeenFits' BY <1>4 DEF SeenFits, Target
<1>. QED BY <1>3, <1>5, ServerStep

LEMMA StepAct == ASSUME CacheInv, NEW t \in Tap, NEW m \in Mutation, Act(t, m) PROVE CacheInv'
<1> DEFINE r == [m |-> m, at |-> "sent", seen |-> 0]
<1>1. r \in TapType /\ r.m = m /\ r.seen = 0 BY DEF TapType
<1>2. server \in [Endpoint -> Nat] /\ server[From[Hook[m].row]] \in Nat BY HooksFit DEF CacheInv, CacheTypes
<1>3. taps' = [taps EXCEPT ![t] = r] /\ UNCHANGED <<server, query, memo, owed>> BY DEF Act
<1> HIDE DEF r
<1>4. \A e \in Endpoint : server'[e] >= server[e] BY <1>2, <1>3
<1>5. r.m \in Mutation /\ r.seen <= server'[From[Hook[r.m].row]] BY <1>1, <1>2, <1>3
<1>. QED BY <1>1, <1>2, <1>3, <1>4, <1>5, TapStep

LEMMA StepTakeEffect == ASSUME CacheInv, NEW t \in Tap, TakeEffect(t) PROVE CacheInv'
<1>1. taps[t] \in TapType /\ taps[t].m \in Mutation BY DEF TakeEffect, CacheInv, SeenFits, CacheTypes
<1>2. Target(t) \in Endpoint BY <1>1, HooksFit DEF Target
<1>3. /\ server' \in [Endpoint -> Nat] /\ \A e \in Endpoint : server'[e] >= server[e]
      /\ server'[Target(t)] = server[Target(t)] + 1 /\ server[Target(t)] \in Nat
  BY <1>2 DEF TakeEffect, CacheInv, CacheTypes
<1> DEFINE n == server[Target(t)] + 1  r == [taps[t] EXCEPT !.at = "done", !.seen = n]
<1>5. taps' = [taps EXCEPT ![t] = r] /\ UNCHANGED <<query, memo, owed>> BY DEF TakeEffect
<1>n. n \in Nat BY <1>3
<1> HIDE DEF n
<1>4. r \in TapType /\ r.m = taps[t].m /\ r.seen = n BY <1>1, <1>n DEF TapType
<1> USE DEF n
<1> HIDE DEF r
<1>6. r.seen <= server'[From[Hook[r.m].row]] BY <1>3, <1>4 DEF Target
<1>. QED BY <1>1, <1>3, <1>4, <1>5, <1>6, TapStep

LEMMA StepRefuse == ASSUME CacheInv, NEW t \in Tap, Refuse(t) PROVE CacheInv'
<1>1. taps[t] \in TapType /\ taps[t].m \in Mutation BY DEF Refuse, CacheInv, SeenFits, CacheTypes
<1>2. Target(t) \in Endpoint BY <1>1, HooksFit DEF Target
<1>3. /\ server' = server /\ server \in [Endpoint -> Nat] /\ \A e \in Endpoint : server'[e] >= server[e]
      /\ server[Target(t)] \in Nat
  BY <1>2 DEF Refuse, CacheInv, CacheTypes
<1> DEFINE r == [taps[t] EXCEPT !.at = "refused", !.seen = server[Target(t)]]
<1>4. r \in TapType /\ r.m = taps[t].m /\ r.seen = server[Target(t)] BY <1>1, <1>3 DEF TapType
<1>5. taps' = [taps EXCEPT ![t] = r] /\ UNCHANGED <<query, memo, owed>> BY DEF Refuse
<1> HIDE DEF r
<1>6. r.seen <= server'[From[Hook[r.m].row]] BY <1>3, <1>4 DEF Target
<1>. QED BY <1>1, <1>3, <1>4, <1>5, <1>6, TapStep

LEMMA StepLoseAnswer == ASSUME CacheInv, NEW t \in Tap, LoseAnswer(t) PROVE CacheInv'
<1>1. taps[t] \in TapType BY DEF CacheInv, CacheTypes
<1>2. server' = server /\ server \in [Endpoint -> Nat] /\ \A e \in Endpoint : server'[e] >= server[e] /\ server'[e] \in Nat
  BY DEF LoseAnswer, CacheInv, CacheTypes
<1> DEFINE r == [taps[t] EXCEPT !.at = "refused"]
<1>3. r \in TapType /\ r.m = taps[t].m /\ r.seen = taps[t].seen BY <1>1 DEF TapType
<1>4. taps' = [taps EXCEPT ![t] = r] /\ UNCHANGED <<query, memo, owed>> /\ taps[t].at # "no" BY DEF LoseAnswer
<1> HIDE DEF r
<1>5. r.m \in Mutation /\ r.seen <= server'[From[Hook[r.m].row]] BY <1>2, <1>3, <1>4, SeenStays DEF Target
<1>. QED BY <1>2, <1>3, <1>4, <1>5, TapStep

LEMMA StepWriteElsewhere == ASSUME CacheInv, NEW e \in Endpoint, WriteElsewhere(e) PROVE CacheInv'
<1>1. /\ server' \in [Endpoint -> Nat] /\ \A d \in Endpoint : server'[d] >= server[d] /\ server'[d] \in Nat
      /\ UNCHANGED <<query, memo, owed, taps>>
  BY DEF WriteElsewhere, CacheInv, CacheTypes
<1>2. SeenFits' BY <1>1, SeenStays DEF SeenFits, Target
<1>. QED BY <1>1, <1>2, ServerStep DEF CacheInv, CacheTypes

\* The answer is in: what is owed now is marked, or fetched anew, or dropped.
LEMMA StepSettle == ASSUME CacheInv, NEW t \in Tap, Settle(t) PROVE CacheInv'
<1> DEFINE h == Hook[taps[t].m]
           ks == IF taps[t].at = "done" \/ h.settled THEN h.hits \cap Key ELSE {}
           marked == [k \in Key |-> IF k \in ks THEN [query[k] EXCEPT !.stale = TRUE] ELSE query[k]]
           due(k) == k \in h.hits /\ Promised(t) /\ ~Joined(k) /\ taps[t].seen > owed[k]
<1>1. /\ taps[t].at \in {"done", "refused"} /\ Start(marked, Dropped(t), Refetched(ks), Retries)
      /\ owed' = [k \in Key |-> IF due(k) THEN taps[t].seen ELSE owed[k]]
      /\ taps' = [taps EXCEPT ![t] = Idle] /\ UNCHANGED server
  BY DEF Settle
<1>2. taps[t] \in TapType /\ taps[t].m \in Mutation /\ taps[t].seen \in Nat /\ taps[t].seen <= server[Target(t)]
  BY <1>1 DEF CacheInv, CacheTypes, SeenFits, TapType
<1>3. /\ Target(t) \in Endpoint /\ \A k \in h.hits : From[k] = Target(t)
      /\ h.settled \in BOOLEAN /\ (taps[t].m # "pause" => h.settled /\ Target(t) \notin Memoised)
  BY <1>2, HooksFit DEF Target
<1>4. owed' \in [Key -> Nat] BY <1>1, <1>2 DEF CacheInv, CacheTypes
<1>5. OwedFits' BY <1>1, <1>2, <1>3 DEF CacheInv, OwedFits
<1>6. \A k \in Key : due(k) => k \in ks BY <1>3 DEF Promised
<1>7. ASSUME NEW e \in Memoised
      PROVE  /\ Dropped(t)[e] \in Memo /\ Dropped(t)[e].flight = memo[e].flight /\ Dropped(t)[e].got = memo[e].got
             /\ Dropped(t)[e].value = IF taps[t].at = "done" /\ e = Target(t) THEN 0 ELSE memo[e].value
  <2>1. memo[e] \in Memo BY DEF CacheInv, CacheTypes
  <2>2. Dropped(t)[e] = IF taps[t].at = "done" /\ e = Target(t) THEN [memo[e] EXCEPT !.value = 0] ELSE memo[e]
    BY DEF Dropped
  <2>. QED BY <2>1, <2>2 DEF Memo
<1>8. Dropped(t) \in [Memoised -> Memo] BY <1>7 DEF Dropped
<1>9. ASSUME NEW k \in Key
      PROVE  /\ marked[k] \in Entry /\ marked[k].data = query[k].data /\ marked[k].load = query[k].load
             /\ marked[k].got = query[k].got /\ (k \in ks => marked[k].stale) /\ (k \notin ks => marked[k] = query[k])
  <2>1. query[k] \in Entry BY DEF CacheInv, CacheTypes
  <2>2. marked[k] = IF k \in ks THEN [query[k] EXCEPT !.stale = TRUE] ELSE query[k] OBVIOUS
  <2> HIDE DEF marked
  <2>. QED BY <2>1, <2>2 DEF Entry
<1>10. marked \in [Key -> Entry] BY <1>9
<1> HIDE DEF marked
<1>11. Fresh(Dropped(t), owed')
  <2>. SUFFICES ASSUME NEW e \in Memoised, NEW k \in Key, From[k] = e
               PROVE  /\ Dropped(t)[e].value # 0 => Dropped(t)[e].value >= owed'[k]
                      /\ Dropped(t)[e].flight = "read" => Dropped(t)[e].got >= owed'[k]
    BY DEF Fresh
  <2>1. CASE due(k)
    <3>1. e = Target(t) /\ taps[t].at = "done" BY <2>1, <1>3 DEF Promised
    <3>2. memo[e].flight # "read" BY <2>1 DEF Joined, Shared
    <3>. QED BY <3>1, <3>2, <1>7
  <2>2. CASE ~due(k) BY <2>2, <1>1, <1>7 DEF CacheInv, Fresh
  <2>. QED BY <2>1, <2>2
<1>12. ASSUME NEW k \in Key PROVE marked[k].stale \/ marked[k].data >= owed'[k]
  <2>1. CASE k \in ks BY <2>1, <1>9
  <2>2. CASE k \notin ks
    <3>1. owed'[k] = owed[k] BY <2>2, <1>1, <1>6
    <3>. QED BY <2>2, <3>1, <1>9 DEF CacheInv, Good
  <2>. QED BY <2>1, <2>2
<1>13. ASSUME NEW k \in Key \ Refetched(ks) PROVE Good(marked[k], k, Dropped(t), owed')
  <2>1. Good(query[k], k, memo, owed) BY DEF CacheInv
  <2>2. marked[k].load = "read" => marked[k].got >= owed'[k]
    <3>1. CASE due(k)
      <4>1. query[k].load # "read" BY <3>1, <1>6 DEF Joined, Busy, Refetched
      <4>. QED BY <4>1, <1>9
    <3>2. CASE ~due(k) BY <3>2, <2>1, <1>1, <1>9 DEF Good
    <3>. QED BY <3>1, <3>2
  <2>3. marked[k].load = "shared" => Shared(k) /\ Dropped(t)[From[k]].flight # "no" BY <2>1, <1>7, <1>9 DEF Good, Shared
  <2>4. marked[k].load \in {"asked", "read"} => ~Shared(k) BY <2>1, <1>9 DEF Good
  <2>. QED BY <1>12, <2>2, <2>3, <2>4 DEF Good
<1>14. Refetched(ks) \in SUBSET Key BY DEF Refetched
<1>15. /\ query' \in [Key -> Entry] /\ memo' \in [Memoised -> Memo]
       /\ Fresh(memo', owed') /\ \A k \in Key : Good(query'[k], k, memo', owed')
  BY <1>1, <1>4, <1>8, <1>10, <1>11, <1>12, <1>13, <1>14, RetriesFit, StartKeeps
<1>16. taps' \in [Tap -> TapType] BY <1>1 DEF CacheInv, CacheTypes, Idle, TapType
<1>17. SeenFits' BY <1>1 DEF CacheInv, SeenFits, CacheTypes, Idle, Target
<1>. QED BY <1>1, <1>4, <1>5, <1>15, <1>16, <1>17 DEF CacheInv, CacheTypes

LEMMA CacheInvariant == Spec => []CacheInv
<1>1. Init => CacheInv
  BY KeysFit DEF Init, CacheInv, CacheTypes, SeenFits, OwedFits, Good, Fresh, NoEntry, NoFlight, Idle, Entry, Load, Memo,
     TapType, Memoised, Endpoint
<1>2. CacheInv /\ [Next]_vars => CacheInv'
  <2>. SUFFICES ASSUME CacheInv, [Next]_vars PROVE CacheInv'
    OBVIOUS
  <2>1. CASE \E p \in Page : Navigate(p) BY <2>1, StepNavigate
  <2>2. CASE Poll BY <2>2, StepPoll
  <2>3. CASE Network BY <2>3, StepServe, StepArrive, StepRetry DEF Network
  <2>4. CASE Promises BY <2>4, StepServeShared, StepArriveShared DEF Promises
  <2>5. CASE Losses BY <2>5, StepFail, StepFailShared, StepLoseAnswer DEF Losses
  <2>6. CASE \E e \in Memoised : Expire(e) BY <2>6, StepExpire
  <2>7. CASE \E t \in Tap, m \in Mutation : Act(t, m) BY <2>7, StepAct
  <2>8. CASE \E t \in Tap : TakeEffect(t) \/ Refuse(t) \/ Settle(t) BY <2>8, StepTakeEffect, StepRefuse, StepSettle
  <2>9. CASE \E e \in Endpoint : WriteElsewhere(e) BY <2>9, StepWriteElsewhere
  <2>10. CASE UNCHANGED vars
    BY <2>10 DEF vars, CacheInv, CacheTypes, SeenFits, OwedFits, Good, Fresh, Shared, Target
  <2>. QED BY <2>1, <2>2, <2>3, <2>4, <2>5, <2>6, <2>7, <2>8, <2>9, <2>10 DEF Next
<1>. QED BY <1>1, <1>2, PTL DEF Spec

(* The settle hooks of the web client keep their promise: a list at rest    *)
(* shows what its own actions came to, whichever pages were left, however   *)
(* many mutations overlap and whatever was lost.                            *)
THEOREM OwnWritesAreShown == Spec => []OwnWriteShown
<1>1. CacheInv => OwnWriteShown BY DEF CacheInv, Good, OwnWriteShown
<1>. QED BY <1>1, CacheInvariant, PTL
=============================================================================
