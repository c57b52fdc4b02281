# Verification of my-crew

my-crew runs teams of LLM agents.  A *team task* is a plan of steps, each
assigned to one agent; a *coordinator tick*, started by a minute cadence and by
pokes, polls the steps, rules on the stuck ones, dispatches the ready ones to
detached worker processes, and concludes the task.  Plans are drafted, confirmed
and amended by the CEO, risky actions wait for an approval, and everything that
happens is posted into rooms that a web client follows over SSE and turns into
chat threads, office desks and lists with buttons.

On the server all state is in SQLite, in a few side files, and in the operating
system (processes, one flock).  Nothing holds the state in memory from one tick
or request to the next, so everything that makes it correct is in guarded
`UPDATE`s, in the order of commits, and in what a process may conclude from rows
it read some time ago.  In the client it is the reverse: all state is in
memory, in caches that several mounts share, and what makes it correct is how
late answers, re-mounts and reconnects meet.

This directory holds TLA+ models of both, TLC configurations that check them,
and TLAPS proofs about them.  Paths below are relative to the repository;
`nodes/` stands for `src/my_crew/agent/coordinator_nodes/`, `runtime/` for
`src/my_crew/runtime/`, `agent/` for `src/my_crew/agent/`, `actions/` for
`src/my_crew/actions/` and `web/` for `src/web/src/`.

## 1. The system

### Components that the models cover

| Component | State | Operations | Talks to | What is hard | Correct when |
|---|---|---|---|---|---|
| Step rows and lease, `runtime/team_task_steps.py` | `team_steps`: status, attempt id, child pid, lease, outcome, intervention count | reserve, record spawn, heartbeat, terminal writes, reset, drop, coordinator write, halt | called by tick, worker, CEO | every caller holds a snapshot; a worker may outlive its lease | one completion per lease; dropped stays dropped; a step starts only on finished inputs |
| Task store, `runtime/team_task_store.py` | `team_tasks`: status, summary, delivery, counters | set status, set delivery, reopen, cancel, list | all | status writes without a guard | a done task is complete |
| Coordinator tick, `agent/coordinator_graph.py`, `nodes/tick_actions.py` | none between ticks | poll, dispatch, aggregate, dead end | store, worker processes, room | acts on a snapshot; LLM calls and spawns between read and write | no overlap, no overtaking, no stuck task |
| Ruling and self-resolution, `nodes/stuck_decision.py`, `nodes/self_resolve.py` | `intervention_count` | accept, retry, reassign, give up; write it oneself, skip | tick, LLM judge | the judge answers later than the row was read | bounded interventions; a skipped step never blocks |
| Tick process, `runtime/team_tick_runner.py` | flock, retry sidecar file | one tick, then the sweeps | cron and poke | overlap, crash anywhere, reused pids | one tick at a time |
| Worker process, `runtime/worker.py`, `runtime/team_step_runner.py` | its attempt id | verify lease, heartbeat, one terminal write | store | crash, zombie after timeout | a zombie cannot complete a step |
| Cancel brake, `runtime/team_task_halt.py` | none | reap the running steps of cancelled tasks | store, processes | cancel between claim and spawn | a cancelled task comes to rest |
| Conclusion and delivery, `nodes/stall_conclusion.py`, `runtime/delivery_retry_sweep.py` | summary, delivery status and attempts | persist, settle, post, record, re-send, alarm | room, escalation | a crash between two commits | told once it is done; never a false "delivered" |
| Autopilot ladder, `runtime/autopilot_sweep.py` | rung counter | retry, replan, accept, drop | handlers of `agent/ops_stalled_task.py` | stale filters | a stall does not wait for a human for ever |
| One-touch handlers, `agent/ops_stalled_task.py` | none | retry, drop, accept a stalled task | store | dead rows that come alive | the revived task is a fresh run |
| Plans, drafts and amendments, `agent/ops_assign_team_task.py`, `agent/ops_adjust_team_task.py`, `agent/team_task_amend_prompt.py`, `runtime/team_task_amend.py` | planning tasks, plan hash, `team_task_amendments` | preview, confirm, cancel; draft an amendment, confirm it, expire it | tick, composer, chat | a model call between reading a plan and drafting its change, while the tick starts its steps | the tick verifies exactly the plan that was confirmed |
| Assign composer, `web/features/shared/assign-composer.tsx`, `composer-queue.ts`, `preauth-card.tsx` | phase, brief, queue, scope picked | submit, queue, flush, confirm, cancel, edit, adjust, navigate | its routes | typing during a round trip, a lost answer, a page left | no draft is lost, no posture strays, what is queued is sent |
| Room store and stream, `runtime/office_room_store.py`, `src/my_crew/server/routes_office_stream.py` | `office_messages` with one seq over all rooms | append and mirror, prune, tail after a cursor | tick, workers, client | three cursors: `since_seq`, `tail`, `Last-Event-ID` | no row is skipped or sent twice |
| `useOfficeStream` and read cursors, `web/hooks/use-office-stream.ts` | module-level cache per room, mounts, `localStorage` | mount, message, error, mark read | stream, thread, desks | re-mounts, two mounts of a room, reconnects | the cache has no hole below its cursor |
| Chat thread and office desks, `web/features/chat/chat-state.ts`, `thread-folding.ts`, `web/features/office/office-3d/agent-office-state.ts` | folds over rows | apply one row | rows of ticks and workers | rows beside fenced writes, which are not fenced themselves | nothing vanishes, no desk lies |
| Action gateway and approvals, `actions/action_gateway.py`, `approval_store.py`, `dedup_store.py`, `approval_rule_store.py` | approvals, dedup keys, rules, daily slots | propose, enqueue, approve, reject, teach, revoke | agents, web, chat, command line | four stores, four commits, three kinds of caller | one decision, one effect, no rule nobody taught |
| Query and request caches, `web/api/queries/`, `web/lib/api-cache.ts` | query entries, promises in flight | fetch, invalidate, poll, mutate, leave a page | every list with buttons | an invalidation meets a read under way | a list shows what its own buttons came to |

### Components that are not modelled

| Component | Why |
|---|---|
| Review, rework and fan-out insertion (`nodes/review_insert.py`, `nodes/fanout_insert.py`) | the plan of `TeamTaskTick` is fixed and `PlanDrafts` inserts one review row; planned as `PlanGrowth` |
| Cost cap, headroom and starvation (`runtime/team_task_cost.py`, `_stall_if_cost_starved`) | planned as `CostGate` |
| Follow-up and advisor sweeps (`runtime/follow_up_sweep.py`) | a later candidate: escalation by cooldown, and an unguarded cancel |
| Clarify queue (`runtime/clarify_store.py`) | only its effect is modelled: a question is settled once, by an answer or by expiry |
| Task decomposition (`agent/task_decomposition.py`) | parsing and validation of an LLM's plan; candidate for pure operators. Its acyclic result is an assumption here; the plan hash itself is in `PlanDrafts` |
| Autonomy bands, reminders, watchers, scheduler | loops with their own small stores, which do not touch team tasks |
| Server application | authentication, static files and read-only routes; the transitions its other routes cause are actions of the models |
| 3D office and the other pages of the client | rendering of states the models compute, forms, texts (`i18n/`) and declarations of types; no state outlives a render or is shared. The built bundle under `src/my_crew/server/static/` is generated from them |
| Agent runtimes, tools, packs | LLM loops and adapters; the outcome of a run is a nondeterministic choice |

### How the parts interact

    minute cadence, poke -> tick process (flock) -> run_one_tick -> rows (snapshot)
        poll / rule / dispatch -> guarded UPDATE of a row
        dispatch               -> reserve_step, Popen(worker), record_spawn
        conclude               -> set_delivery, set_task_status, room post, set_delivery
        sweeps                 -> cancel reap, delivery retry, autopilot ladder
    worker -> verify_attempt, heartbeat..., one terminal write fenced by its attempt id
    CEO    -> cancel_task, one-touch handlers, answers, at any time
    composer -> preview / confirm / amend routes -> planning tasks, amendment drafts -> the rows a tick reads
    agent  -> gateway -> rule, ladder slot or approval row -> dedup key -> handler
    tick, worker, gateway -> append row (+ mirror row) -> SSE -> tab cache -> thread, desks, read cursors
    button -> mutation -> invalidate -> refetch (query cache over request cache)

On the server four kinds of process interleave: at most one tick (the others
skip their turn), any number of workers, the requests of the CEO and of agents,
and the clock that runs leases out.  The unit of atomicity is one SQL statement
(or one `BEGIN IMMEDIATE` block).  In a tab JavaScript runs one handler at a
time; what interleaves are answers, connections, effects and clicks.

The hazards this leaves are listed, line by line, in `PROJECT.json`; the
properties below are aimed at them.

## 2. The models

| Module | What it is |
|---|---|
| `TeamTaskTick` | One task: rows, ticks, workers, clock, CEO. The core |
| `StepLife` | What a step is to those who depend on it: the abstract specification `TeamTaskTick` implements |
| `MCTeamTaskTick` | Values of `Deps` for TLC: a chain, and independent steps |
| `TeamTaskTickProofs` | Types, order of the steps, control of the ticks, and that a done task is complete, proved |
| `TeamTaskAttemptProofs` | What becomes of attempts: leases, drops, the limit, the budget, the single worker, and the refinement of `StepLife`, proved |
| `TaskConclusion` | How a task is concluded, delivered, re-sent, revived; the autopilot ladder |
| `TaskConclusionProofs` | Its safety properties, proved |
| `PlanDrafts` | Plans and amendments of a running task: draft, supersede, confirm, expire, against the tick |
| `AssignComposer` | The client's composer on top of `PlanDrafts`, with the routes between them |
| `AssignComposerProofs` | The safety properties of both, proved |
| `OfficeStream` | Room store, SSE route and one tab: caches, mounts, read cursors |
| `RoomFeed` | What a room promises a reader: the abstract specification `OfficeStream` implements |
| `OfficeStreamProofs` | Its safety properties and the refinement, proved |
| `OfficeEvents`, `MCOfficeEvents` | The rows of ticks and workers, and the two folds over them: thread and desks |
| `OfficeEventsProofs` | Its safety properties, proved |
| `ApprovalGate`, `MCApprovalGate` | The gateway, approvals, dedup keys, ladder slots and standing rules |
| `ApprovalGateProofs` | Its safety properties, proved |
| `ClientCache` | The client's lists and their buttons: query cache, request cache, mutations |
| `ClientCacheProofs` | Its safety properties, proved |

They meet at what they share.  `TeamTaskTick` fixes the plan that `PlanDrafts`
changes; `PlanDrafts` keeps of a step what the plan hash and an amendment read.
`AssignComposer` extends `PlanDrafts`, so both run in one behaviour.
`OfficeEvents` posts the rows beside the writes of `TeamTaskTick`.  Its thread
folds each where it is posted, which is sound because of `WorkroomRowsArriveInOrder`
and `WorkroomHistoryComplete`, proved of `OfficeStream`; its desks read the overview,
of which `OfficeStream` promises no order, through streams of their own.  `ClientCache` shows the
data the other models write, as a version.

### `TeamTaskTick`

State and code:

| Variable | Code |
|---|---|
| `task` | `team_tasks.status` |
| `row[s]` | the row of step `s`. `attempt` and `pid` are 0 for `NULL`; attempt ids are numbered in the order they are minted; `pid` names the attempt whose process it is; `live` says the lease has not run out; `outcome` says `outcome_ref` is set; `everDone` is history |
| `minted[s]`, `worker[s][a]` | the attempts made, and the operating system process of each |
| `retries`, `interv` | the retry sidecar file, `intervention_count` |
| `answered`, `asked` | the settled questions, and how often a step has paused |
| `lock` | `team_tick.lock` |
| `pc`, `snap`, `todo`, `cur`, `slots` | the locals of a tick process: where it stands, the rows as it read them, what it has still to visit, the step in hand, the spawns still allowed |

A tick is a sequence of steps, each with at most one database write or one
effect on a process:

    TickBegin            flock, read the rows                     run_one_tick
    Poll*, SpendIntervention, Rule*                               _act_on_task, tick_actions, stuck_decision
    Dispatch, then Claim / RosterReject, Spawn, RecordSpawn       dispatch_ready_steps, reserve_and_spawn
    Aggregate, AggregateDone                                      aggregate_and_deliver
    DeadEnd, Resolve*, Conclude                                   _dead_end_result, try_self_resolve, conclude_task_failed
    Sweep                run_cancel_reap_sweep, free the flock
    TickCrash            at any point

Every decision (`AllDone`, `ReadyPendingSteps`, `FreeSlots`, `AtDeadEnd`,
`Skippable`) is evaluated on `snap`, every guard of an `UPDATE` (`SetStepStatus`,
`Claimable`, `Unmoved`, `ResetStepToPending`, ...) on `row`, as in the code.
Workers check their lease once, heartbeat without an attempt id, and write once.
`HumanSettles`, `CancelTask`, `RetryStalled`, `DropStalled`, `AcceptStalled` are
the people.

Coarser than the code, on purpose:

- Merged into one action: the kill and the mark of a timeout; the three steps of
  the reap (read, kill, halt), whose status guard makes each halt atomic; the
  row rewrites of one CEO handler with its `reopen_stalled`; the lease check
  with the poll that uses it.
- Giving up on a step writes the step (`ResolveNone`) and concludes the task
  (`Conclude`) as two actions; the commits inside `conclude_task_failed` and
  `aggregate_and_deliver` are the subject of `TaskConclusion`.
- A reassign is a retry: the assignee is data no property tells apart.
- A claim that is lost after `PollRetry` ends the tick, where the code goes on with
  the next rows.  It is lost only to a second tick, which the flock keeps away, so
  the difference shows only in the mutant without the flock.
- Process numbers can be reused: `LooksDead` and `MayLookAlive` overlap, so a
  gone worker may look alive (then only its lease can end it).
- `poll_awaiting_approval_step` is not an action: it needs an approval id on the
  row, which no path of the program writes (a known limit, section 3).
- Left out: costs, review and fan-out rows, the plan hash, the manual
  `team_task_move` action, and the follow-up sweep's cancel.

### `StepLife`

A step of the abstract specification waits, is leased, has paused, is judged,
dead, done or sealed; `granted` counts its attempts, `achieved` is what has ever
had a result, `atWork` the attempts whose process works.  It knows no ticks,
snapshots, pids, leases that run out, retry counters or statuses of the task.  The mapping:
`Phase` reads the status (a `done` row without an attempt id is sealed: it was
dropped, or nobody held it when the coordinator wrote it), `granted` is `minted`,
`achieved` are the rows that were done at some time, `atWork` the working processes.
What it promises, and several properties of `TeamTaskTick` each say a part of:

- a grant is a new attempt, on inputs that were achieved, never of a sealed step;
- only the latest attempt begins to work, and only while it holds the lease;
- a result, a pause or a question comes only from it, while it is at work, or
  from somebody who rules on a step that has stopped;
- nobody but the giver-up touches what runs, and nobody what is sealed.

It leaves open what the code leaves open: a result may be overwritten by a
failure, and a step given up for dead may still end (known limits, section 3).

### `TaskConclusion`

The other side of the conclusion: `summary`, `delivery`, `tries`, `rungs`,
`reopens` are columns of `team_tasks`; `room` and `alarms` are what the outside
has seen; `pc`, `verdict`, `landed` are the tick's locals.  The flock serializes
the ticks (`TeamTaskTick` models that), so one program counter stands for all.
The plan is reduced to the verdict the tick reaches.  A post lands or does not;
a crash comes between any two commits; the CEO revives or cancels at any point.
A verdict carries the run it belongs to (`reopen_count`), which is how a stale
summary is told from a fresh one.

### `PlanDrafts`

`tasks` are `team_tasks` with their `team_steps`, `drafts` are
`team_task_amendments`, `amending` the calls of `preview_adjust_team_task` that
wait for the model.  A hash *is* what `decomposition_content_hash` reads of the
rows, so equal hashes are equal plans and collisions are left out.  The `WHERE`
clauses and list comprehensions that pick rows of a plan are `Among`: the rows
at a set of places, in order (no `SelectSeq`, whose recursive definition the
provers cannot expand).  Of the
conditional flags one, `needs_mail`, is kept, since it is the one
`_amend_frozen_prefix` treats differently.  `confirm_amendment` with
`swap_pending_steps` is one transaction in the code and one action here.  The
tick is reduced to what touches a plan: verify the hash and reserve, finish,
insert a review row, reassign with a new hash.  Its read of the task (`store.get`,
two `SELECT`s, the task's hash and then the rows) is one read here; a confirm that
commits between the two is left out.

### `AssignComposer`

`phase`, `brief`, `lastBrief`, `queued`, `scope` are the component's state;
`room` its property; `request` and `cancels` the calls in flight, whose server
side (`Serve*`) and whose `then` or `catch` (`Answer`, `Fail`) are actions of
their own.  An effect runs right after the commit that asks for it, hence
`Idle`: no click comes between a phase that lets the queue flush and the flush.
`confirm_plan` and `set_preauth_scope`, two commits one after the other in one
route, are one action: no property looks between them.

### `OfficeStream` and `RoomFeed`

`log` is `office_messages`, its index the seq; `owed` the workroom rows whose
mirror row (a second insert, a second commit) is still to come.  `cache` is
`roomCache` of `use-office-stream.ts`, `stream[m]` a mount with its
`EventSource`, `read` the cursors in `localStorage`.  The chat page mounts one
stream, the office page two.  A row is delivered by one action (the route's poll,
the event, `onmessage`).  `Prune` forgets the lowest seqs; the code deletes by `ts`,
which rises with the seq as far as the clocks of its writers agree.  `RoomFeed`
knows rows sent, forgotten and held and a position per room; the mapping forgets
streams, mounts, the overview and its mirror rows.

### `OfficeEvents`

The tick's write and the row it appends beside it are two actions (`Dispatch`
then `AppendOwed`), the worker's likewise (`Write`, `Report`), with deaths
between.  A row goes into the workroom and then, in a second commit that may fail,
into the overview (`PostAndMirror`, `Mirror`).  `thread` is the result of folding
`applyEvent` over the workroom, in its order; `posted` counts its rows.

The office page folds the *overview*.  Its two streams (`pos`, for the floor and
the feed) push into one cache in the order the rows come (`Deliver`).  A cold
stream asks for a tail that starts anywhere, so with two of them an old row can
come after a newer one; a stream that comes back resumes after the highest row
cached (`Reopen`).  `cached` is what `deriveAgentDesks` makes of the cache, `desk`
what the floor shows of it.  A reload is a page opened later.  The field
`late` of a desk is history: it was turned red by a timeout row that came after a
newer row of its agent.  Consults, PIC badges, milestones, telemetry, titles and
the overview's rows that move no desk (the CEO's) are left out.

### `ApprovalGate`

One process per caller, one commit per action: `Propose` (match a rule, claim a
slot or enqueue), `Approve`/`Reject` (compare and set), `Claim`/`Deduplicate`
(insert or ignore the key), the handler, `Revert`, `Learn`.  `Enqueue` is one
action although a rule is matched before the row is inserted: a rule taught in
between leads to a row that waits, which proposing a moment earlier does too.
`Granted` is one action type, as slots are counted per type.  A row remembers who
won its decision and with which scope (`won`, taken back by `Revert`), a rule the
row and the process it is from; both are history, which no guard reads.  Every
call writes an audit record, which may fail.  After the handler that is an
outcome of its own (`RecordRaises`); the record of a duplicate that fails is
`Refuse`, and a rejection whose record fails teaches nothing, as with the
scope `once`.  Left out: autonomous mode and dry run, which queue nothing, and the
purge of old keys, after which an action counts as a new one.

### `ClientCache`

`query[k]` is an entry of the query library, which is external and modelled by
its documented behaviour under this program's options (`retry: 1`, or `false` for
the task's details; no refetch on focus); `memo` is `api-cache.ts` with the promise
it shares; `taps` are mutations under way, several of one hook included, since
each row has a mutation of its own.  A button is on the pages its hook names
(`on`), while the shell shows the same lists on every page.  The data of an
endpoint is a version; `Navigate` mounts and unmounts what a page shows.  `owed[k]`
remembers the version that the last invalidation promises.  Left out: the
`agents.status` and `team` keys that the roster's hooks invalidate too, which
go by plain requests that are not retried, and `useApplyTemplateUpgrade`, whose call does
not drop the roster's memo (a known limit, section 3).

## 3. What is checked

`tlc -config <run>.cfg <module>`; sizes are distinct states.

| Run | Instance | What it asks | States |
|---|---|---|---|
| `tick_chain` | two steps in a chain, two ticks, SelfDo on, roster drift, one revival, no tick crash | `TypeOK`, `StartedInOrder`, `DoneIsComplete`, `SingleWorker` | 945,632 |
| `tick_crash` | one step, two ticks, one tick crash, one pause, one revival | `AttemptBudget`, `CompletedByLeaseHolder`, `DroppedSticks`, `ImplementsStepLife` | 462,055 |
| `tick_parallel` | three independent steps, limit 2 | `ConcurrencyRespected` | 717,929 |
| `tick_live` | a chain of two, one intervention, one tick crash, fair | `OpenTaskSettles`, `CancelIsReaped` | 414,720 |
| `conclusion` | the code's caps of 3, one CEO revival, two crashes, fair | `TypeOK`, `DeliveredWasPosted`, `DoneHasAnswer`, `AlarmOnce`, `DoneIsTold`, `UntoldStallResolves` | 30,253 |
| `plan_drafts` | one running plan, two assignees, two amendments | `PlanVerifies`, `OneLiveDraft`, `StartedWorkKept` | 316,260 |
| `composer` | two texts, one failure or page left, three tasks, one amendment, fair | `NoOrphanDraft`, `ScopeIsOfThisPlan`, `OneRoundTrip`, `QueueDrains` | 290,756 |
| `office_stream` | a workroom and the overview, three rows, one pruned, one break or reload, fair | `TypeOK`, `WorkroomHistoryComplete`, `EveryRowOnce`, `WorkroomViewIsCache`, `WorkroomRowsArriveInOrder`, `ImplementsRoomFeed`, `OpenRoomIsRead` | 139,000 |
| `office_events` | two steps, two attempts, three rows, one death or lost mirror row, two streams of the office page | `NothingVanishes`, `NoFalseRedDesk` | 2,245,061 |
| `approval_gate` | two callers, two actions of one family, two rows, two errors, of a handler or of an audit record, one death | `OneEffect`, `RowHasOneDecision`, `NoKeyLeftBehind`, `RulesWereTaught` | 5,463,501 |
| `client_cache` | a list with its own query, one through the request cache, a polled one; two acts that may overlap, others' writes, one loss, fair | `OwnWriteShown`, `OwnWriteEventuallyShown` | 837,385 |
| `amend_mail` | as `plan_drafts` with a step that reads mail | `PlanVerifies`: violated | |

The passing runs together fire every action.  Each property of each has a
mutant in `PROJECT.json`: a definition of the model changed the way a bug would
change the code (a dropped fence, a dropped flock, one retry too many, a key kept
after an error, a cursor one too far), which the same run then refutes.

What the properties say:

- `StartedInOrder`: a step is claimed only once each of its inputs has been done
  at some time.  Readiness comes from a snapshot; in between rows are reset,
  dropped, timed out and revived.
- `DoneIsComplete`: the status `done` is written, unguarded, after an LLM call,
  on the strength of a snapshot; it holds because only a tick can take `done`
  away from a step and the flock excludes a second one.
- `SingleWorker`: never two working processes on one step.
- `CompletedByLeaseHolder`: whatever zombies are about, a running step is
  completed or paused only while the process its lease names is at work.
- `DroppedSticks`: a dropped step stays done, as its dependents were told.
- `ImplementsStepLife`: the life of a step as a refinement.  It adds to the three
  above that attempts are numbered in the order they are granted and a
  superseded one never begins, nor writes into the row of a later one.
- `AttemptBudget`: attempts are bounded by what was granted by rulings,
  revivals and pauses.
- `ConcurrencyRespected`: several spawns of one tick never exceed the limit.
- `OpenTaskSettles`, `CancelIsReaped`: no open task is left to sit; a cancelled
  one comes to rest.
- `DeliveredWasPosted`, `DoneHasAnswer`, `AlarmOnce`, `DoneIsTold`: the delivery
  columns tell the truth, a done task holds its own answer, the alarm comes at
  most once, and a done task is told or every attempt at it is spent.
- `UntoldStallResolves`: a stall whose note was not delivered is taken up by the
  ladder until it is resolved, dropped or the rungs are spent.
- `PlanVerifies`: whatever is amended, handed on or inserted, the next tick
  finds the plan it was told to expect; otherwise it stalls the task as tampered
  with.  It relates three computations of one hash: at the amendment's draft, at
  its confirmation, and in the tick.
- `OneLiveDraft`, `StartedWorkKept`: of two amendments only the last can be
  confirmed, and what was started since it was drafted survives.
- `NoOrphanDraft`: every planned task is on the card, on its way, being cancelled,
  or its request failed or its page was left.
- `ScopeIsOfThisPlan`: an approval posture picked on one card never reaches
  another task.
- `OneRoundTrip`, `QueueDrains`: no second answer overwrites a card; parked text
  is sent unless a decision or an error stands in its way.
- `WorkroomHistoryComplete`, `WorkroomRowsArriveInOrder`, `EveryRowOnce`,
  `WorkroomViewIsCache`: the cache of a workroom has no hole below the cursor from
  which a later mount resumes, is in order, counts no row twice, and is what the
  screens show.  The overview makes no such promise: it starts at the tail.
- `ImplementsRoomFeed`: the same as a refinement.  `OpenRoomIsRead`: what stays
  open gets read.
- `NothingVanishes`: the thread's folds stand for every row by class: the rows
  an item stands for, numbered within it, are as many as were posted;
  `NoFalseRedDesk`: a desk that follows the live attempt is not red, in whatever
  order the overview's rows come, unless an old timeout row came late.
- `OneEffect`: no action runs twice within the life of its key, whoever let it
  through.  `RowHasOneDecision`: neither web, chat nor a revert leaves a row
  with two, unless the audit record of its run failed.  `NoKeyLeftBehind`: no retry
  is swallowed as a duplicate of a failure.  `RulesWereTaught`: every standing rule
  is of a row that the very process which taught it decided, with the scope it
  teaches, and whose decision stands: a loser of a race teaches nothing.
- `OwnWriteShown`, `OwnWriteEventuallyShown`: a list at rest shows what its own
  buttons came to, and a list on display gets there.

### Where the code departs from its documentation

`amend_mail`: `_amend_frozen_prefix` rebuilds the rows under way without
`needs_mail`, against its own docstring, so confirming an amendment of a task
whose mail step has started binds a hash that the next tick cannot reproduce.
The finding in `PROJECT.json` quotes the text.

### Known limits of the code

Met while modelling; no text of the code promises otherwise, or the text is a
matter of reading.  The properties above are stated so as not to claim them.

Tick and conclusion:

- A worker's `done` is overwritten by the `failed` or `timeout` of a tick that
  read the row before: the attempt guard does not see a finish
  (`nodes/tick_actions.py:178`).
- A step whose worker finished and left after the tick's snapshot looks dead and
  is claimed again, and its work repeated: `reserve_step` guards the attempt id only
  (`runtime/team_task_steps.py:486`).
- A cancel that won is undone by the unguarded status write of a conclusion
  (`runtime/team_task_store.py:595`).
- A task stalls while a parallel step still runs (`nodes/stuck_decision.py:418`).
- A step that waits for an approval is never resumed: no path writes the id on
  its row (`runtime/team_step_runner.py:142`).
- A crash after the last delivery attempt is counted loses the alarm
  (`runtime/delivery_retry_sweep.py:51`); a delivered stall note keeps the
  ladder off the task (`runtime/autopilot_sweep.py:46`).
- `mark_failed` after spent retries posts no row.

Approvals:

- A death between the claim and the result leaves the row approved and the key
  reserved: a later identical action is deduplicated silently.  So is an
  approved row whose twin holds the key and then fails: it stays approved and
  has not run.
- A handler that takes effect and then raises gives its key back.
- When the audit record after the handler raises (`actions/action_gateway.py:508`),
  `approve` hands back a row that ran.  A second approval is deduplicated; a
  reject lands on a row that ran, which the docstring of `reject` rules out for
  races.
- Nothing asks whether an identical row waits already; the chat lets an approval
  carry the scope `deny`.

Stream, thread, desks:

- The office page without a room mounts two streams on the overview, which share
  one cache; `errored` is never cleared by a reconnect; a refused `EventSource`
  is not tried again.
- `?tail=N` counts seqs of all rooms; marking read on a switch from the overview
  to a workroom uses mirror rows before the room's own rows are loaded.
- `needs_decision` and `waiting_clarify` rows are folded into the step block.
  Handoff rows carry no attempt, so a zombie's reads like the live one's; review
  rows do carry one, which the desks do not look at.
- The row of a timeout names no attempt (`nodes/tick_actions.py:210`).  The office
  page takes the rows of the overview as its streams bring them and sorts
  nothing, so one that comes after the retry's phase row turns the desk of the
  retry red until its next row.
- A desk that has adopted a dead attempt's late phase row drops the phase rows of
  the live one, until a row without an attempt comes.
- The desk's counter of steps under way drifts when two steps of an agent run at
  once (`agent-office-state.ts:221`).

Composer and lists:

- Text queued in one room is sent to the room open when it is flushed; text
  flushed into an error is gone; an answer empties the field even if something
  was typed meanwhile; the draft of a page left stays `planning`.
- An invalidation does not reach a read under way in three cases: a promise of
  `api-cache.ts` in flight, an entry's first fetch, and the fetch of a list
  that is not on screen.  If the read was answered before the write, each may show
  the data from before until the next fetch; a promise of `api-cache.ts` moreover
  refills the entry that the write has just dropped, although the comment there
  (`web/lib/api-cache.ts:52`) calls the next read always fresh.  The hooks of the
  roster promise nothing after an error, and `useApplyTemplateUpgrade`
  (`web/api/queries/use-team-queries.ts:145`) invalidates the lists without dropping the
  entry below them.
- The SSE invalidation bridge (`web/api/queries/sse-invalidation-bridge.ts:58`) is called
  by no page, although a comment of `use-work-queries.ts` counts on it.
- Leaving a page and coming back enables a button whose action is still under
  way.

### Conditions under which a property holds

- `SingleWorker` is checked without tick crashes, and proved up to the first one.
  A tick that dies between the spawn and `record_spawn` leaves a running row
  without a pid; the next tick takes it for dead and spawns a second worker.
  What is claimed of crashes is `CompletedByLeaseHolder`.
- `DoneIsComplete` fails when `SelfDo` and a tick crash meet:
  `mark_done_by_coordinator` keeps the attempt id, so a worker the crash orphaned
  can write `failed` over the coordinator's result.  `tick_chain` checks it with
  `SelfDo` and no crash; it is proved for `~SelfDo` and any number of crashes
  (`DoneTaskIsComplete`), and with `SelfDo` up to the first crash
  (`DoneUntilCrash`).
- `ConcurrencyRespected` is checked, and proved, without pauses:
  `poll_waiting_clarify_step` claims its step without looking at the limit.  With
  them, the running steps that never paused still fit (`UnpausedStepsFit`).
- `AttemptBudget` is proved for a cap of at least one intervention (the code has
  two): a final deliverable is granted one whatever the cap, which a cap of
  zero would not count.
- `OpenTaskSettles` and `CancelIsReaped` are checked without pauses and without
  revivals, with one ruling per step; `OpenTaskSettles` excepts a step that waits for an approval
  (a known limit).
- `PlanVerifies` is checked in `plan_drafts`, and proved, without a mail step: with
  one it fails (`amend_mail`).
- `NoFalseRedDesk` is about agents with one step, and excepts the late timeout
  row above; `RowHasOneDecision` counts processes that died as gone and excepts a
  run whose audit record failed; `OwnWriteShown` excepts the three joins above of
  a read answered before the write, and `OwnWriteEventuallyShown` the list of a task's details,
  which is not retried; `OpenRoomIsRead` excepts a stream the server refused.

### Bounds

- `MaxAttempt` caps the attempt ids.  In every passing run it is at least the
  number that `AttemptBudget` allows there (8 against 8 in `tick_chain`, 9
  against 8 in `tick_crash`, 3 against 2 in `tick_parallel`, 4 against 4 in
  `tick_live`), so it cuts off no behaviour.
- `MaxStepRetries` is 1 (the code's value); `MaxInterventions` is 2 in
  `tick_chain` (the code's value), 1 or 0 where the ruling is not the subject; in
  `tick_live` 1, so that a ruling resets a step that has left a result.
- Two steps in a chain are the least with a dependency to overtake, a step to
  skip and a dead end; three independent steps with a limit of two are the least
  where one tick has more ready steps than slots.  Two tickers are the least
  that can overlap: the mutant that ignores the flock is refuted with them.
- `MaxReopen`, `MaxAsk` and `MaxCrash` are 1, in `conclusion` 2 crashes: one
  revival suffices to confuse two runs of a task, and two crashes to lose both
  a post and its retry.
- Not bounded: heartbeats, lease expiries, ticks, and the steps of workers.
- `office_stream`: a workroom beside the overview is the least where mirror rows
  and a second mount of the same room exist; three rows are the least with one
  pruned, one cached and one that comes while the connection is down.
- `plan_drafts`: two drafts are the least of which one supersedes the other; two
  assignees the least with a reassignment.  `composer`: three tasks, one of which
  runs at the start, so a second preview can meet the leftovers of the first.
- `office_events`: two attempts are the least with a zombie, two steps the least
  where rows of another step come between; three rows are the least where the row
  of a timeout, the retry's dispatch and its phase row can be delivered in every
  order.  Reviews, four rows and the outcomes `needs_decision` and
  `waiting_clarify` are covered by the theorems, not by the run.
- `approval_gate`: two callers and two rows of one action are the least with a
  race for the key and for a row, two errors allow a reverted row to fail again.
- `client_cache`: two acts and two taps are the least where two writes of one
  hook overlap, and the keys the least with a list of each kind; `MaxElse` lets
  others write while no version is above it.  The questions, the board and a
  task's page with their hooks are covered by the theorem.

### Fairness

`TeamTaskTick`: weak fairness of the ticks as a whole (the minute cadence starts
one for ever; which process it is does not matter), of each worker (it ends or
it dies), of each lease (time passes), and of the settling of a question (the
expiry sweep does it when the CEO does not).  A heartbeat is not fair: a process
may hang.  `TaskConclusion`: weak fairness of the tick alone.  Nothing obliges
the CEO to act or a post to land.

`OfficeStream`: the browser opens and reopens its connection and the route polls
every second (`WF` of `Open` and `Deliver` of each mount); nothing obliges a
writer, a mirror row or a page.  `AssignComposer`: routes answer, promises settle
and effects run.  `ClientCache`: requests are answered or lost, and answers are
handled; nothing obliges a poll or a button.

## 4. What is proved

TLAPS checks these for every plan, every number of tickers and every bound, from
the named assumptions of the modules (steps are positive numbers, the plan is
acyclic, constants have their types).  `tlapm <module>.tla` re-checks them.

| Theorem | Says | By |
|---|---|---|
| `TypeCorrect` | `Spec => []TypeOK` | `TypeInv` |
| `StepsStartInOrder` | `Spec => []StartedInOrder` | `OrderInv` |
| `DoneTaskIsComplete` | `Spec => []DoneIsComplete`, for `~SelfDo` | `TickInv`, `DoneInv` |
| `DoneUntilCrash`, `DoneWithoutCrash` | the same with `SelfDo`, until a tick crashes; and where none does | `WorkersInv` |
| `RunningStepsAreLeased` | `Spec => CompletedByLeaseHolder` | `TickInv` |
| `DroppedStaysDropped` | `Spec => DroppedSticks` | `DropInv` |
| `StepsLiveTheirLife` | `Spec => ImplementsStepLife`: every step is one of `StepLife` or a stutter | `TickInv`, `DropInv`, `LatestInv` |
| `UnpausedStepsFit`, `ConcurrencyIsRespected` | the limit holds for the steps that never paused; `Spec => []ConcurrencyRespected` where nothing pauses | `PlacesInv` |
| `AttemptsAreBudgeted` | `Spec => []AttemptBudget`, for `MaxInterventions # 0` | `BudgetInv` |
| `OneWorkerUntilCrash`, `OneWorkerAtATime` | `SingleWorker` until a tick crashes; and where none does | `WorkersInv` |
| `ConclusionTypes`, `DeliveriesArePosted`, `DoneTaskHasAnswer`, `AlarmIsRaisedOnce` | the safety properties of `TaskConclusion` | `ConclusionInv` |
| `StreamTypes`, `WorkroomHistoryIsComplete`, `RowsAreCountedOnce`, `WorkroomViewsAgree`, `WorkroomRowsInOrder` | the safety and order of what a tab caches | `IInv`, `Counted` |
| `StreamImplementsFeed` | `Spec => ImplementsRoomFeed`: every step is one of `RoomFeed` or a stutter | `IInv` |
| `ActionsRunOnce`, `RowsDecidedOnce`, `KeysAreReturned`, `RulesComeFromDecisions` | the safety properties of `ApprovalGate` | `GateInv` |
| `OwnWritesAreShown` | `Spec => []OwnWriteShown`, of `ClientCache` | `CacheInv` |
| `OneDraftIsLive` | `DraftSpec => []OneLiveDraft` | `DraftInv` |
| `PlansVerify` | `DraftSpec => []PlanVerifies`, for `~Mail` | `PlanInv` |
| `StartedWorkStays` | `DraftSpec => StartedWorkKept` | `DraftInv` |
| `NoDraftIsOrphaned`, `PosturesStay`, `OneRoundTripAtATime` | the safety properties of `AssignComposer` | `ComposerInv` |
| `NothingVanishesInTheFold` | `Spec => []NothingVanishes`, of `OfficeEvents` | `ThreadInv` |
| `DesksAreNotFalselyRed` | `Spec => []NoFalseRedDesk` | `DeskInv` |

- `TypeInv`.  `TypeOK` is not inductive: a ruling spends an intervention for
  `cur[t]`, which `TypeOK` allows to be 0.  Added: a tick that awaits a ruling
  has a step to rule on.
- `OrderInv`.  `StartedInOrder` speaks of `minted` and `everDone`; the claim reads
  the snapshot.  Added: what a snapshot shows done has been done; a row that shows
  a begun step has a minted attempt; and a step that a tick holds or has queued
  to claim was either begun or ready in the snapshot it read.
- `DoneInv`.  A tick that stands at `aggregate` must know that every row is
  still done, and so must a `done` task.  That needs the flock (a tick not idle
  holds it, and acts only on a task that is open or was cancelled under it), that
  what a snapshot shows done is done still, and the fencing: the attempt a done or
  judged row names has no process left.  A coordinator that writes results
  itself breaks the last part, hence `~SelfDo`.
- `TickInv` is `TypeInv`, `OrderInv` and `ControlInv`: which tick holds the flock, what
  each place of the program knows of the step in hand, and what of the snapshot
  still stands.  All results on attempts stand on it.  Two lemmas on it,
  `TickWrites` and `OtherWrites`, sort every write of a row by its writer, once
  for all of these results; with them `CompletedByLeaseHolder` needs no
  invariant of its own.
- `DropInv`: a tick that acts knows of every dropped step.  `DroppedSticks` is an
  action property that a stale snapshot would break: a step read as running,
  dropped since, and then marked `failed`.
- `LatestInv`: a row names the latest attempt or none, and one that waits names none.
  With `DropInv` it is what the refinement of `StepLife` needs beside `TickInv`: that
  the attempt which finds itself in the row is the one granted last, and that
  what a tick claims or gives up is not sealed.  `WriteLooks` says once, for every
  `UPDATE`, which phase the row enters; the rest is one step per action.
- `PlacesInv`: the steps that a dispatching tick's snapshot shows running,
  those it has claimed since and the places it has still set aside fit under the
  limit together.  The limit itself says nothing of a tick half way through
  its claims.
- `BudgetInv`: what a step must have left depends on its status, in the row and in
  the snapshot of a tick: a pending one a whole round of retries, a running
  one what its sidecar has not spent.  A tick that saw it pending claims on what
  it saw, so the snapshot needs a clause of its own for every place of the
  program.
- `WorkersInv`, up to the first crash: a process that lives holds the lease of a
  running row (`LiveInv`), whose pid names it once it is recorded (`PidInv`); what
  a tick is about to claim has no process, even though it judges by rows it read
  before (`SpawnInv`); and the attempt a row names was spawned (`StartedInv`).  The
  single worker is the first of these; none of them is inductive alone.

- `ConclusionInv` ties the program counter to the columns: the verdict a tick
  holds while it posts is the summary in the row; a post that landed is in the
  room; a tick that concludes works on a task that is not done and, for a done
  verdict, on the current run; and the alarm goes with the last attempt.

- `IInv` of the stream.  That the cache has no hole below its cursor depends on
  who delivers next: what a connection has received is in the cache or pruned
  (`Received`), a workroom's cache holds only its rows, up to its cursor
  (`SeenInLog`), and no two mounts are on one workroom (`OneReader`), so nobody
  moves the cursor past what another has still to deliver.
- `GateInv`: who is about a row holds an approval of it that nobody else holds
  (`HoldersFit`, `OneHolder`), and its name and scope are those the row was won
  with; so are those of who will teach (`TeachersDecided`), hence of every rule
  (`RulesStand`), and no other process can take a decision back; an execution that
  is recorded was of a row that stands (`RunsStand`), and every one has its key
  reserved (`KeysReserved`).
- `CacheInv`: an entry not marked stale either shows what it owes or is being
  fetched by a request that will read at least that (`Good`), the request cache
  holds nothing older (`Fresh`), and no version promised or seen exceeds the
  server's (`SeenFits`, `OwedFits`).

- `DraftInv`: the drafts are a sequence of rows with a task and a status, and
  two of one task are not both live; writing a draft closes the others first.
- `ComposerInv`: the composer is busy exactly while a request is under way
  (`Waits`); what may come back depends on what was asked (`IsRequest`: only a
  preview or a chat brings a card, so no card comes for a plan that was
  confirmed); no posture waits for a card that is still to come (`ScopeFits`); a
  confirm that was answered leaves no draft behind (`ConfirmsEnd`); with these,
  every draft has a holder (`Kept`).  `NoOrphanDraft` alone is not inductive: the
  answer to a confirm takes its holder away, and nothing in it says that the
  plan is no draft by then.

- `PlanInv`: the rows of every plan are well formed, one row per step id, and have
  the hash that was confirmed (`PlansFit`); a live draft carries hash, pending
  steps and amended plan of rows that were well formed, and its new step has a
  fresh id (`LiveDrafted`); a call that waits for the model holds such rows
  (`ReadsFit`).  That the hash bound at the confirmation is
  the one the tick recomputes then rests on three lemmas on `Among`: what picking
  rows keeps of a concatenation, of a change to a row that is not picked, and
  of the rows before and after a swap.

- `DeskInv`: a worker that ended does not hold a running row, its fenced write
  having taken effect or another attempt having the lease (`ProcsInv`); a row that can turn
  a desk red is a timeout's or names an attempt that holds nothing (`RowsInv`); a
  step does not run while the row of its timeout is owed or unmirrored
  (`TimeoutFirst`), so in the overview its timeouts precede the rows of its live
  attempt (`TimeoutBefore`); and a desk follows an attempt only when a row of it
  came (`Follows`).  A timeout row that finds the desk on the live attempt is then
  one that came after a newer row, which is what `late` says, whatever the order
  in which the streams delivered.
- `ThreadInv`: the items of the thread are a sequence, each stands for finitely
  many rows, and the sum by class is what was posted.  Folding a row into an
  item, extending the step block or starting a new item each add exactly one
  row of its class and move no other: numbering the rows within an item turns the
  sum into the size of a set, and a fold into one element more (no induction on
  the length of the thread).

Model-checked only: liveness under fairness, which is out of the prover's reach
(`OpenTaskSettles`, `CancelIsReaped`, `DoneIsTold`, `UntoldStallResolves`, `QueueDrains`,
`OpenRoomIsRead`, `OwnWriteEventuallyShown`).  Every invariant and every action
property that a run checks, but for `amend_mail`, is stated by a theorem.

## 5. Plan

Done: the models of section 2, their runs and theorems.  Next, in this order:

1. `PlanGrowth`: rows inserted while the plan runs (a review after a step, a
   rework after a review, a fan-out), and how the order, the dead end and the
   aggregate survive it.
2. `CostGate`: the hard stop, the derived headroom, the starved branch; whether
   a task that can still be paid for is ever stalled; the revival that a breached
   cap undoes.
3. `ClarifyQueue`: one settlement of a question against its expiry.
4. Pure operators of `task_decomposition`, against a reference definition.
5. The attention centre of the client: dismissals of two tabs in one
   `localStorage` entry.

Theorems still worth proving: a `SingleWorker` for crashes, that is, how many
processes a step can have after so many of them; and what survives of
`DoneIsComplete` when `SelfDo` and a crash meet.
