# Verification of the execution core of Agent Studio

Agent Studio runs agents, applications and workflows for organisations. All of
them become *Runs*: rows of a durable queue in a relational database
(PostgreSQL on servers, SQLite on the desktop), claimed by worker processes
under leases, driven by events and steered by user commands. That queue,
`backend/modules/execution`, is what everything else rests on, and it is what
this project models, with the two parts that lean on it hardest: the service
through which all processes of a desktop share one SQLite file
(`backend/core/sqlite_service`), and the index of a knowledge base, which Runs
build (`backend/apps/knowledge`). The modules are TLA+, checked with TLC on
small instances; the theorems in `*_proofs.tla` are checked by TLAPS for every
instance.

Paths below are relative to `src/backend/modules/execution` unless they start
with `src/`, `apps/` or `core/`; the last two are under `src/backend`.

## 1. The system and its hard parts

### Components

| Component | State | Operations | Talks to |
|---|---|---|---|
| Run lifecycle (`models.py`, `application/runs.py`, `live.py`, `reaper.py`, `infrastructure/claim.py`) | rows `runs`, `run_attempts`, `run_leases`, `run_queue_entries` | create, claim, finish, fail, suspend for input or children, live input, reap, expire, wake parent | called by commands, coordinator, reaper; wakes parents in post-commit callbacks |
| Run commands (`application/commands.py`) | `run_commands`, `idempotency_records` | answer, grant/deny, approve/revise, steer, cancel and its cascade | locks and updates the Run row |
| Coordinator (`infrastructure/coordinator.py`) | child processes, message and control queues, heartbeat times, slots | claim, renew, deliver controls, persist messages, cancel with a grace period, maintenance | lifecycle operations, child processes |
| Child runtime (`runtime/child.py`) | one adapter process | emit events, ask for input, wait for children, finish | queues to the coordinator |
| Workflow and supervisor executors (`runtime/builtin.py`, `runtime/supervisor.py`) | checkpoint, child Runs | create or load child Runs, suspend on them, forward answers, cancel them | `create_run`, `submit_run_command` |
| Event log and stream (`application/event_retention.py`, `api/streaming.py`, `src/frontend/src/services/runStream.ts`, `src/frontend/src/entities/run`) | `run_events` with a sequence per Run, snapshots, client cursor | append, fold, compact, stream, resume, reset | every lifecycle transaction appends |
| Starting Runs (`application/start_runs.py`) | idempotency records | start from a catalog deployment, replay, retry | `create_run`; on the desktop through the SQLite service |
| SQLite service (`core/sqlite_service`) | the file, sessions, the turn of the one open transaction | connect, execute, commit, roll back, time out, stop | every process of the desktop |
| Knowledge index (`apps/knowledge`) | a document's row, its chunks, a lexical and a vector index | index, index again, publish a new content, delete, search | `create_run`; its executor writes the tables from a child process |
| Projections (`application/projections.py`) | conversation messages | project terminal and input events | inside the lifecycle transactions |
| Artifacts (`infrastructure/artifacts.py`) | blobs and rows | persist, record, delete on failure | coordinator |
| Catalog, tenancy, platform API, automations, remote access, conversations, enterprise, agent engine, product CRUD, packaged applications | see `PROJECT.json` | | |

`PROJECT.json` lists every component with its files and status, and under
`hazards` the places where this code is hard to test.

### What is hard

* **Two databases, two isolation levels.** On SQLite a write transaction is
  serialized. On PostgreSQL it is read committed: a handler is atomic with
  respect to the row it locked first, and what it reads *without* a lock may
  change before it commits. All handlers lock the Run row first, with one
  exception that matters: `suspend_attempt_for_children` reads the rows of the
  children.
* **Zombies.** A worker whose lease ran out goes on until it notices. Every
  write of a worker is fenced by token, epoch, current attempt and expiry. What
  a *child process* writes by itself is not: the executors of workflows and
  supervisors create and cancel child Runs, and the index executor writes its
  tables, while their attempt may be lost.
* **Post-commit callbacks.** A parent is woken after the child's transaction has
  committed, in the child's worker. A crash in between loses the wake-up.
* **Cascades.** A cancel spreads to the children in further transactions, one
  child at a time, after the parent's has committed.
* **Two ways to wait for input.** An adapter either suspends (checkpoint, its
  process ends, the answer resumes a new attempt) or is *live* (it keeps process
  and lease, and the answer goes to the same process). The rows look alike.
* **Two copies of the truth.** The queue entry mirrors "queued and unowned", and
  clients compute the status by folding events rather than reading the row.
* **Decisions and effects apart.** The service loop reads a status, then
  finishes by it; hands over a command, then marks it consumed; stores a
  message, then forgets it. A locked SQLite file, a lost lease or a stop can
  come between.
* **Unknown outcomes.** A reply of the SQLite service may be lost after the
  commit; the caller comes back while its old session may still hold the turn.
* **State that lives in one attempt.** A plan, an announcement, or the command
  an attempt was resumed with is gone with the attempt, while the child Runs
  it created remain.
* **Stale rows.** A document is indexed again from a row that was read without a
  lock, and a revision number is what keeps its index Runs apart.

### What makes each component correct

* Lifecycle: one owner; only legal transitions; exact queue index; a bounded
  number of failures; no retry of what may have used an authorization; a
  cancelled or orphaned Run ends; a suspended parent wakes.
* Commands: a decision reaches the attempt that asked, once; a steer reaches
  only the attempt it was written for; a cancel reaches every child.
* Event log: the fold agrees with the row; gap-free sequences; compaction
  invisible to a client; a stream ends when the Run does.
* Coordinator: nothing persisted twice or after a lost lease; commands handed
  over once; an accepted cancel decides; no starvation.
* Starting Runs: one Run per request, however often replies are lost.
* SQLite service: transactions do not overlap; the turn always comes back.
* Executors: only due and approved work is started; outcomes are told once and
  truly; a result is whole.
* Knowledge index: a search finds the content the document has; nothing comes
  back after a deletion; a document does not wait for ever.

## 2. Modules

| Module | Content |
|---|---|
| `RunStates` | statuses, `ALLOWED_TRANSITIONS`, the events and their fold `Project` |
| `RunProtocol` | abstract specification of one Run: status, owner, epoch |
| `RunLifecycle` | the queue in full: state, actions, fairness, properties |
| `RunLifecycle_proofs` | inductive invariant and the safety invariants |
| `RunGuarantees_proofs` | classification of steps; refinement, fencing, bounded failures; parents and children |
| `RunAnswers_proofs` | answers reach the attempt that asked |
| `Coordinator`, `Coordinator_proofs` | the worker: its loop, its child processes and their queues |
| `EventStream`, `EventStream_proofs` | the event log of a Run, its compaction, the SSE loop and the browser that follows it |
| `DataService` | the SQLite service: sessions, turns, transactions, lost replies |
| `StartRuns`, `StartRuns_proofs` | the requests that create Runs, as clients of `DataService` |
| `RootRun` | a root Run as an executor sees it: attempts, messages, children |
| `Workflow`, `Supervisor` | the two executors, each on top of `RootRun` |
| `Orchestration`, `Orchestration_proofs` | `RootRun` with either executor; the properties of both |
| `KnowledgeIndex`, `KnowledgeIndex_proofs` | a document and the Runs that index it |
| `MC*` | instances for TLC |

The modules look at the same queue from different sides. `RunLifecycle` takes
each handler as one transaction and lets a worker call it at any moment;
`Coordinator` is the program that makes those calls. Both implement
`RunProtocol`, which is what they share: `RunLifecycle` with all kinds of Runs,
parents and answers, `Coordinator` with one access at a time. `RunLifecycle` and
`EventStream` meet in the event log: the first says *which* event each
transaction appends and that their fold gives the status, the second takes
events of a few representative kinds and follows them to the screen. `RootRun`
and `KnowledgeIndex` keep only so much of the queue as their processes can
notice: attempts that are lost and whose processes go on.

### State of `RunLifecycle`

| Variable | In the code |
|---|---|
| `status`, `current`, `retrySafe` | `Run.status`, `current_attempt`, `retry_safe` |
| `claims` | `attempt_count` = `next_lease_epoch` = version of the newest lease |
| `attempts`, `lease` | `RunAttempt.status`; `RunLease` held / past `expires_at` / `released_at` set |
| `pending`, `overdue` | `pending_input_request_id` (as the attempt that asked), `pending_input_expires_at <= now` |
| `queue` | Runs with a `RunQueueEntry` |
| `shown` | status given by `apply_projection_event` over the events so far |
| `inbox`, `handed` | unconsumed `RunCommand`s; those consumed, with the attempt that got them |
| `alive` | worker processes |
| `wakes` | registered `wake_waiting_parent` callbacks that have not run |
| `cascading`, `doomed` | cancels whose cascade has not read / not yet cancelled the children |
| `scan` | a suspension that has read its children and not committed |

Only `handed` is history; the rest is in the database or in flight. Time is
abstract: `LeaseExpires` and `InputOverdue` are the moments a deadline passes,
and renewal is the absence of `LeaseExpires`.

### Actions

| Action | Code |
|---|---|
| `CreateRun` | `create_run`, and for children `_create_or_load_step_run` |
| `Claim` | `_claim_locked_run` under either `_claim_postgresql` or `_claim_sqlite` |
| `Finish`, `Fail` | `finish_attempt`, `fail_attempt` |
| `SuspendForInput` | `suspend_attempt_for_input` |
| `SuspendForChildren`; `ReadChildren` + `CommitSuspension` | `suspend_attempt_for_children` on SQLite; on PostgreSQL |
| `LiveRequest`, `LiveResolved` | the two halves of `live_input` |
| `DeliverControls`, `WorkerStops`, `WorkerCrashes` | `_service_child`, lost lease, death or shutdown of a worker |
| `WakeWaitingParent` | `wake_waiting_parent` |
| `Answer`, `Steer`, `Cancel` | the branches of `_submit_run_command_once` |
| `CascadeRead`, `CascadeCancel`, `CascadeRefused`, `CascadeLost` | the loop after a cancel, and its two early ends |
| `LeaseExpires`, `Reap`, `InputOverdue`, `ExpireInput` | expiry, `_reap_one`, expiry, `_expire_input_request` |

A call whose fence fails raises `LeaseLost` and changes nothing, so it is no
action. `AfterFailure` is written once for the two places that compute it.

### `EventStream`

| Variable | In the code |
|---|---|
| `log` | kinds of all events ever appended; `next_event_sequence` is its length |
| `rows` | sequence numbers in `run_events` |
| `through`, `saved` | `RunEventSnapshot.through_sequence`, `projection` |
| `server`, `sent` | the generator `stream_run_events` and its `cursor` |
| `wire` | events sent and not yet accepted |
| `phase` | where the loop of `streamRunEvents` (`src/frontend/src/services/runStream.ts`) is |
| `cursor`, `pending` | `currentCursor` and `pending` of `RunEventSequencer` |
| `problem` | `snapshot_through_sequence` of the 410 being handled |
| `view` | the projection the page shows |
| `faults`, `ideal` | a bound, and the history that `ViewIsFold` compares with |

| Action | Code |
|---|---|
| `AppendEvent` | `append_event_and_transition` and the handlers that write events; after the end only `mirror_child_output_event` |
| `Compact` | `compact_run_events` |
| `Load` | one turn of `stream_run_events` that finds events |
| `Connect` | the request for the stream, answered by a stream or a 410 |
| `Receive`, `FillGap` | `RunEventSequencer.accept` up to the fetch of a page; the page and the rest |
| `Recover` | `recoverCompactedHistory` |
| `Fault`, `Retry` | any lost connection or failed request; the end of the delay |

### `Coordinator`

| Variables | In the code |
|---|---|
| `vendor`; `status`, `current`, `claims`, `lease`, `attempt` | the configured database; rows of the Run, its leases and attempts |
| `steers`, `inbox`, `requested` | steering commands accepted, those not consumed; Runs with an accepted cancel |
| `up`, `mishaps` | the worker process runs; a bound |
| `at` | where the service loop is, what it has read (`saw`), how many messages the pass may still persist, the commands it has selected |
| `active`, `stopping`, `unsaved`, `settled`, `patience`, `gone`, `handing` | `_active`, `cancel_event`, `pending_message`, `terminal_received`, the timers behind `cancel_requested_at` and `exited_at`, `delivered_control_id` |
| `proc`, `sent`, `taken`, `applied`, `last`, `given` | the child process; messages it emitted, the worker took, the database holds; the kind of the last one; commands on its control queue |

| Action | Code |
|---|---|
| `Submit`, `Claim`, `StartChild`, `StartFails`, `StartFailsLate` | `create_run`; `_claim_available`; `_start_claimed` and its failure |
| `BeginPass`, `Renew`, `PollAfterRenewal` | the head of `_service_child`: a heartbeat if due, then the status |
| `ReadControls`, `Consume` | the loop over `RunCommand`s |
| `Take`, `StopDraining` | the drain, its limit per pass, the end of the cancel grace |
| `PersistEvent`, `ReadStatus`, `PersistLast`, `PersistIllegal`, `PersistFenced` | `_persist_pending_message`, `_finish`, and the two exceptions they raise |
| `Enforce`, `Exit` | a child that did not stop, a child that is dead |
| `PatienceEnds`, `ExitGraceEnds` | time passes |
| `Busy` | SQLite is locked: the step rolls back and the pass is put off |
| `Stop`, `Restart`, `Crashes` | the worker process |
| `Emit`, `Conclude`, `ChildEnds` | the adapter in its child process |
| `Cancel`, `SteerRun`, `Answer`, `LeaseExpires`, `Reap` | users, time, the reaper |

Messages are numbered modulo `Ring`, so that a child may emit for ever in
finitely many states. `CutShort` also occurs *after* a commit, in a callback.

`PersistIllegal` is worth knowing: on PostgreSQL a cancel that commits between
`ReadStatus` and `finish_attempt` makes the latter raise `InvalidRunTransition`,
which the loop does not handle. The worker ends and takes its other children
with it; the Run itself is then cancelled by the reaper.

### `DataService` and `StartRuns`

| Variables | In the code |
|---|---|
| `owner`, `waiters` | `TransactionScheduler.owner`, `.waiters` |
| `handler`, `inside` | the thread of a session; its connection is in a transaction |
| `durable`, `working` | the tables as committed, and as a transaction sees them |
| `link`, `request`, `reply` | the transport and what is on it |
| `wants`, `pc`, `conn`, `tries`, `after`, `answer` | a caller: its request, its next statement, its connection, `retry_no`, where a rollback leads, the Run it was told |

| Action | Code |
|---|---|
| `Receive`, `Admit`, `GiveUp` | reading a statement, `TransactionScheduler.acquire` and its timeout |
| `Execute` | `dispatch`, the release of the turn, the reply |
| `Hangup`, `IdleTimeout` | the two ways a session ends, with its `finally` block |
| `Stop`, `Start` | the service process |
| `Connect`, `Send`, `Read`, `Drop` | `client.py` and the transport |
| `Submit`, `Ask`, `Reads` (`ReadBusy`, `ReadCheck`, `ReadInside`, `ReadEnd`), `Loses` | the request functions of `start_runs.py`, one statement at a time |

The four kinds of request differ in what they do after the begin: an agent
request writes at once, a workflow looks again for its record, a supervisor
looks for an active Run of the conversation, an application looks again and is
the only one that retries. A submission takes a connection of its own, as a
request handled by another thread or process does.

### `RootRun`, `Workflow`, `Supervisor`

| Variables | In the code |
|---|---|
| `executor`, `status`, `attempt`, `leased`, `losses` | `executor_key`, the root's row, whether its newest attempt is open, a bound |
| `checkpoint`, `command` | the checkpoint of the newest suspended attempt, the command not yet consumed |
| `child`, `work` | child Runs by `node_key`, and the target they were created for |
| `stored`, `outbox` | outcome events of the root; messages of an attempt not yet persisted |
| `proc` | local variables of the executor in each attempt |
| `result` | what the root's output reports as done |
| `unmet`, `reused` | the steps whose condition is not met; `initial_results`, the steps done in an ended Run that this one repeats |
| `revisions`, `approved`, `ignored` | a bound and two histories |

`RootRun` has the environment: `Claim`, `Lose`, the five `Persist…` actions,
`Answer`, `Cancel`, `ChildMoves`, `Wake`. `Workflow` has the steps of
`_execute_workflow_durable` (`ForwardResume`, `ReadRuns`, `Layer`, `CreateStep`,
`StopWaiting`, `Collect`, `EndLayer`), `Supervisor` those of
`execute_supervisor` (`MakePlan`, `TakeCommand`, `ForwardCommand`,
`ReadResults`, `AskForChild`, `Replan`, `Proceed`, `CreateTask`) and what the
user says to a plan (`Reply`). A process takes these steps whether or not its
attempt is still open; only its messages are dropped when it is not.

### `KnowledgeIndex`

| Variables | In the code |
|---|---|
| `content`, `status`, `active`, `pending`, `indexing` | the row of the document; contents are numbered |
| `chunks`, `rows` | `KnowledgeChunk`s, and the lexical and vector index |
| `created`, `revision`, `state`, `attempts`, `proc` | the index Runs, the revision in their snapshot, the processes of their attempts |
| `loaded`, `removal` | what a reindex request has read; how far a deletion is |
| `spoiled`, `stale`, `faults` | histories that the property excepts by name; a bound |

| Action | Code |
|---|---|
| `LoadDocument`, `Reindex` | the view that reads the document; `reindex_document` |
| `Publish` | `_publish`: a new content |
| `MarkDeleted`, `DropIndex` | the deletion |
| `Claim`, `Persist`, `Lose`, `Cancel`, `Terminate` | the queue |
| `Start`, `Store`, `Drop`, `Undo`, `Record` | `execute_knowledge_index`, one access at a time |

Three things the model makes visible are what the code does, not what a document
denies: a process that fails after its commit was reported as failed removes the
chunks its own Run had stored (`spoiled`); an attempt that fails clears
`pending_revision`, so that its retry finds itself superseded and the Run
succeeds while the document is `failed`; and a Run cancelled in the queue leaves
its document `pending`. The comment at `apps/knowledge/services.py:97`, that no
revision is used twice, holds unless a request works on a stale row (`stale`).

### Abstractions

* A Run's attempts, its lease epochs and the requests it makes are all numbered
  by `claims`, since the code increments `attempt_count` and `next_lease_epoch`
  together and nowhere else, and an attempt has at most one request pending.
* In `RunLifecycle` every interactive command is an `"answer"`; its kind and
  payload are checked against the request by guards that do not depend on other
  state. `Coordinator` has steers and cancels only; its Runs are safe to retry.
* `Live` says which adapters keep their process. An adapter of that kind never
  suspends and never waits for children, and only such an adapter announces
  `can_steer`.
* Version numbers, event sequences, usage, messages and output are left out.
* `RunLifecycle` takes `_finish` as one step; `Coordinator` has its two.
* Trees have two levels, as the executors build them.
* In `EventStream` a row never changes, so buffers and messages hold sequence
  numbers and look the event up in `log`. The projection keeps the output, the
  output of children and whether the Run is over; these are the parts that
  accumulate, hence the parts that a lost, repeated or reordered event damages.
* An event may be compacted as soon as its Run is over: the retention time of
  the caller is any time. `include_active`, which no caller sets, is false.
* The keep-alives, the choice between notification and polling, and the check
  of access rights per batch do not change what is sent and are left out.
* In `DataService` every transaction is begun as `IMMEDIATE`, which is what the
  client does; cursors, savepoints, the handshake and the lock on the file are
  left out. A Run is named by the session that created it.
* A step's condition is evaluated anew in every attempt from an input and
  results that are fixed; the model fixes its value at the start (`unmet`).
* A workflow starts with every step to do, or as `retry_step`
  (`apps/workflows/views.py`) leaves an ended Run: the steps that need not run
  again, and succeeded there, are `reused`. They have no child Run of this root,
  count as results from the start, and are announced as completed by the first
  attempt that gets so far. The ended Run itself is not modelled: `reused` is
  any set of steps outside some set that `retry_step` runs again, which has
  with every step those that depend on it (`RunAgain`).
* The planner is a language model: it answers with any plan that passes validation,
  or with none.
* Forwarding an answer reads the child's *current* request; it has no effect on
  a child that does not wait.
* A deletion drops chunks and index rows in one step, since nobody stores
  anything in between, and the progress that the index executor writes before it
  stores is part of `Store`. Deletion of a whole base, ranking, duplicates and
  metadata are left out.

## 3. What is checked

All runs explore every interleaving of the actions within these bounds.

| Run | Instance | Shows |
|---|---|---|
| `tree` | workflow + child, 2 attempts that may fail, 3 claims each, PostgreSQL, every disturbance but slow workers | `TypeOK`, `QueueMatches`, `OneOwner`, `PendingInputConsistent`, `ViewAgrees`, `AnswersReachTheAsker`, `RetryBudget`, and that it implements `RunProtocol` |
| `live_run` | one live Run, 3 claims, crashes, slow workers, expiring input | `AttemptsAreFenced`, `NoUnsafeRetry`; `CancelCompletes` and `LostWorkerIsReplaced` under fairness |
| `parents` | workflow + live child, 2 claims, SQLite, nothing fails | `ParentWakeable`, `CascadeReachesChildren`, `ParentResumes` |
| `worker` | one Run, 2 attempts, either database, a queue of one message, one mishap, 2 steers on SQLite | `TypeOK`, `ExactlyOnce`, `CancelDecides`, `SlotsHoldProcesses`, `NoEarlyGiveUp`, `ControlsHandedOnce`, that it implements `RunProtocol`, and `CancelEnds` under fairness |
| `requests` | two callers, one of which comes back, 6 scenarios of kinds and conflicting keys, 2 sessions at once, one fault, 2 tries | `TypeOK`, `SerialTransactions`, `OneRunEach`; `TurnComesBack` under fairness |
| `orchestration` | workflow of 3 steps with a join and a condition, run in full or again from any step, 4 attempts; supervisor with 2 targets, 3 plans, a revision and a replan, 5 attempts; one lost attempt | `TypeOK`, `OnlyDueWork`, `AnnouncedOnce`, `WholeResult` |
| `documents` | 3 index Runs of 2 attempts, 2 contents, one request that may be stale, 2 faults, SQLite | `TypeOK`, `IndexFollowsDocument`; `Settles` under fairness |
| `stream` | 4 events of 5 kinds, batches and pages of 2, one fault | `TypeOK`, `SnapshotMeetsRows`, `ViewIsFold`, `GapsAreCompacted`, `RecoveryGoesForward`; `LearnsTheEnd` under fairness |
| `lost_wakeup` | as `parents`, PostgreSQL | `ParentWakeable` is violated |
| `stray_steer` | one live Run | `SteerReachesOnlyItsAttempt` is violated |
| `partial_cascade` | workflow + two children | `CascadeReachesChildren` is violated |
| `task_output` | 3 events, a supervisor's child writes output | `ViewIsFold` is violated |

**Bounds.** Three claims with two allowed failures let a Run suspend, be
answered, fail, be retried and be lost: every order of two attempt endings of
different kinds, and one attempt that must be refused. A workflow with one child
is the smallest tree in which a worker, a user, a callback and the reaper meet
on a parent; a second child is needed only for the order within a cascade. Slow
workers are left out of `tree`, where they multiply the states, and are in
`live_run`; the row invariants of `tree` hold for live Runs and with all
disturbances by the theorems below.

In `worker`, the messages of one attempt fill the queue and go round, and the
second attempt follows a lost, failed or suspended one. With one slot the worker
has to remove the child of a lost attempt before it claims the successor; a
second slot, which lets the two share the worker, takes more than five minutes
and is left to the theorems, which hold for any number of slots. One mishap
is enough, because what a mishap leaves behind (an unsaved message, a command
handed over and not consumed, an expired lease) meets every later step. There
are no steers on PostgreSQL, where no pass is cut short between handing a
command over and consuming it. In `requests`, two callers meet in every order,
and the one that returns meets its own old session; the second try of an
application reaches the limit. (An application is tried again also when somebody
else has taken its key; while transactions are serial, the second look finds
that record first.) In `orchestration`, the join with a condition
needs three steps, any of which may be reused from an earlier Run; four attempts
let each layer suspend and one attempt be lost.
The supervisor has a plan, its revision and a replan, which is every way to a
new version, and its plans differ in tasks and in targets. In `documents`, three
Runs give a late process of the first two something to damage. Two
faults use up the attempts of a Run. In `stream`, four
events with batches of two give a stream that is cut by compaction in the middle
of a batch, a snapshot that is replaced while a client recovers to it, and an
event after the one that ends the Run; a gap needs three events.

**Deadlock** is not checked: a Run that is over, or has used up its attempts,
has no further step, nor has a client that has seen the end of its Run, a caller
that has its answer, or a document that is indexed. Where something must go on,
a liveness property says so.

**Fairness of `RunLifecycle`.** Weak fairness of: `Claim`, because `run_forever`
polls the queue; `CommitSuspension`, because a transaction commits;
`ExpireInput` and `Reap`, because `_maintain` runs every five seconds on some
coordinator; `LeaseExpires` of a *dead* worker, because time passes;
`WakeWaitingParent` and the cascade, because a callback and a loop go on unless
their process died (the crash actions disable them); and `Finish(cancelled)`
while the Run is cancelling, because the coordinator terminates a child that
does not end within `cancel_grace_seconds`, which `CancelEnds` of `Coordinator`
confirms. Nothing is assumed of users, or of a worker whose Run is not being
cancelled: it may take for ever.

**Fairness of the others.** *Coordinator*: the loop goes on with the step it is
at, a stopped worker is started again, timers run, a process exits after its
last message, and a lease that nobody renews expires (weak); every child gets
its pass, and an expired lease is reaped (strong, because the loop is away from
its idle point in between and `tick` goes through all children). Nothing is
assumed of an adapter: `CancelEnds` holds of one that emits for ever.
*DataService*: its threads run and its timeouts pass; nothing is assumed of
callers. *KnowledgeIndex*: the Run that the document waits for is claimed, the
process of its open attempt goes on and its last message is persisted; nothing
is assumed of other Runs, of lost processes or of users. *EventStream*: `Load`, because the loop polls the database twice a
second, and the client, because its requests end, with an answer or an error,
and its delays are timers. Nothing makes a Run end, and nothing makes the
retention job run.

**Exceptions, by name.** Six properties name a case in which the code does not
do what one would wish, so that the rest can be checked:

* `LearnsTheEnd` excepts `Outrun`: when *all* rows that an open stream still has
  to send are compacted, the loop finds no further event and only sends
  keep-alives; the 410 is given when a stream is opened, not while it is open. If
  some rows are left, the client sees the gap and recovers (`GapsAreCompacted`).
  The retention time makes this rare. The property covers a Run that ends by an
  expired input; its stream is never closed by the server, since `input.expired`
  is not one of its `TERMINAL_EVENT_TYPES`, but the page shows the end.
* `OnlyDueWork` excepts `ignored`: the command an attempt was resumed with is
  consumed when the attempt is claimed; if that attempt ends without a proposal,
  its retry resumes from the checkpoint without the command. A user's revision
  is then forgotten and the plan that was sent back is run.
* `WholeResult` excepts `Strays`: a replan that is applied without an approval is
  saved with the next suspension only. If the attempt is lost after it created
  children, the retry makes another plan of the same version and counts the
  children of the lost one among its results.
* `AnnouncedOnce` does not count `workflow.step.failed`: every retry of the root
  that finds the failed child Run announces its failure again
  (`runtime/builtin.py:499`), truly but not once. Starts are not in it either.
* `IndexFollowsDocument` excepts `stale` and `spoiled`, and `Settles` a cancelled
  or failed Run, as told above.
* `ParentWakeable` and `CascadeReachesChildren` hold while nothing fails and
  transactions are serialized, which is what `parents` shows; the theorems say
  how much of that each of them needs (`WakesAreSafe`, `CancelsAreSafe`). Besides
  `lost_wakeup`, a parent is not woken when its child is ended by the reaper, by
  an expired input or by a direct cancel (hazard at `application/reaper.py:94`).

`OnlyDueWork` speaks of what is due, not of when: a workflow process that has
not noticed the cancel of its root can still create a child after the cascade,
and nothing cancels that child.

The four violation runs are disagreements between the code and what its
documents say; they are quoted in `PROJECT.json` under `findings`.

**Mutants.** Each property of a passing run is violated when one definition is
replaced by a mutated form (kept next to it in the module), such as a lease that
is not released, a failure that is not counted, or a turn that is not given
back.

## 4. What is proved

For every value of the constants: every set of Runs, every tree `Parent`, every
bound, either database or isolation, every set of disturbances, every workflow,
team and planner, any number of callers. The theorems assume what the modules'
named assumptions say of their constants: that bounds are natural numbers,
positive where zero makes no sense, that a root's parent is not a Run, that a
team has finitely many tasks, and that the markers for "nothing" are not values
of the sets they stand next to. Four theorems assume more, because without it
what they say is false; their assumptions are discussed below.

Every invariant and every action property without fairness that a run checks is
a theorem.

| Theorem | Module | States |
|---|---|---|
| `Invariance` | `RunLifecycle_proofs` | the inductive invariant `IInv` |
| `TypeCorrect`, `QueueCorrect`, `OwnerCorrect`, `PendingInputCorrect`, `ViewCorrect` | `RunLifecycle_proofs` | `TypeOK`, `QueueMatches`, `OneOwner`, `PendingInputConsistent`, `ViewAgrees` |
| `Implementation` | `RunGuarantees_proofs` | `ImplementsProtocol`: the queue implements `RunProtocol` |
| `Fencing` | `RunGuarantees_proofs` | `AttemptsAreFenced` |
| `NeverRetriedUnsafely` | `RunGuarantees_proofs` | `NoUnsafeRetry` |
| `BoundedFailures` | `RunGuarantees_proofs` | `RetryBudget` |
| `ParentsAreWoken` | `RunGuarantees_proofs` | `ParentWakeable`, from `WakesAreSafe` |
| `CancelsReachChildren` | `RunGuarantees_proofs` | `ReachedOrOutrun`, for any number of children, from `CancelsAreSafe`: no dying API handler, late child, expiring question or live parent |
| `OnlyChildIsReached` | `RunGuarantees_proofs` | `CascadeReachesChildren`, from `CancelsAreSafe` and at most one child per Run |
| `AnswersCorrect` | `RunAnswers_proofs` | `AnswersReachTheAsker` |
| `Invariance` | `Coordinator_proofs` | the inductive invariant `IInv` |
| `TypeCorrect` | `Coordinator_proofs` | `TypeOK` |
| `MessagesOnce`, `CancelCorrect`, `SlotsCorrect` | `Coordinator_proofs` | `ExactlyOnce`, `CancelDecides`, `SlotsHoldProcesses` |
| `ExitsCorrect` | `Coordinator_proofs` | `NoEarlyGiveUp` |
| `ControlsCorrect` | `Coordinator_proofs` | `ControlsHandedOnce`, for steers, the only commands its queue holds |
| `WorkerImplements` | `Coordinator_proofs` | `ImplementsProtocol`: the worker implements `RunProtocol` |
| `TypeCorrect`, `TransactionsAreSerial`, `OneRunForARequest` | `StartRuns_proofs` | `TypeOK`, `SerialTransactions`, `OneRunEach` |
| `TypeCorrect`, `OnlyDueWorkIsDone`, `ResultCorrect`, `AnnouncementsCorrect` | `Orchestration_proofs` | `TypeOK`, `OnlyDueWork`, `WholeResult`, `AnnouncedOnce` |
| `TypeCorrect`, `CompactionCorrect`, `RecoveryCorrect`, `GapsCorrect` | `EventStream_proofs` | `TypeOK`, `SnapshotMeetsRows`, `RecoveryGoesForward`, `GapsAreCompacted` |
| `ViewCorrect` | `EventStream_proofs` | `ViewIsFold`, from `SameFold` |
| `TypeCorrect`, `SearchIsCorrect` | `KnowledgeIndex_proofs` | `TypeOK`, `IndexFollowsDocument` |

**The queue.** None of the five row invariants is inductive by itself. Whether
the queue index is right after a suspension depends on who owns the Run, so
`QueueMatches` needs `OneOwner`; whether an answer leaves a Run running or
queued depends on whether the pending request is of an owner or of a checkpoint,
so they need `PendingInputConsistent`. Three facts are added that no run checks
by name: `SuspensionOpen` (a suspension transaction that has read its children
still finds its Run as it locked it), `NoneBeyondClaims` (no row exists for an
attempt that was not claimed, so that a claim cannot overwrite one) and
`CallbacksToParents` (a callback is registered only for a Run that has a
parent). There is a lemma per action that `IInv` survives it, with a step per
conjunct; actions that write no row of a Run share `RowsUntouched`.

**Step kinds.** The results of `RunGuarantees_proofs` would each need another
walk over all actions. Instead `StepKinds` classifies every step once by what it
does to the row of a Run: nothing, `Born`, `Taken` by a new attempt, `Turned` to
another status with the same owner, or `Ended`, which says what became of the
attempt and its lease. The refinement maps these kinds to `Create`, `Start`,
`Advance` / `Move` and `Release` of `RunProtocol`; fencing reads off `Taken` and
`Ended`; the budget counts the failed attempts, a finite set that only `Ended`
enlarges, by one, with the status `AfterFailure` gives; and a Run that is over
or being cancelled stays so, because a status changes only as
`ALLOWED_TRANSITIONS` says (`OnlyAllowed`).

**Parents and children.** Both promises are false in general, as the runs
`lost_wakeup` and `partial_cascade` show, so the theorems name what has to be
excluded, and nothing else is: on the small instances, allowing any one of the
excluded things again violates the property.

* `WakesAreSafe`: no process dies and no lease expires under a live worker (the
  callback is lost, or the reaper ends the child and wakes nobody), no question
  expires and no user cancels a child directly (neither wakes the parent), and a
  suspension is one step, as on SQLite. Dying API handlers and children that are
  started late are allowed. The invariant `Wakeable` adds that a lease that is
  not released is held by a live process (`LeasesAreLive`), so that the reaper
  finds nothing, and that only a Run that is cancelling or cancelled has a
  cascade (`Cascades`), so that a child that is cancelled with its parent leaves
  nobody waiting.
* `CancelsAreSafe`: no API handler dies in the middle of a cascade, no question
  of the parent expires (the parent is then cancelled without one), no child is
  started late, and no Run with children keeps its process for input (its worker
  could end it as cancelled without a cascade). Dying workers, lost leases, both
  isolation levels and direct cancels are allowed. The invariant
  `CancelsUnderWay` says where a cancel stands from its acceptance on: the
  children have yet to be read, or one of them has ended on its own, which ends
  the loop, or each is reached or in the loop's hands. With more than one child
  the second case is the flaw that `partial_cascade` shows;
  `CancelsReachChildren` says that it is the only one.

**Answers.** `RunAnswers_proofs` strengthens `AnswersReachTheAsker` by the
reason it holds: the two mechanisms that hand out answers never compete. A Run
that keeps its process becomes unsafe to retry with its first request, hence is
never queued again and no claim ever takes its answers; any other Run has no
owner while an answer waits for it, and the claim that gives it one takes all
there are. Most steps are `Calm` for this argument, five are not.

**The worker.** `IInv` of `Coordinator_proofs` joins `ExactlyOnce` with
`LastInHand` (while a message is being persisted it is the one in the loop's
hands), the slots (a job is in `active`, or the loop is starting it) and
`Owned`, which ties the row of the Run to its accepted cancel and to the
attempts that may hold it. A cancel read too late is refused by
`ALLOWED_TRANSITIONS`, not by the fence, and `CancelDecides` rests on that.
`ExitsCorrect` has an invariant of its own, `Patient`: the child being served is
one of the worker's and is not settled (`Serving`); the time since its exit runs
for a dead child only (`Buried`); when the loop comes to the exit of a child it
found dead before, that child's queue has been emptied since (`Emptied`); and a
last message that was taken has been stored, which settles the child
(`LastStored`).

**Commands of the worker.** `ControlsHandedOnce` compares a child's control queue
with the commands that are not yet consumed, of which the loop works on a
selection it read earlier. `Commanded` relates the three: what a child was given
lies before what is not consumed, except for the one command that is being
handed over, which may be the last one given and the first one not consumed at
the same time (`Handed`); the commands still to do are the older part of those
not consumed (`Consuming`), so that a steer accepted meanwhile cannot be
overtaken; and the one being handed over is the oldest of those to do. `Bounded`
adds what the types need: the counters stay in their bounds, and a message is
only persisted while the pass may.

**Starting Runs.** The invariant says what each caller may rely on at each
point: `Turn` (who is inside has the turn), `Unused` (a new session starts
clean), `Based` (a transaction has all committed records, since nobody else can
commit meanwhile), `Complete` (committed
records and Runs belong together), and for each caller what its statements,
replies and answers imply of the tables. The queue of tickets is typed by an
invariant of its own, `Queue`: a session is in it exactly once while its thread
waits, which is why the ticket a session removes on its way out is its own.

**Executors.** For a workflow it says that the results a process works with are
reused or true of the child Runs, of which none goes back from an end; for a supervisor,
that the targets in any checkpoint or process are approved, or a revision was
forgotten. `BoundInv` adds where plans come from: the version of a plan is at
most one more than the revisions and replans before it, which keeps versions in
their bound, and every task that a process or a message holds for done has a
child Run that succeeded, or one that strayed there from a lost attempt.
`WholeResult` follows when the output is persisted.

`AnnouncedOnce` is about announcements that are stored; to be inductive it needs
those of the current attempt that are still to be. `AnnouncedInv` counts both: what is pending is
true, is new, and is pending once (`Truthful`, `New`), a workflow's process
knows exactly the steps announced, stored or pending (`Tracks`), and it succeeds
behind all its steps (`Finishing`). What an older attempt has pending is dropped
with it, and the next one reads what is stored before it announces anything
(`Unread`).

**Index.** Revisions grow from Run to Run unless a stale request was used
(`Numbered`); the active revision is stored whole, made of the content the
document has, unless a process has removed it (`Stored`); a process that still
may store has extracted the content the document has (`Fresh`), because a
publication leaves it waiting for another Run; after a deletion no process finds
the document waiting (`Removed`).

**Event log.** Rows, snapshot and recovery share the invariant `IInv` of
`EventStream_proofs`: the snapshot is a prefix of the log, the rows are the
rest, and no client was sent further than the snapshot goes, since `through`
never decreases. A step of the server or the client is a `ReaderStep`: it does
not start a recovery, or starts one from a cursor that a 410 was given for.

What a client holds are numbers of the log (`Held`), and it has `NoSilentGap`: between two numbers that follow each other on the wire nothing is
missing but what was compacted, and an event is held back only behind a gap that
was compacted. `GapsAreCompacted` follows. On top of that `Folded` and `Agree`
say that the client's view and the server's snapshot are folds of prefixes of
the log. `SameFold`, that no supervisor task streams its output, is what
`ViewCorrect` assumes: the folds of server and client differ on that event, which
is what the run `task_output` shows.

Folds and sorted pages are defined by recursion over data, which the library's
induction theorems do not reach here. Two detours do: the smallest element of a
set of numbers exists because the strict subset order on finite sets is well
founded (`FS_StrictSubsetOrderingWellFounded`, `WFMin`), and a claim about all
numbers up to a bound is proved by looking at the smallest counterexample. With
that, `FoldLeft` over a page is shown to visit the events of the page one by one
(the walks of `EventStream_proofs`), and the oldest command of the worker exists.

**Only model-checked.** The liveness properties `CancelCompletes`,
`LostWorkerIsReplaced`, `ParentResumes`, `CancelEnds`, `TurnComesBack`,
`Settles` and `LearnsTheEnd`: TLAPS does not reason about fairness and
`ENABLED`. The runs that expect a violation have nothing to prove.

## 5. Not modelled, and why

The product is large, some 95,000 lines, and most of it is forms over single
rows, adapters and examples. This project covers the parts that have a protocol.

Of the execution module:

* **Row locks on PostgreSQL.** A transaction is one step, or two where it reads
  without a lock, so lock order and deadlocks (claim and cancel, reaper and
  finish, listed under `hazards`) have no state here. A deadlock is broken by the
  database with an error in one of the two; a worker does not handle it there
  and ends, which `Stop` covers.
* **Replay of commands.** `submit_run_command` finds an earlier command by its
  key as the requests of `StartRuns` do; only the latter are modelled. The
  PostgreSQL path of starting a Run differs in that transactions overlap and the
  unique constraint alone decides; it is not modelled.
* **Clocks.** Compaction picks a batch by `created_at`; with clocks that differ
  between hosts the batch may have holes, and the code raises. Time is abstract.
* **Artifacts and projections.** Object storage and conversation messages are
  written next to the Runs and read by no other component of the core.
* **HTTP and permissions.** Parsing, access rights and row-level security have
  no state machine; the operations they guard are modelled.

Of the rest:

* The catalog, products, projects, templates, marketplace, users, conversations,
  governance and the packaged applications are CRUD over rows, one transaction
  each.
* What adapters and model providers compute is a free choice of the child
  process.
* Automations start Runs by a row per trigger under a lock, and then as
  `StartRuns` does. Remote access relays requests over websockets and keeps
  nothing.
* The deletion of a whole knowledge base, its ranking and its answers.
