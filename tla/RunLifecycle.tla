---------------------------- MODULE RunLifecycle ----------------------------
(***************************************************************************)
(* The durable Run queue of backend/modules/execution.                     *)
(*                                                                         *)
(* The state is what the database holds about a Run (runs, run_attempts,   *)
(* run_leases, run_queue_entries, run_commands) together with what is in   *)
(* flight outside any transaction: the processes of attempts, the          *)
(* post-commit callbacks that wake a parent Run, and the loop by which an  *)
(* accepted cancel spreads to child Runs.  Each transaction is one action, *)
(* because every handler takes the row lock of the Run before it reads it. *)
(* The one exception is the suspension of a workflow on its children,      *)
(* which reads the child rows without locking them (ReadChildren).         *)
(*                                                                         *)
(* A Run has any number of attempts, numbered from 1; attempt n holds the  *)
(* lease of epoch n, since attempt_count and next_lease_epoch are only     *)
(* ever incremented together.  Time is abstract: LeaseExpires and          *)
(* InputOverdue are the moments expires_at passes.                         *)
(***************************************************************************)
EXTENDS Integers, FiniteSets, RunStates

CONSTANTS
  Run,           \* Run identities
  NoRun,         \* parent of a root Run
  Parent,        \* parent_id of every Run
  Live,          \* Runs whose adapter keeps its provider process alive for
                 \* input and steering; the others suspend on a checkpoint
  MaxAttempts,   \* max_attempts
  MaxClaims,     \* bound on the attempts explored per Run
  Isolation,     \* "serialized" (SQLite) or "read_committed" (PostgreSQL)
  Disturbances   \* what the environment may do, see DisturbanceKinds

\* crash: a process dies.  slow_worker: a lease expires under a live worker.
\* api_crash: a request handler dies.  input_expiry: nobody answers in time.
\* child_cancel: a user cancels a child Run directly.  late_child: a
\* workflow process starts a child although its Run is no longer running.
DisturbanceKinds == {"crash", "slow_worker", "api_crash", "input_expiry",
                     "child_cancel", "late_child"}

ASSUME RunAssumption ==
  /\ NoRun \notin Run
  /\ Parent \in [Run -> Run \cup {NoRun}]
  /\ Live \subseteq Run
ASSUME BoundAssumption ==
  /\ MaxAttempts \in Nat \ {0}
  /\ MaxClaims \in Nat \ {0}
ASSUME EnvironmentAssumption ==
  /\ Isolation \in {"serialized", "read_committed"}
  /\ Disturbances \subseteq DisturbanceKinds

Attempt     == 1..MaxClaims
Children(p) == {c \in Run : Parent[c] = p}
HasParent(r) == Parent[r] # NoRun

\* A RunCommand that has not been consumed: an interactive decision or a
\* steering text, with the attempt that asked for it or was being steered.
Command == [type : {"answer", "steer"}, to : Attempt]

VARIABLES
  status,     \* [Run -> Status], Absent before the row exists
  current,    \* [Run -> attempt number], current_attempt, 0 for NULL
  claims,     \* [Run -> Nat], attempt_count and next_lease_epoch
  attempts,   \* [Run -> [Attempt -> AttemptStatus]]
  lease,      \* [Run -> [Attempt -> LeaseState]]
  retrySafe,  \* [Run -> BOOLEAN]
  pending,    \* [Run -> attempt number], who asked the pending input, 0 if none
  overdue,    \* Runs whose pending_input_expires_at has passed
  queue,      \* Runs that have a RunQueueEntry
  shown,      \* [Run -> status], the fold of the Run's events
  inbox,      \* [Run -> unconsumed Commands]
  handed,     \* [Run -> Commands consumed, with the attempt that got them]
  alive,      \* [Run -> attempts whose process is running]
  wakes,      \* <<child, attempt>> whose wake_waiting_parent has yet to run
  cascading,  \* Runs whose accepted cancel has not read the children yet
  doomed,     \* [Run -> children its cancel has yet to be submitted to]
  scan        \* [Run -> what the open suspension transaction read]

dbVars    == <<status, current, claims, attempts, lease, retrySafe, pending,
               overdue, queue, shown, inbox, handed>>
vars == <<status, current, claims, attempts, lease, retrySafe, pending,
          overdue, queue, shown, inbox, handed, alive, wakes, cascading,
          doomed, scan>>

Init ==
  /\ status = [r \in Run |-> Absent]
  /\ current = [r \in Run |-> 0]
  /\ claims = [r \in Run |-> 0]
  /\ attempts = [r \in Run |-> [n \in Attempt |-> "none"]]
  /\ lease = [r \in Run |-> [n \in Attempt |-> "none"]]
  /\ retrySafe = [r \in Run |-> TRUE]
  /\ pending = [r \in Run |-> 0]
  /\ overdue = {}
  /\ queue = {}
  /\ shown = [r \in Run |-> Absent]
  /\ inbox = [r \in Run |-> {}]
  /\ handed = [r \in Run |-> {}]
  /\ alive = [r \in Run |-> {}]
  /\ wakes = {}
  /\ cascading = {}
  /\ doomed = [r \in Run |-> {}]
  /\ scan = [r \in Run |-> "none"]

-----------------------------------------------------------------------------
(* Building blocks of the handlers. *)

\* The row of r is not locked by an open suspension transaction.
Unlocked(r) == scan[r] = "none"

\* Mutant: expires_at is not looked at.
HoldsOverdue(r, n) ==
  /\ n \in alive[r]
  /\ <<r, n>> \notin wakes
  /\ Unlocked(r)
  /\ current[r] = n
  /\ lease[r][n] \in {"held", "expired"}

\* _validate_lease and the check that the caller's attempt is current, made
\* by a process that is alive and not still inside a post-commit callback.
Holds(r, n) ==
  /\ n \in alive[r]
  /\ <<r, n>> \notin wakes
  /\ Unlocked(r)
  /\ current[r] = n
  /\ lease[r][n] = "held"

SetStatus(r, s) == status' = [status EXCEPT ![r] = s]

Emit(r, event) == shown' = [shown EXCEPT ![r] = Project(@, event)]

\* Mutant: an entry outlives the status it stands for.
SyncQueueEntryKeeps(r) ==
  queue' = IF status'[r] = "queued" /\ current'[r] = 0
             THEN queue \cup {r} ELSE queue

\* Reads the updated row: conjoin it after status' and current' are set.
SyncQueueEntry(r) ==
  queue' = IF status'[r] = "queued" /\ current'[r] = 0
             THEN queue \cup {r} ELSE queue \ {r}

\* Mutant: only the deadline is cleared.
ClearDeadlineOnly(r) ==
  /\ pending' = pending
  /\ overdue' = overdue \ {r}

ClearPendingInput(r) ==
  /\ pending' = [pending EXCEPT ![r] = 0]
  /\ overdue' = overdue \ {r}

\* Mutants: the lease is not released, the Run stays with the attempt.
EndAttemptKeepsLease(r, n, outcome) ==
  /\ attempts' = [attempts EXCEPT ![r][n] = outcome]
  /\ lease' = lease
  /\ current' = [current EXCEPT ![r] = 0]
EndAttemptStaysCurrent(r, n, outcome) ==
  /\ attempts' = [attempts EXCEPT ![r][n] = outcome]
  /\ lease' = [lease EXCEPT ![r][n] = "released"]
  /\ current' = current

\* The attempt row is closed, its lease released, the Run detached from it.
EndAttempt(r, n, outcome) ==
  /\ attempts' = [attempts EXCEPT ![r][n] = outcome]
  /\ lease' = [lease EXCEPT ![r][n] = "released"]
  /\ current' = [current EXCEPT ![r] = 0]

ProcessEnds(r, n) == alive' = [alive EXCEPT ![r] = @ \ {n}]

\* Mutant: the callback is not registered.
WakesNobody(r, n) == wakes' = wakes

\* on_commit: the parent is woken after the transaction, by its process.
WakeParentOnCommit(r, n) ==
  wakes' = IF HasParent(r) THEN wakes \cup {<<r, n>>} ELSE wakes

Failures(r) ==
  Cardinality({n \in Attempt : attempts[r][n] \in {"failed", "interrupted"}})

\* Mutants: the failure at hand is not counted; retry_safe is not looked at;
\* a cancel is forgotten.
AfterFailureUncounted(r) ==
  IF status[r] = "cancelling" THEN "cancelled"
  ELSE IF status[r] # "waiting_input" /\ retrySafe[r] /\ Failures(r) < MaxAttempts
    THEN "queued"
  ELSE "failed"
AfterFailureUnsafe(r) ==
  IF status[r] = "cancelling" THEN "cancelled"
  ELSE IF Failures(r) + 1 < MaxAttempts THEN "queued"
  ELSE "failed"
AfterFailureUncancelled(r) ==
  IF retrySafe[r] /\ Failures(r) + 1 < MaxAttempts THEN "queued" ELSE "failed"

\* Where a Run goes when its current attempt fails or its worker is lost.
AfterFailure(r) ==
  IF status[r] = "cancelling" THEN "cancelled"
  ELSE IF status[r] # "waiting_input" /\ retrySafe[r] /\ Failures(r) + 1 < MaxAttempts
    THEN "queued"
  ELSE "failed"

FailureEvent(next) ==
  [ cancelled |-> Event("cancelled"), queued |-> Event("retry_scheduled"),
    failed |-> Event("failed") ][next]

-----------------------------------------------------------------------------
(* Creation and claim. *)

\* A child is created by a workflow process that is still running: it does
\* not start one once it was told to stop, but it may not know yet that its
\* Run was cancelled or taken from it.  create_run locks the row of the
\* parent and checks neither its status nor its lease.
MayCreate(r) ==
  HasParent(r) =>
    LET p == Parent[r]
    IN /\ alive[p] # {}
       /\ Unlocked(p)
       /\ status[p] = "running" \/ "late_child" \in Disturbances

CreateRun(r, safe) ==
  /\ status[r] = Absent
  /\ MayCreate(r)
  /\ SetStatus(r, "queued")
  /\ retrySafe' = [retrySafe EXCEPT ![r] = safe]
  /\ UNCHANGED current
  /\ SyncQueueEntry(r)
  /\ Emit(r, Event("queued"))
  /\ UNCHANGED <<claims, attempts, lease, pending, overdue, inbox, handed,
                 alive, wakes, cascading, doomed, scan>>

\* Mutant: the answer is not taken up by the attempt that resumes.
NoResumeCommand(r) == {}

\* The newest unconsumed interactive command, at most one.
ResumeCommand(r) ==
  {c \in inbox[r] : /\ c.type = "answer"
                    /\ \A d \in inbox[r] : d.type = "answer" => d.to <= c.to}

Claim(r) ==
  LET n == claims[r] + 1
  IN /\ r \in queue
     /\ status[r] = "queued" /\ current[r] = 0
     /\ n <= MaxClaims
     /\ claims' = [claims EXCEPT ![r] = n]
     /\ current' = [current EXCEPT ![r] = n]
     /\ attempts' = [attempts EXCEPT ![r][n] = "running"]
     /\ lease' = [lease EXCEPT ![r][n] = "held"]
     /\ SetStatus(r, "running")
     /\ queue' = queue \ {r}
     /\ Emit(r, Event("started"))
     /\ inbox' = [inbox EXCEPT ![r] = @ \ ResumeCommand(r)]
     /\ handed' = [handed EXCEPT ![r] =
          @ \cup {[command |-> c, by |-> n] : c \in ResumeCommand(r)}]
     /\ alive' = [alive EXCEPT ![r] = @ \cup {n}]
     /\ UNCHANGED <<retrySafe, pending, overdue, wakes, cascading, doomed, scan>>

-----------------------------------------------------------------------------
(* What the worker of attempt n does.  A call whose fence does not hold     *)
(* raises LeaseLost and changes nothing, so it is not an action.            *)

Finish(r, n, outcome) ==
  /\ Holds(r, n)
  /\ outcome \in ALLOWED_TRANSITIONS[status[r]]
  /\ SetStatus(r, outcome)
  /\ EndAttempt(r, n, outcome)
  /\ ClearPendingInput(r)
  /\ SyncQueueEntry(r)
  /\ Emit(r, Event(outcome))
  /\ WakeParentOnCommit(r, n)
  /\ ProcessEnds(r, n)
  /\ UNCHANGED <<claims, retrySafe, inbox, handed, cascading, doomed, scan>>

Fail(r, n) ==
  LET next == AfterFailure(r)
  IN /\ Holds(r, n)
     /\ status[r] \in {"running", "cancelling", "waiting_input"}
     /\ SetStatus(r, next)
     /\ EndAttempt(r, n, "failed")
     /\ ClearPendingInput(r)
     /\ SyncQueueEntry(r)
     /\ Emit(r, FailureEvent(next))
     /\ IF next \in TERMINAL_STATUSES THEN WakeParentOnCommit(r, n)
                                      ELSE UNCHANGED wakes
     /\ ProcessEnds(r, n)
     /\ UNCHANGED <<claims, retrySafe, inbox, handed, cascading, doomed, scan>>

\* The attempt ends on a durable checkpoint; the answer resumes another one.
SuspendForInput(r, n) ==
  /\ r \notin Live
  /\ Holds(r, n)
  /\ "waiting_input" \in ALLOWED_TRANSITIONS[status[r]]
  /\ SetStatus(r, "waiting_input")
  /\ EndAttempt(r, n, "suspended")
  /\ pending' = [pending EXCEPT ![r] = n]
  /\ SyncQueueEntry(r)
  /\ Emit(r, Event("input.required"))
  /\ WakeParentOnCommit(r, n)
  /\ ProcessEnds(r, n)
  /\ UNCHANGED <<claims, retrySafe, overdue, inbox, handed, cascading, doomed,
                 scan>>

\* The attempt ends on a checkpoint unless it waits for no active child.
SuspendOnChildren(r, n, anyActive) ==
  LET next == IF anyActive THEN "waiting_children" ELSE "queued"
  IN /\ SetStatus(r, next)
     /\ EndAttempt(r, n, "suspended")
     /\ SyncQueueEntry(r)
     /\ Emit(r, Event(IF anyActive THEN "waiting_children"
                                   ELSE "dependencies_ready"))
     /\ ProcessEnds(r, n)
     /\ UNCHANGED <<claims, retrySafe, pending, overdue, inbox, handed, wakes,
                    cascading, doomed>>

\* The awaited children, W, are those the process saw active a moment ago.
MayAwait(r, n, W) ==
  /\ r \notin Live
  /\ Holds(r, n)
  /\ "waiting_children" \in ALLOWED_TRANSITIONS[status[r]]
  /\ W # {}
  /\ \A c \in W : status[c] # Absent

\* Mutant: the children are not read again.
TrustsTheProcess(W) == W # {}

AnyActive(W) == \E c \in W : status[c] \notin TERMINAL_STATUSES

\* SQLite: the reads and the commit of the suspension are one step.
SuspendForChildren(r, n, W) ==
  /\ Isolation = "serialized"
  /\ MayAwait(r, n, W)
  /\ SuspendOnChildren(r, n, AnyActive(W))
  /\ UNCHANGED scan

\* PostgreSQL: the transaction has locked the Run and read the child rows,
\* unlocked; children may commit before it does.
ReadChildren(r, n, W) ==
  /\ Isolation = "read_committed"
  /\ MayAwait(r, n, W)
  /\ scan' = [scan EXCEPT ![r] = IF AnyActive(W) THEN "active" ELSE "done"]
  /\ UNCHANGED <<dbVars, alive, wakes, cascading, doomed>>

CommitSuspension(r) ==
  /\ scan[r] # "none"
  /\ SuspendOnChildren(r, current[r], scan[r] = "active")
  /\ scan' = [scan EXCEPT ![r] = "none"]

\* live_input, creating: the attempt keeps its lease and its process, and a
\* lost process must never replay an outstanding authorization.
LiveRequest(r, n) ==
  /\ r \in Live
  /\ Holds(r, n)
  /\ status[r] = "running"
  /\ SetStatus(r, "waiting_input")
  /\ pending' = [pending EXCEPT ![r] = n]
  /\ retrySafe' = [retrySafe EXCEPT ![r] = FALSE]
  /\ Emit(r, Event("input.required"))
  /\ WakeParentOnCommit(r, n)
  /\ UNCHANGED <<current, claims, attempts, lease, overdue, queue, inbox,
                 handed, alive, cascading, doomed, scan>>

\* live_input, resolving: only the request that is still pending.
LiveResolved(r, n) ==
  /\ r \in Live
  /\ Holds(r, n)
  /\ pending[r] = n
  /\ SetStatus(r, "running")
  /\ ClearPendingInput(r)
  /\ Emit(r, Event("input.resolved"))
  /\ UNCHANGED <<current, claims, attempts, lease, retrySafe, queue, inbox,
                 handed, alive, wakes, cascading, doomed, scan>>

\* The coordinator hands every unconsumed command to the process it serves,
\* having checked the status and the lease just before.
DeliverControls(r, n) ==
  /\ Holds(r, n)
  /\ status[r] = "running"
  /\ inbox[r] # {}
  /\ inbox' = [inbox EXCEPT ![r] = {}]
  /\ handed' = [handed EXCEPT ![r] =
       @ \cup {[command |-> c, by |-> n] : c \in inbox[r]}]
  /\ UNCHANGED <<status, current, claims, attempts, lease, retrySafe, pending,
                 overdue, queue, shown, alive, wakes, cascading, doomed, scan>>

\* The worker learns that its lease is gone and stops its process.
WorkerStops(r, n) ==
  /\ n \in alive[r]
  /\ <<r, n>> \notin wakes
  /\ lease[r][n] # "held"
  /\ scan[r] # "none" => current[r] # n
  /\ ProcessEnds(r, n)
  /\ UNCHANGED <<dbVars, wakes, cascading, doomed, scan>>

\* The process dies wherever it is: between two messages, inside an open
\* transaction, which rolls back, or between a commit and its callback.
WorkerCrashes(r, n) ==
  /\ "crash" \in Disturbances
  /\ n \in alive[r] \/ <<r, n>> \in wakes
  /\ ProcessEnds(r, n)
  /\ wakes' = wakes \ {<<r, n>>}
  /\ scan' = [scan EXCEPT ![r] = IF current[r] = n THEN "none" ELSE @]
  /\ UNCHANGED <<dbVars, cascading, doomed>>

-----------------------------------------------------------------------------
(* Parents. *)

\* A parent that is not suspended on its children (yet) is left alone, even
\* if a transaction that suspends it has its row locked at this moment.
WakeWaitingParent(c, n) ==
  LET p == Parent[c]
  IN /\ <<c, n>> \in wakes
     /\ wakes' = wakes \ {<<c, n>>}
     /\ IF status[p] = "waiting_children" /\ current[p] = 0
          THEN /\ SetStatus(p, "queued")
               /\ queue' = queue \cup {p}
               /\ Emit(p, Event("dependencies_ready"))
          ELSE UNCHANGED <<status, queue, shown>>
     /\ UNCHANGED <<current, claims, attempts, lease, retrySafe, pending,
                    overdue, inbox, handed, alive, cascading, doomed, scan>>

-----------------------------------------------------------------------------
(* Commands of users. *)

Answer(r) ==
  LET live == current[r] # 0
  IN /\ Unlocked(r)
     /\ status[r] = "waiting_input"
     /\ r \notin overdue
     /\ SetStatus(r, IF live THEN "running" ELSE "queued")
     /\ ClearPendingInput(r)
     /\ UNCHANGED current
     /\ SyncQueueEntry(r)
     /\ Emit(r, InputAccepted(live))
     /\ inbox' = [inbox EXCEPT ![r] =
          @ \cup {[type |-> "answer", to |-> pending[r]]}]
     /\ UNCHANGED <<claims, attempts, lease, retrySafe, handed, alive, wakes,
                    cascading, doomed, scan>>

Steer(r) ==
  /\ r \in Live
  /\ Unlocked(r)
  /\ status[r] = "running"
  /\ current[r] # 0
  /\ inbox' = [inbox EXCEPT ![r] =
       @ \cup {[type |-> "steer", to |-> current[r]]}]
  /\ Emit(r, Event("input.steered"))
  /\ UNCHANGED <<status, current, claims, attempts, lease, retrySafe, pending,
                 overdue, queue, handed, alive, wakes, cascading, doomed, scan>>

\* Mutant: no status is left for the worker to finish from.
CancelAtOnce(r) ==
  IF status[r] = "cancelling" THEN "cancelling" ELSE "cancelled"

CancelTarget(r) ==
  IF status[r] = "running" \/ (status[r] = "waiting_input" /\ current[r] # 0)
    THEN "cancelling"
  ELSE IF status[r] \in {"queued", "waiting_input", "waiting_children"}
    THEN "cancelled"
  ELSE status[r]

\* Accepted unless the Run succeeded or failed; a repeated cancel changes
\* nothing but goes to the children again.
AcceptCancel(r) ==
  LET next == CancelTarget(r)
  IN /\ Unlocked(r)
     /\ status[r] \in Status \ {"succeeded", "failed"}
     /\ SetStatus(r, next)
     /\ UNCHANGED current
     /\ SyncQueueEntry(r)
     /\ IF status[r] = "running" \/ next = status[r]
          THEN UNCHANGED <<pending, overdue>>
          ELSE ClearPendingInput(r)
     /\ IF next = status[r]
          THEN UNCHANGED shown
          ELSE Emit(r, Event(next))
     /\ cascading' = IF Children(r) = {} THEN cascading ELSE cascading \cup {r}
     /\ UNCHANGED <<claims, attempts, lease, retrySafe, inbox, handed, alive,
                    wakes, scan>>

\* Users cancel root Runs; the process of a workflow that is being cancelled
\* also cancels its children.
Cancel(r) ==
  /\ HasParent(r) =>
       \/ "child_cancel" \in Disturbances
       \/ status[Parent[r]] = "cancelling" /\ alive[Parent[r]] # {}
  /\ AcceptCancel(r)
  /\ UNCHANGED doomed

\* Mutant: only children that a worker is executing are cancelled.
ExecutingChildren(p) == {c \in Children(p) : status[c] = "running"}

CancellableChildren(p) ==
  {c \in Children(p) : status[c] \in Status \ TERMINAL_STATUSES}

\* After the commit, the active children are read ...
CascadeRead(p) ==
  /\ p \in cascading
  /\ cascading' = cascading \ {p}
  /\ doomed' = [doomed EXCEPT ![p] = @ \cup CancellableChildren(p)]
  /\ UNCHANGED <<dbVars, alive, wakes, scan>>

\* ... and cancelled one at a time.  The idempotency key of each of these
\* commands names parent and child, so that a second cascade replays them:
\* the child is cancelling or cancelled by then, and is left as it is either
\* way.  Trees have two levels, and the children of a child are not modelled.
CascadeCancel(p, c) ==
  /\ c \in doomed[p]
  /\ doomed' = [doomed EXCEPT ![p] = @ \ {c}]
  /\ AcceptCancel(c)

\* A child that has finished since refuses the command, and the exception
\* ends the loop: the children after it are not cancelled.
CascadeRefused(p, c) ==
  /\ c \in doomed[p]
  /\ status[c] \in {"succeeded", "failed"}
  /\ doomed' = [doomed EXCEPT ![p] = {}]
  /\ UNCHANGED <<dbVars, alive, wakes, cascading, scan>>

CascadeLost(p) ==
  /\ "api_crash" \in Disturbances
  /\ p \in cascading \/ doomed[p] # {}
  /\ cascading' = cascading \ {p}
  /\ doomed' = [doomed EXCEPT ![p] = {}]
  /\ UNCHANGED <<dbVars, alive, wakes, scan>>

-----------------------------------------------------------------------------
(* Time, and the maintenance that every coordinator runs. *)

\* A live worker renews its lease at a third of its duration, a dead one
\* cannot.
LeaseExpires(r, n) ==
  /\ lease[r][n] = "held"
  /\ n \notin alive[r] \/ "slow_worker" \in Disturbances
  /\ lease' = [lease EXCEPT ![r][n] = "expired"]
  /\ UNCHANGED <<status, current, claims, attempts, retrySafe, pending,
                 overdue, queue, shown, inbox, handed, alive, wakes,
                 cascading, doomed, scan>>

\* _reap_one; note that it never wakes the parent.
Reap(r, n) ==
  LET next == AfterFailure(r)
  IN /\ lease[r][n] = "expired"
     /\ Unlocked(r)
     /\ IF current[r] # n
          THEN /\ lease' = [lease EXCEPT ![r][n] = "released"]
               /\ UNCHANGED <<status, current, attempts, pending, overdue,
                              queue, shown>>
          ELSE /\ SetStatus(r, next)
               /\ EndAttempt(r, n, IF next = "cancelled" THEN "cancelled"
                                                         ELSE "interrupted")
               /\ ClearPendingInput(r)
               /\ SyncQueueEntry(r)
               /\ Emit(r, FailureEvent(next))
     /\ UNCHANGED <<claims, retrySafe, inbox, handed, alive, wakes, cascading,
                    doomed, scan>>

InputOverdue(r) ==
  /\ "input_expiry" \in Disturbances
  /\ pending[r] # 0
  /\ r \notin overdue
  /\ overdue' = overdue \cup {r}
  /\ UNCHANGED <<status, current, claims, attempts, lease, retrySafe, pending,
                 queue, shown, inbox, handed, alive, wakes, cascading, doomed,
                 scan>>

\* _expire_input_request; it does not wake the parent either.
ExpireInput(r) ==
  LET next == IF current[r] # 0 THEN "cancelling" ELSE "cancelled"
  IN /\ Unlocked(r)
     /\ status[r] = "waiting_input"
     /\ r \in overdue
     /\ SetStatus(r, next)
     /\ ClearPendingInput(r)
     /\ Emit(r, InputExpired(next))
     /\ UNCHANGED <<current, claims, attempts, lease, retrySafe, queue, inbox,
                    handed, alive, wakes, cascading, doomed, scan>>

-----------------------------------------------------------------------------
Worker(r, n) ==
  \/ \E outcome \in {"succeeded", "cancelled"} : Finish(r, n, outcome)
  \/ Fail(r, n)
  \/ SuspendForInput(r, n)
  \/ \E W \in SUBSET Children(r) : SuspendForChildren(r, n, W)
  \/ \E W \in SUBSET Children(r) : ReadChildren(r, n, W)
  \/ LiveRequest(r, n)
  \/ LiveResolved(r, n)
  \/ DeliverControls(r, n)
  \/ WorkerStops(r, n)
  \/ WorkerCrashes(r, n)
  \/ WakeWaitingParent(r, n)

User(r) ==
  \/ \E safe \in BOOLEAN : CreateRun(r, safe)
  \/ Answer(r)
  \/ Steer(r)
  \/ Cancel(r)
  \/ CascadeRead(r)
  \/ \E c \in Run : CascadeCancel(r, c)
  \/ \E c \in Run : CascadeRefused(r, c)
  \/ CascadeLost(r)

Next ==
  \/ \E r \in Run : User(r)
  \/ \E r \in Run : Claim(r)
  \/ \E r \in Run : CommitSuspension(r)
  \/ \E r \in Run : InputOverdue(r)
  \/ \E r \in Run : ExpireInput(r)
  \/ \E r \in Run, n \in Attempt : Worker(r, n)
  \/ \E r \in Run, n \in Attempt : LeaseExpires(r, n)
  \/ \E r \in Run, n \in Attempt : Reap(r, n)

Spec == Init /\ [][Next]_vars

-----------------------------------------------------------------------------
(* Fairness: a worker pool claims what is queued, a worker whose process    *)
(* is alive acts on a cancel within cancel_grace_seconds, the maintenance   *)
(* of some coordinator runs every five seconds, a transaction commits, and  *)
(* a callback or a cascade goes on unless its process died.                 *)

Fairness ==
  /\ \A r \in Run :
       /\ WF_vars(Claim(r))
       /\ WF_vars(CommitSuspension(r))
       /\ WF_vars(ExpireInput(r))
       /\ WF_vars(CascadeRead(r))
       /\ \A c \in Run : WF_vars(CascadeCancel(r, c) \/ CascadeRefused(r, c))
  /\ \A r \in Run, n \in Attempt :
       /\ WF_vars(status[r] = "cancelling" /\ Finish(r, n, "cancelled"))
       /\ WF_vars(n \notin alive[r] /\ LeaseExpires(r, n))
       /\ WF_vars(Reap(r, n))
       /\ WF_vars(WakeWaitingParent(r, n))

FairSpec == Spec /\ Fairness

-----------------------------------------------------------------------------
(* Properties. *)

TypeOK ==
  /\ status \in [Run -> Status \cup {Absent}]
  /\ current \in [Run -> 0..MaxClaims]
  /\ claims \in [Run -> 0..MaxClaims]
  /\ attempts \in [Run -> [Attempt -> AttemptStatus]]
  /\ lease \in [Run -> [Attempt -> LeaseState]]
  /\ retrySafe \in [Run -> BOOLEAN]
  /\ pending \in [Run -> 0..MaxClaims]
  /\ overdue \subseteq Run
  /\ queue \subseteq Run
  /\ shown \in [Run -> Status \cup {Absent}]
  /\ inbox \in [Run -> SUBSET Command]
  /\ handed \in [Run -> SUBSET [command : Command, by : Attempt]]
  /\ alive \in [Run -> SUBSET Attempt]
  /\ wakes \subseteq Run \X Attempt
  /\ cascading \subseteq Run
  /\ doomed \in [Run -> SUBSET Run]
  /\ scan \in [Run -> {"none", "active", "done"}]

Unreleased(r, n) == lease[r][n] \in {"held", "expired"}

\* The claim index holds a Run exactly while a worker may claim it: an entry
\* that is missing strands the Run, one too many is claimed for nothing.
QueueMatches ==
  \A r \in Run : r \in queue <=> status[r] = "queued" /\ current[r] = 0

\* A Run is in the hands of at most one attempt, the newest one: only that
\* attempt's lease can still be unreleased, its row says "running", and the
\* Run is in a status in which a worker may be at work.  The other way
\* round, no Run is running or cancelling without such an attempt.
OneOwner ==
  \A r \in Run :
    /\ \A n \in Attempt : Unreleased(r, n) \/ attempts[r][n] = "running" =>
                            current[r] = n
    /\ current[r] # 0 => /\ current[r] = claims[r]
                         /\ attempts[r][current[r]] = "running"
                         /\ Unreleased(r, current[r])
                         /\ status[r] \in {"running", "waiting_input", "cancelling"}
    /\ status[r] \in {"running", "cancelling"} => current[r] # 0

\* The database constraint run_pending_input_consistent never fires: a Run
\* waits for input exactly while a request is pending; and that request is
\* of the newest attempt, which either still owns the Run (live input) or
\* left a checkpoint to resume from.
PendingInputConsistent ==
  \A r \in Run :
    /\ pending[r] # 0 <=> status[r] = "waiting_input"
    /\ r \in overdue => pending[r] # 0
    /\ pending[r] # 0 =>
         /\ pending[r] = claims[r]
         /\ IF current[r] # 0 THEN r \in Live
                              ELSE /\ r \notin Live
                                   /\ attempts[r][pending[r]] = "suspended"

\* Folding the events of a Run gives the status in its row, whatever the
\* order in which handlers, workers and users write them.
ViewAgrees == shown = status

\* A decision reaches the process that asked for it, or the one resumed from
\* its checkpoint, and no other; while it waits no other attempt has started.
AnswersReachTheAsker ==
  \A r \in Run :
    /\ \A c \in inbox[r] : c.type = "answer" => c.to = claims[r]
    /\ \A h \in handed[r] :
         h.command.type = "answer" =>
           h.by = IF r \in Live THEN h.command.to ELSE h.command.to + 1

\* However failures and lost workers alternate with suspensions, a Run never
\* fails more often than max_attempts, and is over when it has.
RetryBudget ==
  \A r \in Run :
    /\ Failures(r) <= MaxAttempts
    /\ Failures(r) = MaxAttempts => status[r] \in TERMINAL_STATUSES

ActiveChild(p) ==
  \E c \in Children(p) : status[c] \notin TERMINAL_STATUSES \cup {Absent}

\* A Run suspended on its children still has something to wake it: an active
\* child, or the callback of a child that has just ended.
ParentWakeable ==
  \A p \in Run :
    status[p] = "waiting_children" =>
      \/ ActiveChild(p)
      \/ \E w \in wakes : Parent[w[1]] = p

\* Once a parent is cancelled and the cascade of its cancel is over, no
\* child goes on.
CascadeReachesChildren ==
  \A p \in Run :
    status[p] = "cancelled" /\ p \notin cascading /\ doomed[p] = {} =>
      \A c \in Children(p) :
        status[c] \in TERMINAL_STATUSES \cup {"cancelling", Absent}

\* A steering text reaches only the attempt it was written for.
SteerReachesOnlyItsAttempt ==
  \A r \in Run : \A h \in handed[r] :
    h.command.type = "steer" => h.by = h.command.to

\* Whoever closes an attempt releases its lease in the same transaction, a
\* closed attempt is never reopened or relabelled, and a worker whose lease
\* has expired can no longer decide how its attempt ended: only the reaper
\* can (or a suspension that had checked the lease before).
AttemptsAreFenced ==
  [][ \A r \in Run, n \in Attempt :
        attempts'[r][n] # attempts[r][n] =>
          \/ attempts[r][n] = "none" /\ attempts'[r][n] = "running"
          \/ /\ attempts[r][n] = "running"
             /\ lease'[r][n] = "released"
             /\ lease[r][n] = "expired" /\ Unlocked(r) =>
                  attempts'[r][n] \in {"interrupted", "cancelled"} ]_vars

\* An attempt that may have used an authorization, or a Run declared unsafe
\* to retry, is never run again after it was lost or failed.
NoUnsafeRetry ==
  [][ \A r \in Run :
        ~retrySafe[r] /\ Failures(r)' > Failures(r) =>
          status'[r] \in TERMINAL_STATUSES ]_vars

\* What the handlers promise together of one Run.
Protocol == INSTANCE RunProtocol WITH owner <- current, epoch <- claims
ImplementsProtocol == Protocol!Spec

\* A cancel that was accepted ends the Run, even if its worker is lost.
CancelCompletes ==
  \A r \in Run : status[r] = "cancelling" ~> status[r] = "cancelled"

\* A Run whose worker process is gone does not stay with it.
LostWorkerIsReplaced ==
  \A r \in Run, n \in Attempt :
    current[r] = n /\ n \notin alive[r] ~> current[r] # n

\* When all its children are over, a suspended parent goes on.
ParentResumes ==
  \A p \in Run :
    status[p] = "waiting_children" /\ ~ActiveChild(p) ~> status[p] # "waiting_children"
=============================================================================
