----------------------------- MODULE Coordinator -----------------------------
(***************************************************************************)
(* The worker of backend/modules/execution: one ExecutionCoordinator, the  *)
(* child processes it spawns for the attempts it claims, and the queues    *)
(* between them.                                                           *)
(*                                                                         *)
(* RunLifecycle takes each handler as one transaction and lets a worker    *)
(* call it at any moment.  Here the worker is the program that makes those *)
(* calls: the service loop goes through its steps one database access at a *)
(* time, while the child emits messages into a bounded queue, users cancel *)
(* and steer, leases run out and the reaper of another worker runs.  What  *)
(* is at stake is whether the messages of a child take effect exactly once *)
(* and in order, whether a decision read before a transaction still holds  *)
(* in it, and whether the loop serves everybody.                           *)
(*                                                                         *)
(* A job <<r, n>> is attempt n of Run r.  Messages are numbered modulo     *)
(* Ring, so that a child may go on emitting for ever: those between        *)
(* taken[j] and sent[j] are in the queue, which holds Ring - 1 of them.    *)
(* All of them are events but the last one, whose kind is last[j].         *)
(***************************************************************************)
EXTENDS Integers, Sequences, FiniteSets, RunStates

CONSTANTS
  Run,           \* Run identities
  NoJob,         \* what the service loop is at between two passes
  MaxChildren,   \* max_children, the slots of the worker
  MaxAttempts,   \* max_attempts, and the bound on the attempts explored
  Ring,          \* EXECUTION_EVENT_QUEUE_SIZE + 1
  Batch,         \* messages persisted for one child in one pass
  MaxSteers,     \* bound on the commands a user sends to one Run, by database
  MaxMishaps,    \* bound on how often the environment interferes
  Vendors,       \* databases to consider: "sqlite", "postgresql"
  Disturbances   \* what the environment may do, see DisturbanceKinds

\* busy: SQLite stays locked longer than the timeout.  stop: the worker is
\* stopped or killed.  slow: a lease expires although its worker is up.
\* child_exit: a child dies without a last message.  start_failure: a child
\* cannot be spawned.
DisturbanceKinds == {"busy", "stop", "slow", "child_exit", "start_failure"}

ASSUME SlotAssumption == MaxChildren \in Nat \ {0}
ASSUME CountAssumption ==
  /\ MaxAttempts \in Nat \ {0}
  /\ MaxSteers \in [{"sqlite", "postgresql"} -> Nat]
  /\ MaxMishaps \in Nat
ASSUME RingAssumption  == Ring \in Nat \ {0, 1} /\ Batch \in Nat \ {0}
ASSUME VendorAssumption ==
  /\ Vendors \subseteq {"sqlite", "postgresql"}
  /\ Disturbances \subseteq DisturbanceKinds

Attempt == 1..MaxAttempts
Job     == Run \X Attempt
Steer   == UNION {1..MaxSteers[v] : v \in Vendors}
RunOf(j) == j[1]

ASSUME NoJobAssumption == NoJob \notin Job

VARIABLES
  vendor,     \* the database this worker is configured with
  \* in the database
  status,     \* [Run -> Status]
  current,    \* [Run -> attempt number], 0 for NULL
  claims,     \* [Run -> Nat], attempt_count
  lease,      \* [Job -> LeaseState]
  attempt,    \* [Job -> AttemptStatus]
  steers,     \* [Run -> Nat], steering commands accepted so far
  inbox,      \* [Run -> steering commands not consumed]
  requested,  \* Runs with an accepted cancel command
  \* in the memory of the worker
  up,         \* the worker process is running
  mishaps,    \* times the environment interfered
  at,         \* where the service loop is, see Stage
  active,     \* the jobs in self._active
  stopping,   \* [Job -> cancel_event is set], shared with the child
  unsaved,    \* [Job -> pending_message is not None]
  settled,    \* [Job -> terminal_received]
  patience,   \* [Job -> time since cancel_requested_at]
  gone,       \* [Job -> time since exited_at]
  handing,    \* [Job -> delivered_control_id, 0 for None]
  \* of the child processes and the queues they share with the worker
  proc,       \* [Job -> ProcState]
  sent,       \* [Job -> number of the last message emitted]
  taken,      \* [Job -> number of the last message the worker took]
  applied,    \* [Job -> number of the last message stored in the database]
  last,       \* [Job -> kind of the last message, "none" before it]
  given       \* [Job -> steering commands put on its control queue]

dbVars     == <<vendor, status, current, claims, lease, attempt, steers, inbox,
                requested>>
memoryVars == <<active, stopping, unsaved, settled, patience, gone, handing>>
childVars  == <<proc, sent, taken, applied, last, given>>
vars == <<dbVars, up, mishaps, at, memoryVars, childVars>>

Kind      == {"suspend", "succeeded", "failed", "cancelled"}
ProcState == {"none", "running", "ended", "gone"}
Timer     == {"unset", "running", "over"}
Step      == {"idle", "start", "renew", "poll", "controls", "consume",
              "drain", "persist", "finish", "enforce", "exit"}

\* saw is what the loop read earlier and decides by now, left how many more
\* messages this pass may persist, todo the commands it has read.
Stage(job, step, saw, left, todo) ==
  [job |-> job, step |-> step, saw |-> saw, left |-> left, todo |-> todo]
Idle == Stage(NoJob, "idle", "nothing", 0, {})

Go(j, step)           == at' = Stage(j, step, "nothing", 0, {})
GoSeeing(j, step, s)  == at' = Stage(j, step, s, 0, {})
GoDraining(j, left)   == at' = Stage(j, "drain", "nothing", left, {})
Rest                  == at' = Idle
At(j, step)           == up /\ at.job = j /\ at.step = step

Mishap(kind) ==
  /\ kind \in Disturbances
  /\ mishaps < MaxMishaps
  /\ mishaps' = mishaps + 1

Init ==
  /\ vendor \in Vendors
  /\ status = [r \in Run |-> Absent]
  /\ current = [r \in Run |-> 0]
  /\ claims = [r \in Run |-> 0]
  /\ lease = [j \in Job |-> "none"]
  /\ attempt = [j \in Job |-> "none"]
  /\ applied = [j \in Job |-> 0]
  /\ steers = [r \in Run |-> 0]
  /\ inbox = [r \in Run |-> {}]
  /\ requested = {}
  /\ up = TRUE
  /\ mishaps = 0
  /\ at = Idle
  /\ active = {}
  /\ stopping = [j \in Job |-> FALSE]
  /\ unsaved = [j \in Job |-> FALSE]
  /\ settled = [j \in Job |-> FALSE]
  /\ patience = [j \in Job |-> "unset"]
  /\ gone = [j \in Job |-> "unset"]
  /\ handing = [j \in Job |-> 0]
  /\ proc = [j \in Job |-> "none"]
  /\ sent = [j \in Job |-> 0]
  /\ taken = [j \in Job |-> 0]
  /\ last = [j \in Job |-> "none"]
  /\ given = [j \in Job |-> <<>>]

-----------------------------------------------------------------------------
(* Transactions, seen from the worker. *)

\* Number of the message after message i.
After(i) == IF i = Ring - 1 THEN 0 ELSE i + 1

\* The message in the hands of the loop is the last one taken.
Message(j) == IF taken[j] = sent[j] /\ last[j] # "none" THEN last[j] ELSE "event"

\* _validate_lease and the check that the attempt is current.
Holds(j) == current[RunOf(j)] = j[2] /\ lease[j] = "held"

\* The attempt is closed; its Run goes to a status in which nobody owns it.
Close(j, next, how) ==
  /\ status' = [status EXCEPT ![RunOf(j)] = next]
  /\ current' = [current EXCEPT ![RunOf(j)] = 0]
  /\ lease' = [lease EXCEPT ![j] = "released"]
  /\ attempt' = [attempt EXCEPT ![j] = how]

Failures(r) == {n \in Attempt : attempt[<<r, n>>] \in {"failed", "interrupted"}}

\* Mutant: a cancel accepted meanwhile is forgotten.
RetriedAnyway(r) ==
  IF Cardinality(Failures(r)) + 1 < MaxAttempts THEN "queued" ELSE "failed"

\* Where a Run goes when its attempt fails or is lost.  The Runs here are
\* safe to retry.
AfterFailure(r) ==
  IF status[r] = "cancelling" THEN "cancelled"
  ELSE IF Cardinality(Failures(r)) + 1 < MaxAttempts THEN "queued"
  ELSE "failed"

\* The status a last message leads to, when that of the Run was read as s.
Outcome(kind, s) ==
  CASE kind = "suspend"   -> "waiting_input"
    [] kind = "succeeded" -> IF s = "cancelling" THEN "cancelled" ELSE "succeeded"
    [] kind = "cancelled" -> "cancelled"
    [] kind = "failed"    -> "failed"

\* _validate_transition; fail_attempt asks for no particular status.
Legal(j, kind, next) ==
  kind = "failed" \/ next \in ALLOWED_TRANSITIONS[status[RunOf(j)]]

\* The transaction of a last message: suspend_attempt_for_input,
\* finish_attempt or fail_attempt.
CloseBy(j, kind, s) ==
  CASE kind = "suspend" -> Close(j, "waiting_input", "suspended")
    [] kind = "failed"  -> Close(j, AfterFailure(RunOf(j)), "failed")
    [] OTHER            -> Close(j, Outcome(kind, s), Outcome(kind, s))

-----------------------------------------------------------------------------
(* What the worker forgets, and how it ends. *)

\* The queues of the jobs J are closed, with what is in them; their processes
\* are terminated if need be, or out of reach.
Forget(J) ==
  /\ active' = active \ J
  /\ stopping' = [j \in Job |-> stopping[j] /\ j \notin J]
  /\ unsaved' = [j \in Job |-> unsaved[j] /\ j \notin J]
  /\ settled' = [j \in Job |-> settled[j] /\ j \notin J]
  /\ patience' = [j \in Job |-> IF j \in J THEN "unset" ELSE patience[j]]
  /\ gone' = [j \in Job |-> IF j \in J THEN "unset" ELSE gone[j]]
  /\ handing' = [j \in Job |-> IF j \in J THEN 0 ELSE handing[j]]
  /\ sent' = [j \in Job |-> IF j \in J THEN 0 ELSE sent[j]]
  /\ taken' = [j \in Job |-> IF j \in J THEN 0 ELSE taken[j]]
  /\ applied' = [j \in Job |-> IF j \in J THEN 0 ELSE applied[j]]
  /\ last' = [j \in Job |-> IF j \in J THEN "none" ELSE last[j]]
  /\ given' = [j \in Job |-> IF j \in J THEN <<>> ELSE given[j]]

\* Mutant: a process that is still alive is left alone.
RemoveChildOnly(j) ==
  /\ Forget({j})
  /\ proc' = [proc EXCEPT ![j] = IF @ = "ended" THEN "gone" ELSE @]
  /\ Rest

\* _remove_child, after which tick goes on with another child.
RemoveChild(j) ==
  /\ Forget({j})
  /\ proc' = [proc EXCEPT ![j] = "gone"]
  /\ Rest

\* The worker process ends, and its memory with it.
Ends ==
  /\ up' = FALSE
  /\ Forget(active)
  /\ proc' = [j \in Job |-> IF j \in active THEN "gone" ELSE proc[j]]
  /\ Rest
  /\ UNCHANGED dbVars

\* An exception that no caller handles ends the worker through stop().
Crashes == Ends /\ UNCHANGED mishaps

\* The worker is asked to stop, and terminates its children without reading
\* what they left in their queues; or it is killed, and its children go on
\* with nobody to listen to them.
Stop ==
  /\ up /\ Mishap("stop")
  /\ Ends

Restart ==
  /\ ~up
  /\ up' = TRUE
  /\ UNCHANGED <<dbVars, mishaps, at, memoryVars, childVars>>

\* SQLite is locked, in a transaction or in a callback after its commit: the
\* rest of the pass is put off to the next poll (_defer_sqlite_contention).
CutShort == vendor = "sqlite" /\ Mishap("busy") /\ Rest

-----------------------------------------------------------------------------
(* Claiming. *)

\* create_run
Submit(r) ==
  /\ status[r] = Absent
  /\ status' = [status EXCEPT ![r] = "queued"]
  /\ UNCHANGED <<vendor, current, claims, lease, attempt, steers,
                 inbox, requested, up, mishaps, at, memoryVars, childVars>>

Claim(r) ==
  LET n == claims[r] + 1
      j == <<r, n>>
  IN /\ up /\ at.step = "idle"
     /\ Cardinality(active) < MaxChildren
     /\ status[r] = "queued" /\ current[r] = 0
     /\ n \in Attempt
     /\ status' = [status EXCEPT ![r] = "running"]
     /\ current' = [current EXCEPT ![r] = n]
     /\ claims' = [claims EXCEPT ![r] = n]
     /\ lease' = [lease EXCEPT ![j] = "held"]
     /\ attempt' = [attempt EXCEPT ![j] = "running"]
     /\ Go(j, "start")
     /\ UNCHANGED <<vendor, steers, inbox, requested, up, mishaps,
                    memoryVars, childVars>>

\* _start_claimed
StartChild(j) ==
  /\ At(j, "start")
  /\ active' = active \cup {j}
  /\ proc' = [proc EXCEPT ![j] = "running"]
  /\ Rest
  /\ UNCHANGED <<dbVars, up, mishaps, stopping, unsaved, settled, patience,
                 gone, handing, sent, taken, applied, last, given>>

\* The process could not be spawned.
StartFails(j) ==
  /\ At(j, "start") /\ Mishap("start_failure")
  /\ Holds(j)
  /\ Close(j, AfterFailure(RunOf(j)), "failed")
  /\ Rest
  /\ UNCHANGED <<vendor, claims, steers, inbox, requested, up, memoryVars,
                 childVars>>

\* Nobody handles the LeaseLost of fail_attempt there.
StartFailsLate(j) ==
  /\ At(j, "start") /\ "start_failure" \in Disturbances
  /\ ~Holds(j)
  /\ Crashes

-----------------------------------------------------------------------------
(* One pass of _service_child over a child, step by step. *)

\* The status is read once per pass.  Nothing else is left to do before the
\* commands of users, or the messages.
Poll(j) ==
  /\ IF status[RunOf(j)] = "cancelling"
       THEN /\ stopping' = [stopping EXCEPT ![j] = TRUE]
            /\ patience' = [patience EXCEPT ![j] =
                 IF @ = "unset" THEN "running" ELSE @]
       ELSE UNCHANGED <<stopping, patience>>
  /\ IF status[RunOf(j)] = "running" /\ ~stopping[j]
       THEN Go(j, "controls") ELSE GoDraining(j, Batch)
  /\ UNCHANGED <<dbVars, up, mishaps, active, unsaved, settled, gone, handing,
                 childVars>>

\* A pass begins, with a heartbeat if one is due.  A child whose last message
\* was committed by a pass that could not go on is only removed.
BeginPass(j) ==
  /\ up /\ at.step = "idle" /\ j \in active
  /\ \/ /\ settled[j]
        /\ RemoveChild(j)
        /\ UNCHANGED <<dbVars, up, mishaps>>
     \/ /\ ~settled[j]
        /\ GoSeeing(j, "renew", lease[j])
        /\ UNCHANGED <<dbVars, up, mishaps, memoryVars, childVars>>
     \/ ~settled[j] /\ Poll(j)

\* renew_lease read the time, and so whether the lease had run out, before it
\* waited for the row (at.saw).
Extendable(j) ==
  /\ at.saw = "held"
  /\ lease[j] # "released"
  /\ current[RunOf(j)] = j[2]
  /\ status[RunOf(j)] \in {"running", "cancelling", "waiting_input"}

Renew(j) ==
  /\ At(j, "renew")
  /\ IF Extendable(j)
       THEN lease' = [lease EXCEPT ![j] = "held"] /\ UNCHANGED stopping
       ELSE stopping' = [stopping EXCEPT ![j] = TRUE] /\ UNCHANGED lease
  /\ Go(j, "poll")
  /\ UNCHANGED <<vendor, status, current, claims, attempt, steers,
                 inbox, requested, up, mishaps, active, unsaved, settled,
                 patience, gone, handing, childVars>>

PollAfterRenewal(j) == At(j, "poll") /\ Poll(j)

Oldest(S) == CHOOSE c \in S : \A d \in S : c <= d

\* Mutant: a command handed over before is not recognised.
HandAgain(j, c) ==
  /\ given' = [given EXCEPT ![j] = Append(@, c)]
  /\ handing' = [handing EXCEPT ![j] = c]

\* The command goes to the child, unless an earlier pass got that far and
\* could not mark it consumed.
Hand(j, c) ==
  IF handing[j] = c
    THEN UNCHANGED <<given, handing>>
    ELSE /\ given' = [given EXCEPT ![j] = Append(@, c)]
         /\ handing' = [handing EXCEPT ![j] = c]

\* The commands are read once, if the lease still holds, and handed over and
\* marked consumed one by one.
ReadControls(j) ==
  LET todo == inbox[RunOf(j)]
  IN /\ At(j, "controls")
     /\ IF Holds(j) /\ todo # {}
          THEN /\ at' = Stage(j, "consume", "nothing", 0, todo)
               /\ Hand(j, Oldest(todo))
          ELSE GoDraining(j, Batch) /\ UNCHANGED <<given, handing>>
     /\ UNCHANGED <<dbVars, up, mishaps, active, stopping, unsaved, settled,
                    patience, gone, proc, sent, taken, applied, last>>

Consume(j) ==
  LET c == Oldest(at.todo)
      rest == at.todo \ {c}
  IN /\ At(j, "consume")
     /\ inbox' = [inbox EXCEPT ![RunOf(j)] = @ \ {c}]
     /\ IF rest = {}
          THEN /\ GoDraining(j, Batch)
               /\ handing' = [handing EXCEPT ![j] = 0]
               /\ UNCHANGED given
          ELSE /\ at' = Stage(j, "consume", "nothing", 0, rest)
               /\ handing' = [handing EXCEPT ![j] = Oldest(rest)]
               /\ given' = [given EXCEPT ![j] = Append(@, Oldest(rest))]
     /\ UNCHANGED <<vendor, status, current, claims, lease, attempt, steers,
                    requested, up, mishaps, active, stopping, unsaved, settled,
                    patience, gone, proc, sent, taken, applied, last>>

\* Mutant: the number of messages of a pass is not looked at.
TakeBeyondBatch(j) ==
  /\ At(j, "drain")
  /\ unsaved[j] \/ taken[j] # sent[j]
  /\ IF unsaved[j]
       THEN UNCHANGED <<unsaved, taken>>
       ELSE /\ unsaved' = [unsaved EXCEPT ![j] = TRUE]
            /\ taken' = [taken EXCEPT ![j] = After(@)]
  /\ at' = [at EXCEPT !.step = "persist"]
  /\ UNCHANGED <<dbVars, up, mishaps, active, stopping, settled, patience,
                 gone, handing, proc, sent, applied, last, given>>

\* Draining: the message a failed pass left comes first.
Take(j) ==
  /\ At(j, "drain") /\ at.left > 0
  /\ unsaved[j] \/ taken[j] # sent[j]
  /\ IF unsaved[j]
       THEN UNCHANGED <<unsaved, taken>>
       ELSE /\ unsaved' = [unsaved EXCEPT ![j] = TRUE]
            /\ taken' = [taken EXCEPT ![j] = After(@)]
  /\ at' = [at EXCEPT !.step = "persist"]
  /\ UNCHANGED <<dbVars, up, mishaps, active, stopping, settled, patience,
                 gone, handing, proc, sent, applied, last, given>>

Terminate(j) == proc' = [proc EXCEPT ![j] = "ended"]

\* Mutant: a cancel is only enforced once the queue has been emptied.
StopDrainingFirst(j) ==
  /\ At(j, "drain")
  /\ \/ /\ at.left > 0 /\ ~unsaved[j] /\ taken[j] = sent[j]
        /\ IF patience[j] = "over" THEN Terminate(j) /\ Go(j, "enforce")
                                   ELSE proc' = proc /\ Go(j, "exit")
        /\ UNCHANGED gone
     \/ /\ at.left < Batch
        /\ gone' = [gone EXCEPT ![j] = "unset"] /\ proc' = proc /\ Rest
  /\ UNCHANGED <<dbVars, up, mishaps, active, stopping, unsaved, settled,
                 patience, handing, sent, taken, applied, last, given>>

\* The queue was found empty, or the time or the messages of this pass are
\* used up.  In either case a child that was told to stop long enough ago is
\* terminated: a provider call may be blocked.
StopDraining(j) ==
  /\ At(j, "drain")
  /\ \E drained \in BOOLEAN :
       /\ IF drained THEN at.left > 0 /\ ~unsaved[j] /\ taken[j] = sent[j]
                     ELSE at.left < Batch
       /\ IF patience[j] = "over"
            THEN Terminate(j) /\ Go(j, "enforce") /\ UNCHANGED gone
          ELSE IF drained
            THEN Go(j, "exit") /\ UNCHANGED <<proc, gone>>
          ELSE gone' = [gone EXCEPT ![j] = "unset"] /\ Rest /\ UNCHANGED proc
  /\ UNCHANGED <<dbVars, up, mishaps, active, stopping, unsaved, settled,
                 patience, handing, sent, taken, applied, last, given>>

-----------------------------------------------------------------------------
(* _persist_pending_message.  On SQLite the message is one transaction, and  *)
(* what comes after its commit may fail without undoing it.                  *)

\* Mutant: a message is only forgotten when nothing failed after its commit.
CommittedIfNoFailure(j, ends) ==
  /\ applied' = [applied EXCEPT ![j] = taken[j]]
  /\ unsaved' = [unsaved EXCEPT ![j] = at' = Idle]
  /\ settled' = [settled EXCEPT ![j] = ends]

\* mark_committed: the message is stored, and not pending any more.
Committed(j, ends) ==
  /\ applied' = [applied EXCEPT ![j] = taken[j]]
  /\ unsaved' = [unsaved EXCEPT ![j] = FALSE]
  /\ settled' = [settled EXCEPT ![j] = ends]

\* append_event_and_transition and its like: no status changes.
PersistEvent(j) ==
  /\ At(j, "persist") /\ Holds(j) /\ Message(j) = "event"
  /\ \/ GoDraining(j, at.left - 1) /\ UNCHANGED mishaps
     \/ CutShort
  /\ Committed(j, FALSE)
  /\ UNCHANGED <<dbVars, up, active, stopping, patience, gone,
                 handing, proc, sent, taken, last, given>>

\* _finish reads the status to choose between succeeded and cancelled; on
\* PostgreSQL outside the transaction that finishes.
ReadStatus(j) ==
  /\ At(j, "persist") /\ Message(j) = "succeeded"
  /\ vendor = "postgresql"
  /\ GoSeeing(j, "finish", status[RunOf(j)])
  /\ UNCHANGED <<dbVars, up, mishaps, memoryVars, childVars>>

\* The loop is about to run the transaction of a last message.
Closing(j) ==
  \/ At(j, "persist") /\ Message(j) \in Kind
     /\ (Message(j) = "succeeded" => vendor = "sqlite")
  \/ At(j, "finish")

\* The status of the Run as the loop knows it then.
Known(j) == IF at.step = "finish" THEN at.saw ELSE status[RunOf(j)]

\* Mutant: the transition is not validated again.
PersistLastUnchecked(j) ==
  /\ Closing(j) /\ Holds(j)
  /\ CloseBy(j, Message(j), Known(j))
  /\ RemoveChild(j)
  /\ UNCHANGED <<vendor, claims, steers, inbox, requested, up, mishaps>>

PersistLast(j) ==
  /\ Closing(j) /\ Holds(j)
  /\ Legal(j, Message(j), Outcome(Message(j), Known(j)))
  /\ CloseBy(j, Message(j), Known(j))
  /\ \/ RemoveChild(j) /\ UNCHANGED mishaps
     \/ /\ CutShort
        /\ Committed(j, TRUE)
        /\ UNCHANGED <<active, stopping, patience, gone, handing, proc, sent,
                       taken, last, given>>
  /\ UNCHANGED <<vendor, claims, steers, inbox, requested, up>>

\* Nobody handles the InvalidRunTransition: the worker stops.
PersistIllegal(j) ==
  /\ Closing(j) /\ Holds(j)
  /\ ~Legal(j, Message(j), Outcome(Message(j), Known(j)))
  /\ Crashes

\* The fence does not hold: the child is stopped and removed.
PersistFenced(j) ==
  /\ \/ At(j, "persist") /\ (Message(j) = "succeeded" => vendor = "sqlite")
     \/ At(j, "finish")
  /\ ~Holds(j)
  /\ RemoveChild(j)
  /\ UNCHANGED <<dbVars, up, mishaps>>

-----------------------------------------------------------------------------
(* After the messages: a cancel that takes too long, a child that is gone.   *)

\* A LeaseLost is passed over here, for the child is removed anyway.
Enforce(j) ==
  /\ At(j, "enforce")
  /\ IF Holds(j) THEN Close(j, "cancelled", "cancelled")
                 ELSE UNCHANGED <<status, current, lease, attempt>>
  /\ RemoveChild(j)
  /\ UNCHANGED <<vendor, claims, steers, inbox, requested, up, mishaps>>

\* fail_attempt for a child that left no last message.
GiveUp(j) ==
  /\ IF Holds(j) THEN Close(j, AfterFailure(RunOf(j)), "failed")
                 ELSE UNCHANGED <<status, current, lease, attempt>>
  /\ RemoveChild(j)

\* Mutant: the first look at a dead process settles it.
ExitAtOnce(j) ==
  /\ At(j, "exit")
  /\ IF proc[j] = "running"
       THEN Rest /\ UNCHANGED <<status, current, lease, attempt, memoryVars, childVars>>
       ELSE GiveUp(j)
  /\ UNCHANGED <<vendor, claims, steers, inbox, requested, up, mishaps>>

\* A child found dead gets 0.2 s, and so another drain, for its last message.
Exit(j) ==
  /\ At(j, "exit")
  /\ IF proc[j] # "running" /\ gone[j] = "over"
       THEN GiveUp(j)
       ELSE /\ gone' = [gone EXCEPT ![j] =
                 IF proc[j] # "running" /\ @ = "unset" THEN "running" ELSE @]
            /\ Rest
            /\ UNCHANGED <<status, current, lease, attempt, active, stopping,
                           unsaved, settled, patience, handing, childVars>>
  /\ UNCHANGED <<vendor, claims, steers, inbox, requested, up, mishaps>>

\* The moments cancel_grace_seconds and 0.2 s have passed.
PatienceEnds(j) ==
  /\ patience[j] = "running"
  /\ patience' = [patience EXCEPT ![j] = "over"]
  /\ UNCHANGED <<dbVars, up, mishaps, at, active, stopping, unsaved, settled,
                 gone, handing, childVars>>

ExitGraceEnds(j) ==
  /\ gone[j] = "running"
  /\ gone' = [gone EXCEPT ![j] = "over"]
  /\ UNCHANGED <<dbVars, up, mishaps, at, active, stopping, unsaved, settled,
                 patience, handing, childVars>>

\* The transaction of this step rolls back.
Busy(j) ==
  /\ CutShort
  /\ up /\ at.job = j
  /\ at.step \in {"renew", "poll", "controls", "consume", "persist",
                  "enforce", "exit"}
  /\ UNCHANGED <<dbVars, up, memoryVars, childVars>>

-----------------------------------------------------------------------------
(* The child: its adapter emits events and ends with one last message.       *)

Emit(j) ==
  /\ proc[j] = "running" /\ last[j] = "none"
  /\ After(sent[j]) # taken[j]
  /\ sent' = [sent EXCEPT ![j] = After(@)]
  /\ UNCHANGED <<dbVars, up, mishaps, at, memoryVars, proc, taken, applied, last, given>>

\* An adapter that returns after the cancel event was set was cancelled; one
\* that suspends does not look.
Conclude(j, kind) ==
  /\ proc[j] = "running" /\ last[j] = "none"
  /\ kind = "succeeded" => ~stopping[j]
  /\ kind = "cancelled" => stopping[j]
  /\ After(sent[j]) # taken[j]
  /\ sent' = [sent EXCEPT ![j] = After(@)]
  /\ last' = [last EXCEPT ![j] = kind]
  /\ UNCHANGED <<dbVars, up, mishaps, at, memoryVars, proc, taken, applied, given>>

\* The process is over, after its last message or in spite of it.
ChildEnds(j) ==
  /\ proc[j] = "running"
  /\ IF last[j] = "none" THEN Mishap("child_exit") ELSE UNCHANGED mishaps
  /\ proc' = [proc EXCEPT ![j] = "ended"]
  /\ UNCHANGED <<dbVars, up, at, memoryVars, sent, taken, applied, last, given>>

-----------------------------------------------------------------------------
(* Users, time, and the reaper, which may be that of another worker.         *)

Cancel(r) ==
  /\ r \notin requested
  /\ status[r] \in {"queued", "running", "waiting_input"}
  /\ requested' = requested \cup {r}
  /\ status' = [status EXCEPT ![r] = IF @ = "running" THEN "cancelling"
                                                      ELSE "cancelled"]
  /\ UNCHANGED <<vendor, current, claims, lease, attempt, steers,
                 inbox, up, mishaps, at, memoryVars, childVars>>

SteerRun(r) ==
  /\ status[r] = "running" /\ steers[r] < MaxSteers[vendor]
  /\ steers' = [steers EXCEPT ![r] = @ + 1]
  /\ inbox' = [inbox EXCEPT ![r] = @ \cup {steers[r] + 1}]
  /\ UNCHANGED <<vendor, status, current, claims, lease, attempt, applied,
                 requested, up, mishaps, at, memoryVars, childVars>>

Answer(r) ==
  /\ status[r] = "waiting_input"
  /\ status' = [status EXCEPT ![r] = "queued"]
  /\ UNCHANGED <<vendor, current, claims, lease, attempt, steers,
                 inbox, requested, up, mishaps, at, memoryVars, childVars>>

\* The worker is there to renew the lease.
Served(j) == up /\ (j \in active \/ at.job = j)

\* A lease runs out: of a job nobody works at, or under a slow worker.
LeaseExpires(j) ==
  /\ lease[j] = "held"
  /\ IF Served(j)
       THEN Mishap("slow") ELSE UNCHANGED mishaps
  /\ lease' = [lease EXCEPT ![j] = "expired"]
  /\ UNCHANGED <<vendor, status, current, claims, attempt, steers,
                 inbox, requested, up, at, memoryVars, childVars>>

\* _reap_one; on SQLite the only worker is the one that reaps.  Of an attempt
\* that is not current any more, the lease alone is released.
Reap(j) ==
  /\ lease[j] = "expired"
  /\ vendor = "sqlite" => up /\ at.step = "idle"
  /\ IF current[RunOf(j)] # j[2]
       THEN /\ lease' = [lease EXCEPT ![j] = "released"]
            /\ UNCHANGED <<status, current, attempt>>
       ELSE Close(j, AfterFailure(RunOf(j)),
              IF status[RunOf(j)] = "cancelling" THEN "cancelled" ELSE "interrupted")
  /\ UNCHANGED <<vendor, claims, steers, inbox, requested, up,
                 mishaps, at, memoryVars, childVars>>

-----------------------------------------------------------------------------
Service(j) ==
  \/ StartChild(j) \/ StartFails(j) \/ StartFailsLate(j)
  \/ BeginPass(j) \/ Renew(j) \/ PollAfterRenewal(j)
  \/ ReadControls(j) \/ Consume(j)
  \/ Take(j) \/ StopDraining(j)
  \/ PersistEvent(j) \/ ReadStatus(j) \/ PersistFenced(j)
  \/ PersistLast(j) \/ PersistIllegal(j)
  \/ Enforce(j) \/ Exit(j)

Child(j) ==
  \/ Emit(j)
  \/ \E kind \in Kind : Conclude(j, kind)
  \/ ChildEnds(j)

Next ==
  \/ \E r \in Run : Submit(r) \/ Claim(r) \/ Cancel(r) \/ SteerRun(r) \/ Answer(r)
  \/ \E j \in Job :
       \/ Service(j) \/ Busy(j) \/ Child(j)
       \/ PatienceEnds(j) \/ ExitGraceEnds(j)
       \/ LeaseExpires(j) \/ Reap(j)
  \/ Stop \/ Restart

Spec == Init /\ [][Next]_vars

-----------------------------------------------------------------------------
(* Fairness: the loop runs and every tick goes through all its children, a  *)
(* supervisor starts the worker again, timers run, leases that nobody       *)
(* renews expire and are reaped, and a process exits after its last         *)
(* message.  Nothing is assumed of an adapter: it may emit for ever, or     *)
(* never do anything.                                                       *)

\* What only takes time, and can happen to a job only so often.
Elapses(j) ==
  \/ last[j] # "none" /\ ChildEnds(j)
  \/ PatienceEnds(j) \/ ExitGraceEnds(j)
  \/ ~Served(j) /\ LeaseExpires(j)

Fairness ==
  /\ WF_vars(Restart)
  /\ WF_vars(\E j \in Job : at.job = j /\ Service(j))
  /\ WF_vars(\E j \in Job : Elapses(j))
  /\ \A j \in Job : SF_vars(BeginPass(j)) /\ SF_vars(Reap(j))

FairSpec == Spec /\ Fairness

-----------------------------------------------------------------------------
(* Properties. *)

TypeOK ==
  /\ vendor \in Vendors
  /\ status \in [Run -> Status \cup {Absent}]
  /\ current \in [Run -> 0..MaxAttempts]
  /\ claims \in [Run -> 0..MaxAttempts]
  /\ lease \in [Job -> LeaseState]
  /\ attempt \in [Job -> AttemptStatus]
  /\ applied \in [Job -> 0..(Ring - 1)]
  /\ steers \in [Run -> {0} \cup Steer]
  /\ inbox \in [Run -> SUBSET Steer]
  /\ requested \subseteq Run
  /\ up \in BOOLEAN
  /\ mishaps \in 0..MaxMishaps
  /\ at \in [job : Job \cup {NoJob}, step : Step,
             saw : {"nothing", Absent} \cup LeaseState \cup Status,
             left : 0..Batch, todo : SUBSET Steer]
  /\ active \subseteq Job
  /\ stopping \in [Job -> BOOLEAN]
  /\ unsaved \in [Job -> BOOLEAN]
  /\ settled \in [Job -> BOOLEAN]
  /\ patience \in [Job -> Timer]
  /\ gone \in [Job -> Timer]
  /\ handing \in [Job -> {0} \cup Steer]
  /\ proc \in [Job -> ProcState]
  /\ sent \in [Job -> 0..(Ring - 1)]
  /\ taken \in [Job -> 0..(Ring - 1)]
  /\ last \in [Job -> Kind \cup {"none"}]
  /\ given \in [Job -> Seq(Steer)]

\* Every message of a child takes effect exactly once and in order, whatever
\* was rolled back, committed without the loop getting to know, or put off:
\* what the worker took and the database does not hold is at most the one
\* message it still has in hand.
ExactlyOnce ==
  \A j \in Job :
    taken[j] = IF unsaved[j] THEN After(applied[j]) ELSE applied[j]

\* A Run ends as cancelled if and only if a cancel was accepted, however the
\* cancel meets the end of the attempt: also when the worker read the status
\* before it.
CancelDecides ==
  \A r \in Run : r \in requested <=> status[r] \in {"cancelling", "cancelled"}

\* The worker never has more children than slots, and no child process is
\* running that it has lost sight of.
SlotsHoldProcesses ==
  /\ Cardinality(active) <= MaxChildren
  /\ \A j \in Job : proc[j] = "running" => j \in active

\* A child that delivered its last message before it exited is not declared
\* dead, even if it did so between two looks of the loop.
NoEarlyGiveUp ==
  [][ \A j \in Job :
        at.step = "exit" /\ attempt[j] = "running" /\ attempt'[j] = "failed" =>
          last[j] = "none" ]_vars

\* A process gets a command at most once and commands in their order, though
\* handing one over and marking it consumed are two steps that a failure can
\* separate; and what is marked consumed has been handed over.
ControlsHandedOnce ==
  [][ \A j \in Job :
        /\ \A i \in DOMAIN given'[j] : \A k \in 1..(i - 1) : given'[j][k] < given'[j][i]
        /\ \A c \in inbox[RunOf(j)] \ inbox'[RunOf(j)] :
             \E n \in Attempt : \E i \in DOMAIN given[<<RunOf(j), n>>] :
               given[<<RunOf(j), n>>][i] = c ]_vars

\* The worker keeps what the handlers promise of a Run.
Protocol == INSTANCE RunProtocol WITH owner <- current, epoch <- claims
ImplementsProtocol == Protocol!Spec

\* An accepted cancel ends the Run, even if its child neither stops emitting
\* nor looks at the cancel event.
CancelEnds ==
  \A r \in Run : status[r] = "cancelling" ~> status[r] = "cancelled"
=============================================================================
