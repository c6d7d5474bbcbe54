------------------------ MODULE RunLifecycle_proofs ------------------------
(***************************************************************************)
(* Proofs about RunLifecycle, for every set of Runs, every tree of parents *)
(* and children, every bound and every kind of disturbance.                *)
(***************************************************************************)
EXTENDS RunLifecycle, TLAPS

-----------------------------------------------------------------------------
(* What the helpers compute. *)

\* Where a failure leads: a cancelled Run ends, a Run that waits for a live
\* decision is never retried.
LEMMA AfterFailureCases ==
  ASSUME NEW r \in Run
  PROVE  /\ AfterFailure(r) \in {"cancelled", "queued", "failed"}
         /\ status[r] = "cancelling" <=> AfterFailure(r) = "cancelled"
         /\ status[r] = "waiting_input" => AfterFailure(r) = "failed"
         /\ ~retrySafe[r] => AfterFailure(r) # "queued"
BY DEF AfterFailure

\* Where an accepted cancel leads: a Run that a worker owns is cancelling until
\* the worker stops, any other is cancelled at once.
LEMMA CancelTargetCases ==
  ASSUME NEW r \in Run, status[r] \in Status \ {"succeeded", "failed"}
  PROVE  /\ CancelTarget(r) \in {"cancelling", "cancelled"}
         /\ CancelTarget(r) = "cancelling" <=>
              \/ status[r] \in {"running", "cancelling"}
              \/ status[r] = "waiting_input" /\ current[r] # 0
BY DEF CancelTarget, Status

\* The status that the fold of the events shows after each kind of event.
LEMMA ProjectCases ==
  ASSUME NEW s
  PROVE  /\ Project(s, Event("queued")) = "queued"
         /\ Project(s, Event("started")) = "running"
         /\ Project(s, Event("waiting_children")) = "waiting_children"
         /\ Project(s, Event("dependencies_ready")) = "queued"
         /\ Project(s, Event("cancelling")) = "cancelling"
         /\ Project(s, Event("succeeded")) = "succeeded"
         /\ Project(s, Event("cancelled")) = "cancelled"
         /\ Project(s, Event("input.required")) = "waiting_input"
         /\ Project(s, Event("input.resolved")) = "running"
         /\ Project(s, Event("input.steered")) = s
BY DEF Project, Event, STATUS_BY_EVENT

\* The status the fold shows after the events that carry a payload.
LEMMA ProjectInput ==
  ASSUME NEW s, NEW outcome
  PROVE  /\ Project(s, InputAccepted(TRUE)) = "running"
         /\ Project(s, InputAccepted(FALSE)) = "queued"
         /\ Project(s, InputExpired(outcome)) = outcome
BY DEF Project, InputAccepted, InputExpired, STATUS_BY_EVENT

\* The event of a failure shows the status the failure leads to.
LEMMA ProjectFailure ==
  ASSUME NEW s, NEW next \in {"cancelled", "queued", "failed"}
  PROVE  Project(s, FailureEvent(next)) = next
BY DEF Project, Event, FailureEvent, STATUS_BY_EVENT

-----------------------------------------------------------------------------
(* The inductive invariant. *)

\* An open suspension transaction has the row of a Run locked that its
\* worker has just seen running.
SuspensionOpen ==
  \A r \in Run :
    scan[r] # "none" => status[r] = "running" /\ r \notin Live

\* Attempts beyond the newest have no row.
NoneBeyondClaims ==
  \A r \in Run, n \in Attempt : n > claims[r] => attempts[r][n] = "none"

\* Only a child leaves a callback behind.
CallbacksToParents ==
  \A w \in wakes : Parent[w[1]] \in Run

IInv ==
  /\ TypeOK
  /\ QueueMatches
  /\ OneOwner
  /\ PendingInputConsistent
  /\ ViewAgrees
  /\ SuspensionOpen
  /\ NoneBeyondClaims
  /\ CallbacksToParents

USE RunAssumption, BoundAssumption DEF Attempt

\* Before any Run exists the invariant holds.
LEMMA Initially == Init => IInv
<1> SUFFICES ASSUME Init PROVE IInv
  OBVIOUS
<1>1. TypeOK
  BY DEF Init, TypeOK, Absent, AttemptStatus, LeaseState
<1>2. QueueMatches /\ ViewAgrees /\ SuspensionOpen /\ NoneBeyondClaims
  BY DEF Init, QueueMatches, ViewAgrees, SuspensionOpen, NoneBeyondClaims, Absent
<1>3. OneOwner /\ PendingInputConsistent /\ CallbacksToParents
  BY DEF Init, OneOwner, PendingInputConsistent, CallbacksToParents, Unreleased,
         Absent
<1>4. QED
  BY <1>1, <1>2, <1>3 DEF IInv

\* A handler that writes a status and an event that folds to it keeps the
\* row and the view together.
LEMMA EmitShows ==
  ASSUME TypeOK, ViewAgrees, NEW r \in Run, NEW s, NEW event,
         SetStatus(r, s), Emit(r, event), Project(shown[r], event) = s
  PROVE  ViewAgrees'
BY DEF TypeOK, ViewAgrees, SetStatus, Emit

\* Closing the newest attempt leaves the rows beyond it alone.
LEMMA CloseNewest ==
  ASSUME IInv, NEW r \in Run, NEW n \in Attempt, NEW outcome,
         current[r] = n, EndAttempt(r, n, outcome), claims' = claims
  PROVE  NoneBeyondClaims'
<1>1. n = claims[r] /\ claims[r] \in 0..MaxClaims
  BY DEF IInv, TypeOK, OneOwner
<1>2. attempts' = [attempts EXCEPT ![r][n] = outcome]
  BY DEF EndAttempt
<1>3. attempts \in [Run -> [Attempt -> AttemptStatus]] /\ NoneBeyondClaims
  BY DEF IInv, TypeOK
<1> HIDE DEF Attempt
<1>4. ASSUME NEW q \in Run, NEW m \in Attempt, m > claims[q]
      PROVE  attempts'[q][m] = "none"
  <2>1. q # r \/ m # n
    BY <1>1, <1>4 DEF Attempt
  <2>2. attempts'[q][m] = attempts[q][m]
    BY <1>2, <1>3, <2>1
  <2>3. QED
    BY <1>3, <1>4, <2>2 DEF NoneBeyondClaims
<1>5. QED
  BY <1>4 DEF NoneBeyondClaims

\* Only the end of a child, or its question, leaves a callback.
LEMMA OnlyChildrenCallBack ==
  ASSUME CallbacksToParents, NEW r \in Run, NEW n \in Attempt,
         WakeParentOnCommit(r, n) \/ wakes' = wakes
  PROVE  CallbacksToParents'
BY DEF CallbacksToParents, WakeParentOnCommit, HasParent

\* create_run writes a queued row and its claim index entry together.
LEMMA CreateRunStep ==
  ASSUME IInv, NEW r \in Run, NEW safe \in BOOLEAN, CreateRun(r, safe)
  PROVE  IInv'
<1> USE DEF IInv, TypeOK
<1>1. TypeOK'
  BY ProjectCases DEF CreateRun, SetStatus, SyncQueueEntry, Emit, Absent,
         Status
<1>2. QueueMatches'
  BY DEF CreateRun, SetStatus, SyncQueueEntry, OneOwner, QueueMatches
<1>3. OneOwner'
  BY DEF CreateRun, SetStatus, Absent, OneOwner, Unreleased
<1>4. PendingInputConsistent'
  BY DEF CreateRun, SetStatus, Absent, OneOwner, PendingInputConsistent
<1>5. ViewAgrees'
  <2>1. SetStatus(r, "queued") /\ Emit(r, Event("queued"))
    BY DEF CreateRun
  <2>2. Project(shown[r], Event("queued")) = "queued"
    BY ProjectCases
  <2>3. QED
    BY <2>1, <2>2, EmitShows
<1>6. SuspensionOpen'
  BY DEF CreateRun, SetStatus, Absent, SuspensionOpen
<1>7. NoneBeyondClaims' /\ CallbacksToParents'
  BY DEF CreateRun, OneOwner, NoneBeyondClaims, CallbacksToParents
<1>8. QED
  BY <1>1, <1>2, <1>3, <1>4, <1>5, <1>6, <1>7

\* A claim takes a queued Run without an owner, removes its entry and opens a
\* new attempt with its lease.
LEMMA ClaimStep ==
  ASSUME IInv, NEW r \in Run, Claim(r)
  PROVE  IInv'
<1> USE DEF IInv, TypeOK
<1>1. TypeOK'
  <2>1. claims[r] + 1 \in Attempt
    BY DEF Claim
  <2>2. /\ attempts' \in [Run -> [Attempt -> AttemptStatus]]
        /\ lease' \in [Run -> [Attempt -> LeaseState]]
    BY <2>1 DEF Claim, AttemptStatus, LeaseState
  <2>3. /\ inbox' \in [Run -> SUBSET Command]
        /\ handed' \in [Run -> SUBSET [command : Command, by : Attempt]]
    <3>1. ResumeCommand(r) \subseteq Command
      BY DEF ResumeCommand
    <3>2. {[command |-> c, by |-> claims[r] + 1] : c \in ResumeCommand(r)}
            \subseteq [command : Command, by : Attempt]
      BY <2>1, <3>1
    <3>3. QED
      BY <3>1, <3>2 DEF Claim
  <2>4. /\ status' \in [Run -> Status \cup {Absent}]
        /\ shown' \in [Run -> Status \cup {Absent}]
    BY ProjectCases DEF Claim, SetStatus, Emit, Status
  <2>5. /\ current' \in [Run -> 0..MaxClaims]
        /\ claims' \in [Run -> 0..MaxClaims]
        /\ alive' \in [Run -> SUBSET Attempt]
    BY <2>1 DEF Claim
  <2>6. queue' \subseteq Run
    BY DEF Claim
  <2>7. QED
    BY <2>2, <2>3, <2>4, <2>5, <2>6 DEF Claim
<1>2. QueueMatches'
  BY DEF Claim, SetStatus, OneOwner, QueueMatches
<1>3. OneOwner'
  BY DEF Claim, SetStatus, OneOwner, Unreleased
<1>4. PendingInputConsistent'
  BY DEF Claim, SetStatus, OneOwner, PendingInputConsistent
<1>5. ViewAgrees'
  <2>1. SetStatus(r, "running") /\ Emit(r, Event("started"))
    BY DEF Claim
  <2>2. Project(shown[r], Event("started")) = "running"
    BY ProjectCases
  <2>3. QED
    BY <2>1, <2>2, EmitShows
<1>6. SuspensionOpen'
  BY DEF Claim, SetStatus, SuspensionOpen
<1>7. NoneBeyondClaims' /\ CallbacksToParents'
  BY DEF Claim, OneOwner, NoneBeyondClaims, CallbacksToParents
<1>8. QED
  BY <1>1, <1>2, <1>3, <1>4, <1>5, <1>6, <1>7

\* finish_attempt closes the attempt that owns the Run and all that hangs on it.
LEMMA FinishStep ==
  ASSUME IInv, NEW r \in Run, NEW n \in Attempt,
         NEW outcome \in {"succeeded", "cancelled"}, Finish(r, n, outcome)
  PROVE  IInv'
<1> USE DEF IInv, TypeOK
<1>1. TypeOK'
  BY ProjectCases DEF Finish, Holds, Unlocked, SetStatus, EndAttempt,
         ClearPendingInput, SyncQueueEntry, Emit, WakeParentOnCommit,
         ProcessEnds, Status, AttemptStatus, LeaseState
<1>2. QueueMatches'
  BY DEF Finish, Holds, Unlocked, SetStatus, EndAttempt, SyncQueueEntry,
         OneOwner, QueueMatches
<1>3. OneOwner'
  BY DEF Finish, Holds, Unlocked, SetStatus, EndAttempt, OneOwner, Unreleased
<1>4. PendingInputConsistent'
  BY DEF Finish, Holds, SetStatus, EndAttempt, ClearPendingInput, OneOwner,
         PendingInputConsistent
<1>5. ViewAgrees'
  <2>1. SetStatus(r, outcome) /\ Emit(r, Event(outcome))
    BY DEF Finish
  <2>2. Project(shown[r], Event(outcome)) = outcome
    BY ProjectCases
  <2>3. QED
    BY <2>1, <2>2, EmitShows
<1>6. SuspensionOpen'
  BY DEF Finish, Holds, Unlocked, SetStatus, SuspensionOpen
<1>7. NoneBeyondClaims' /\ CallbacksToParents'
  <2>1. NoneBeyondClaims'
    BY CloseNewest DEF Finish, Holds
  <2>2. CallbacksToParents'
    BY OnlyChildrenCallBack DEF Finish
  <2>3. QED
    BY <2>1, <2>2
<1>8. QED
  BY <1>1, <1>2, <1>3, <1>4, <1>5, <1>6, <1>7

\* fail_attempt closes the attempt and requeues the Run only with its entry.
LEMMA FailStep ==
  ASSUME IInv, NEW r \in Run, NEW n \in Attempt, Fail(r, n)
  PROVE  IInv'
<1> USE DEF IInv, TypeOK
<1>1. TypeOK'
  BY ProjectFailure, AfterFailureCases DEF Fail, Holds, Unlocked, SetStatus,
         EndAttempt, ClearPendingInput, SyncQueueEntry, Emit,
         WakeParentOnCommit, ProcessEnds, Status, AttemptStatus, LeaseState
<1>2. QueueMatches'
  BY AfterFailureCases DEF Fail, Holds, Unlocked, SetStatus, EndAttempt,
         SyncQueueEntry, OneOwner, QueueMatches
<1>3. OneOwner'
  BY AfterFailureCases DEF Fail, Holds, Unlocked, SetStatus, EndAttempt,
         OneOwner, Unreleased
<1>4. PendingInputConsistent'
  BY AfterFailureCases DEF Fail, Holds, SetStatus, EndAttempt,
         ClearPendingInput, OneOwner, PendingInputConsistent
<1>5. ViewAgrees'
  <2>1. SetStatus(r, AfterFailure(r)) /\ Emit(r, FailureEvent(AfterFailure(r)))
    BY DEF Fail
  <2>2. Project(shown[r], FailureEvent(AfterFailure(r))) = AfterFailure(r)
    BY ProjectFailure, AfterFailureCases
  <2>3. QED
    BY <2>1, <2>2, EmitShows
<1>6. SuspensionOpen'
  BY AfterFailureCases DEF Fail, Holds, Unlocked, SetStatus, SuspensionOpen
<1>7. NoneBeyondClaims' /\ CallbacksToParents'
  <2>1. NoneBeyondClaims'
    BY CloseNewest DEF Fail, Holds
  <2>2. CallbacksToParents'
    BY OnlyChildrenCallBack DEF Fail
  <2>3. QED
    BY <2>1, <2>2
<1>8. QED
  BY <1>1, <1>2, <1>3, <1>4, <1>5, <1>6, <1>7

\* A suspension for input detaches the Run from its attempt, and the request it
\* leaves pending is of that attempt, the newest.
LEMMA SuspendForInputStep ==
  ASSUME IInv, NEW r \in Run, NEW n \in Attempt, SuspendForInput(r, n)
  PROVE  IInv'
<1> USE DEF IInv, TypeOK
<1>1. TypeOK'
  BY ProjectCases DEF SuspendForInput, Holds, Unlocked, SetStatus,
         EndAttempt, SyncQueueEntry, Emit, WakeParentOnCommit, ProcessEnds,
         Status, AttemptStatus, LeaseState
<1>2. QueueMatches'
  BY DEF SuspendForInput, Holds, Unlocked, SetStatus, EndAttempt,
         SyncQueueEntry, OneOwner, QueueMatches
<1>3. OneOwner'
  BY DEF SuspendForInput, Holds, Unlocked, SetStatus, EndAttempt, OneOwner,
         Unreleased
<1>4. PendingInputConsistent'
  BY DEF SuspendForInput, Holds, SetStatus, EndAttempt, OneOwner,
         PendingInputConsistent
<1>5. ViewAgrees'
  <2>1. SetStatus(r, "waiting_input") /\ Emit(r, Event("input.required"))
    BY DEF SuspendForInput
  <2>2. Project(shown[r], Event("input.required")) = "waiting_input"
    BY ProjectCases
  <2>3. QED
    BY <2>1, <2>2, EmitShows
<1>6. SuspensionOpen'
  BY DEF SuspendForInput, Holds, Unlocked, SetStatus, SuspensionOpen
<1>7. NoneBeyondClaims' /\ CallbacksToParents'
  <2>1. NoneBeyondClaims'
    BY CloseNewest DEF SuspendForInput, Holds
  <2>2. CallbacksToParents'
    BY OnlyChildrenCallBack DEF SuspendForInput
  <2>3. QED
    BY <2>1, <2>2
<1>8. QED
  BY <1>1, <1>2, <1>3, <1>4, <1>5, <1>6, <1>7

\* A live request is of the attempt that goes on owning the Run.
LEMMA LiveRequestStep ==
  ASSUME IInv, NEW r \in Run, NEW n \in Attempt, LiveRequest(r, n)
  PROVE  IInv'
<1> USE DEF IInv, TypeOK
<1>1. TypeOK'
  BY ProjectCases DEF LiveRequest, Holds, Unlocked, SetStatus, Emit,
         WakeParentOnCommit, Status, AttemptStatus, LeaseState
<1>2. QueueMatches'
  BY DEF LiveRequest, Holds, Unlocked, SetStatus, OneOwner, QueueMatches
<1>3. OneOwner'
  BY DEF LiveRequest, Holds, Unlocked, SetStatus, OneOwner, Unreleased
<1>4. PendingInputConsistent'
  BY DEF LiveRequest, Holds, SetStatus, OneOwner, PendingInputConsistent
<1>5. ViewAgrees'
  <2>1. SetStatus(r, "waiting_input") /\ Emit(r, Event("input.required"))
    BY DEF LiveRequest
  <2>2. Project(shown[r], Event("input.required")) = "waiting_input"
    BY ProjectCases
  <2>3. QED
    BY <2>1, <2>2, EmitShows
<1>6. SuspensionOpen'
  BY DEF LiveRequest, Holds, Unlocked, SetStatus, SuspensionOpen
<1>7. NoneBeyondClaims' /\ CallbacksToParents'
  BY OnlyChildrenCallBack DEF LiveRequest, NoneBeyondClaims
<1>8. QED
  BY <1>1, <1>2, <1>3, <1>4, <1>5, <1>6, <1>7

\* A resolved live request leaves the Run running with the same attempt.
LEMMA LiveResolvedStep ==
  ASSUME IInv, NEW r \in Run, NEW n \in Attempt, LiveResolved(r, n)
  PROVE  IInv'
<1> USE DEF IInv, TypeOK
<1>1. TypeOK'
  BY ProjectCases DEF LiveResolved, Holds, Unlocked, SetStatus,
         ClearPendingInput, Emit, Status, AttemptStatus, LeaseState
<1>2. QueueMatches'
  BY DEF LiveResolved, Holds, Unlocked, SetStatus, OneOwner, QueueMatches
<1>3. OneOwner'
  BY DEF LiveResolved, Holds, Unlocked, SetStatus, OneOwner, Unreleased
<1>4. PendingInputConsistent'
  BY DEF LiveResolved, Holds, SetStatus, ClearPendingInput, OneOwner,
         PendingInputConsistent
<1>5. ViewAgrees'
  <2>1. SetStatus(r, "running") /\ Emit(r, Event("input.resolved"))
    BY DEF LiveResolved
  <2>2. Project(shown[r], Event("input.resolved")) = "running"
    BY ProjectCases
  <2>3. QED
    BY <2>1, <2>2, EmitShows
<1>6. SuspensionOpen'
  BY DEF LiveResolved, Holds, Unlocked, SetStatus, SuspensionOpen
<1>7. NoneBeyondClaims' /\ CallbacksToParents'
  BY DEF LiveResolved, Holds, OneOwner, NoneBeyondClaims, CallbacksToParents
<1>8. QED
  BY <1>1, <1>2, <1>3, <1>4, <1>5, <1>6, <1>7

\* An answer ends the pending request: the Run runs on if it still has an owner
\* and is queued, with its entry, if it has none.
LEMMA AnswerStep ==
  ASSUME IInv, NEW r \in Run, Answer(r)
  PROVE  IInv'
<1> USE DEF IInv, TypeOK
<1>1. TypeOK'
  <2>1. pending[r] \in Attempt
    BY DEF Answer, PendingInputConsistent
  <2>2. shown' \in [Run -> Status \cup {Absent}]
    <3>1. CASE current[r] # 0
      BY <3>1, ProjectInput DEF Answer, Emit, Status
    <3>2. CASE current[r] = 0
      BY <3>2, ProjectInput DEF Answer, Emit, Status
    <3>3. QED
      BY <3>1, <3>2
  <2>3. inbox' \in [Run -> SUBSET Command]
    BY <2>1 DEF Answer, Command
  <2>4. QED
    BY <2>2, <2>3 DEF Answer, SetStatus, ClearPendingInput, SyncQueueEntry,
       Status
<1>2. QueueMatches'
  BY DEF Answer, Unlocked, SetStatus, SyncQueueEntry, OneOwner, QueueMatches
<1>3. OneOwner'
  BY DEF Answer, Unlocked, SetStatus, OneOwner, Unreleased
<1>4. PendingInputConsistent'
  BY DEF Answer, SetStatus, ClearPendingInput, OneOwner,
         PendingInputConsistent
<1>5. ViewAgrees'
  <2>1. CASE current[r] # 0
    <3>1. SetStatus(r, "running") /\ Emit(r, InputAccepted(TRUE))
      BY <2>1 DEF Answer
    <3>2. QED
      BY <3>1, ProjectInput, EmitShows
  <2>2. CASE current[r] = 0
    <3>1. SetStatus(r, "queued") /\ Emit(r, InputAccepted(FALSE))
      BY <2>2 DEF Answer
    <3>2. QED
      BY <3>1, ProjectInput, EmitShows
  <2>3. QED
    BY <2>1, <2>2
<1>6. SuspensionOpen'
  BY DEF Answer, Unlocked, SetStatus, SuspensionOpen
<1>7. NoneBeyondClaims' /\ CallbacksToParents'
  BY DEF Answer, OneOwner, NoneBeyondClaims, CallbacksToParents
<1>8. QED
  BY <1>1, <1>2, <1>3, <1>4, <1>5, <1>6, <1>7

\* A request that expires cancels its Run, through its owner if it has one.
LEMMA ExpireInputStep ==
  ASSUME IInv, NEW r \in Run, ExpireInput(r)
  PROVE  IInv'
<1> USE DEF IInv, TypeOK
<1> DEFINE next == IF current[r] # 0 THEN "cancelling" ELSE "cancelled"
<1>1. SetStatus(r, next) /\ Emit(r, InputExpired(next))
  BY DEF ExpireInput
<1>2. next \in Status /\ Project(shown[r], InputExpired(next)) = next
  BY ProjectInput DEF Status
<1>3. ViewAgrees'
  BY <1>1, <1>2, EmitShows
<1>4. TypeOK'
  BY <1>1, <1>2 DEF ExpireInput, SetStatus, Emit, ClearPendingInput
<1>5. QueueMatches'
  BY DEF ExpireInput, SetStatus, OneOwner, QueueMatches
<1>6. OneOwner'
  BY DEF ExpireInput, SetStatus, OneOwner, Unreleased
<1>7. PendingInputConsistent'
  BY DEF ExpireInput, SetStatus, ClearPendingInput, OneOwner,
         PendingInputConsistent
<1>8. SuspensionOpen'
  BY DEF ExpireInput, Unlocked, SetStatus, SuspensionOpen
<1>9. NoneBeyondClaims' /\ CallbacksToParents'
  BY DEF ExpireInput, NoneBeyondClaims, CallbacksToParents
<1>10. QED
  BY <1>3, <1>4, <1>5, <1>6, <1>7, <1>8, <1>9

\* Waking a parent writes its status and its queue entry together, and only when
\* it has no owner.
LEMMA WakeWaitingParentStep ==
  ASSUME IInv, NEW c \in Run, NEW n \in Attempt, WakeWaitingParent(c, n)
  PROVE  IInv'
<1> USE DEF IInv, TypeOK
<1> DEFINE p == Parent[c]
<1>1. p \in Run
  BY DEF WakeWaitingParent, CallbacksToParents
<1>2. CASE ~(status[p] = "waiting_children" /\ current[p] = 0)
  <2>1. /\ wakes' \subseteq wakes
        /\ UNCHANGED <<status, current, claims, attempts, lease, retrySafe,
                       pending, overdue, queue, shown, inbox, handed, alive,
                       cascading, doomed, scan>>
    BY <1>2 DEF WakeWaitingParent
  <2>2. QED
    <3>1. TypeOK'
      BY <2>1
    <3>2. QueueMatches' /\ OneOwner' /\ PendingInputConsistent' /\ ViewAgrees'
      BY <2>1 DEF QueueMatches, OneOwner, Unreleased, PendingInputConsistent,
         ViewAgrees
    <3>3. SuspensionOpen' /\ NoneBeyondClaims' /\ CallbacksToParents'
      BY <2>1 DEF SuspensionOpen, NoneBeyondClaims, CallbacksToParents
    <3>4. QED
      BY <3>1, <3>2, <3>3
<1>3. CASE status[p] = "waiting_children" /\ current[p] = 0
  <2>1. /\ SetStatus(p, "queued")
        /\ Emit(p, Event("dependencies_ready"))
        /\ queue' = queue \cup {p}
        /\ wakes' \subseteq wakes
        /\ UNCHANGED <<current, claims, attempts, lease, retrySafe, pending,
                       overdue, inbox, handed, alive, cascading, doomed, scan>>
    BY <1>3 DEF WakeWaitingParent
  <2>2. ViewAgrees'
    <3>1. Project(shown[p], Event("dependencies_ready")) = "queued"
      BY ProjectCases
    <3>2. QED
      BY <1>1, <2>1, <3>1, EmitShows
  <2>3. TypeOK'
    BY <1>1, <2>1, <2>2 DEF SetStatus, ViewAgrees, Status
  <2>4. QueueMatches' /\ OneOwner'
    BY <1>1, <1>3, <2>1 DEF SetStatus, QueueMatches, OneOwner, Unreleased
  <2>5. PendingInputConsistent'
    BY <1>1, <1>3, <2>1 DEF SetStatus, PendingInputConsistent
  <2>6. SuspensionOpen' /\ NoneBeyondClaims' /\ CallbacksToParents'
    BY <1>1, <1>3, <2>1 DEF SetStatus, SuspensionOpen, NoneBeyondClaims,
       CallbacksToParents
  <2>7. QED
    BY <2>2, <2>3, <2>4, <2>5, <2>6
<1>4. QED
  BY <1>2, <1>3

\* A suspension, whether its reads were part of the step or made before.
LEMMA SuspendOnChildrenStep ==
  ASSUME IInv, NEW r \in Run, NEW n \in Attempt, NEW anyActive \in BOOLEAN,
         r \notin Live, status[r] = "running", current[r] = n,
         SuspendOnChildren(r, n, anyActive),
         scan' \in [Run -> {"none", "active", "done"}],
         \A q \in Run : scan'[q] = IF q = r THEN "none" ELSE scan[q]
  PROVE  IInv'
<1> USE DEF IInv, TypeOK
<1> DEFINE next == IF anyActive THEN "waiting_children" ELSE "queued"
<1> DEFINE event == Event(IF anyActive THEN "waiting_children"
                                       ELSE "dependencies_ready")
<1>1. SetStatus(r, next) /\ Emit(r, event)
  BY DEF SuspendOnChildren
<1>2. next \in {"waiting_children", "queued"} /\ Project(shown[r], event) = next
  <2>1. CASE anyActive
    BY <2>1, ProjectCases
  <2>2. CASE ~anyActive
    BY <2>2, ProjectCases
  <2>3. QED
    BY <2>1, <2>2
<1> HIDE DEF next, event
<1>3. ViewAgrees'
  BY <1>1, <1>2, EmitShows
<1>4. /\ attempts' = [attempts EXCEPT ![r][n] = "suspended"]
      /\ lease' = [lease EXCEPT ![r][n] = "released"]
      /\ current' = [current EXCEPT ![r] = 0]
      /\ status' = [status EXCEPT ![r] = next]
      /\ UNCHANGED <<claims, retrySafe, pending, overdue, inbox, handed, wakes,
                     cascading, doomed>>
  BY <1>1 DEF SuspendOnChildren, EndAttempt, SetStatus
<1>5. TypeOK'
  <2>1. queue' \subseteq Run /\ alive' \in [Run -> SUBSET Attempt]
    BY DEF SuspendOnChildren, SyncQueueEntry, ProcessEnds
  <2>2. shown' \in [Run -> Status \cup {Absent}]
    BY <1>2, <1>3, <1>4 DEF ViewAgrees, Status
  <2>3. status' \in [Run -> Status \cup {Absent}]
    BY <1>2, <1>4 DEF Status
  <2>4. attempts' \in [Run -> [Attempt -> AttemptStatus]]
    BY <1>4 DEF AttemptStatus
  <2>5. lease' \in [Run -> [Attempt -> LeaseState]]
    BY <1>4 DEF LeaseState
  <2>6. QED
    BY <1>4, <2>1, <2>2, <2>3, <2>4, <2>5
<1>6. QueueMatches'
  BY <1>4 DEF SuspendOnChildren, SyncQueueEntry, QueueMatches
<1>7. OneOwner'
  BY <1>2, <1>4 DEF OneOwner, Unreleased
<1>8. PendingInputConsistent'
  BY <1>2, <1>4 DEF PendingInputConsistent
<1>9. SuspensionOpen' /\ CallbacksToParents'
  BY <1>4 DEF SuspensionOpen, CallbacksToParents
<1>10. NoneBeyondClaims'
  BY <1>4, CloseNewest DEF SuspendOnChildren
<1>11. QED
  BY <1>3, <1>5, <1>6, <1>7, <1>8, <1>9, <1>10

\* No status but running of an owned Run may turn to waiting_children.
LEMMA OnlyRunningAwaits ==
  ASSUME IInv, NEW r \in Run, NEW n \in Attempt, NEW W, MayAwait(r, n, W)
  PROVE  status[r] = "running"
<1>1. current[r] # 0 /\ "waiting_children" \in ALLOWED_TRANSITIONS[status[r]]
  BY DEF MayAwait, Holds
<1>2. status[r] \in {"running", "waiting_input", "cancelling"}
  BY <1>1 DEF IInv, OneOwner
<1>3. /\ ALLOWED_TRANSITIONS["waiting_input"] =
           {"running", "queued", "cancelling", "cancelled", "failed"}
      /\ ALLOWED_TRANSITIONS["cancelling"] = {"cancelled"}
  BY DEF ALLOWED_TRANSITIONS
<1>4. QED
  BY <1>1, <1>2, <1>3

\* The suspension on children as one step, as on SQLite.
LEMMA SuspendForChildrenStep ==
  ASSUME IInv, NEW r \in Run, NEW n \in Attempt, NEW W \in SUBSET Children(r),
         SuspendForChildren(r, n, W)
  PROVE  IInv'
<1>1. /\ r \notin Live /\ current[r] = n /\ scan[r] = "none"
      /\ SuspendOnChildren(r, n, AnyActive(W)) /\ UNCHANGED scan
  BY DEF SuspendForChildren, MayAwait, Holds, Unlocked
<1>2. status[r] = "running"
  BY OnlyRunningAwaits DEF SuspendForChildren
<1>3. AnyActive(W) \in BOOLEAN
  BY DEF AnyActive
<1>4. scan' \in [Run -> {"none", "active", "done"}]
  BY <1>1 DEF IInv, TypeOK
<1>5. QED
  BY <1>1, <1>2, <1>3, <1>4, SuspendOnChildrenStep

\* The commit of a suspension finds its Run as the transaction locked it.
LEMMA CommitSuspensionStep ==
  ASSUME IInv, NEW r \in Run, CommitSuspension(r)
  PROVE  IInv'
<1>1. /\ status[r] = "running" /\ r \notin Live
      /\ current[r] \in Attempt
  BY DEF CommitSuspension, SuspensionOpen, OneOwner, IInv, TypeOK
<1>2. /\ SuspendOnChildren(r, current[r], scan[r] = "active")
      /\ scan' = [scan EXCEPT ![r] = "none"]
  BY DEF CommitSuspension
<1>3. /\ scan' \in [Run -> {"none", "active", "done"}]
      /\ \A q \in Run : scan'[q] = IF q = r THEN "none" ELSE scan[q]
  BY <1>2 DEF IInv, TypeOK
<1>4. (scan[r] = "active") \in BOOLEAN
  OBVIOUS
<1>5. QED
  BY <1>1, <1>2, <1>3, <1>4, SuspendOnChildrenStep

\* An accepted cancel clears the pending request and the claim index entry of a
\* Run that is not running, and leaves its owner in place.
LEMMA AcceptCancelStep ==
  ASSUME IInv, NEW r \in Run, AcceptCancel(r), doomed' \in [Run -> SUBSET Run]
  PROVE  IInv'
<1> USE DEF IInv, TypeOK
<1> DEFINE next == CancelTarget(r)
<1>1. /\ next \in {"cancelling", "cancelled"}
      /\ next = "cancelling" <=> \/ status[r] \in {"running", "cancelling"}
                                 \/ status[r] = "waiting_input" /\ current[r] # 0
  BY CancelTargetCases DEF AcceptCancel
<1> HIDE DEF next
<1>2. /\ status' = [status EXCEPT ![r] = next]
      /\ scan[r] = "none"
      /\ UNCHANGED <<current, claims, attempts, lease, retrySafe, inbox, handed,
                     alive, wakes, scan>>
  BY DEF AcceptCancel, SetStatus, Unlocked, next
<1>3. IF status[r] = "running" \/ next = status[r]
        THEN UNCHANGED <<pending, overdue>>
        ELSE /\ pending' = [pending EXCEPT ![r] = 0]
             /\ overdue' = overdue \ {r}
  BY DEF AcceptCancel, ClearPendingInput, next
<1>4. ViewAgrees'
  <2>1. CASE next = status[r]
    BY <1>2, <2>1 DEF AcceptCancel, ViewAgrees, next
  <2>2. CASE next # status[r]
    <3>1. SetStatus(r, next) /\ Emit(r, Event(next))
      BY <2>2 DEF AcceptCancel, next
    <3>2. Project(shown[r], Event(next)) = next
      BY <1>1, ProjectCases
    <3>3. QED
      BY <3>1, <3>2, EmitShows
  <2>3. QED
    BY <2>1, <2>2
<1>5. TypeOK'
  <2>1. queue' \subseteq Run /\ cascading' \subseteq Run
    BY DEF AcceptCancel, SyncQueueEntry
  <2>2. /\ status' \in [Run -> Status \cup {Absent}]
        /\ shown' \in [Run -> Status \cup {Absent}]
    BY <1>1, <1>2, <1>4 DEF ViewAgrees, Status
  <2>3. pending' \in [Run -> 0..MaxClaims] /\ overdue' \subseteq Run
    <3>1. CASE status[r] = "running" \/ next = status[r]
      BY <1>3, <3>1
    <3>2. CASE ~(status[r] = "running" \/ next = status[r])
      BY <1>3, <3>2
    <3>3. QED
      BY <3>1, <3>2
  <2>4. QED
    BY <1>2, <2>1, <2>2, <2>3
<1>6. QueueMatches'
  BY <1>1, <1>2 DEF AcceptCancel, SyncQueueEntry, QueueMatches
<1>7. OneOwner'
  BY <1>1, <1>2 DEF OneOwner, Unreleased
<1>8. PendingInputConsistent'
  BY <1>1, <1>2, <1>3 DEF PendingInputConsistent, OneOwner
<1>9. SuspensionOpen' /\ NoneBeyondClaims' /\ CallbacksToParents'
  BY <1>2 DEF SuspensionOpen, NoneBeyondClaims, CallbacksToParents
<1>10. QED
  BY <1>4, <1>5, <1>6, <1>7, <1>8, <1>9

\* The reaper closes the attempt of an expired lease; a lease that is not of the
\* current attempt does not exist, so it never closes the wrong one.
LEMMA ReapStep ==
  ASSUME IInv, NEW r \in Run, NEW n \in Attempt, Reap(r, n)
  PROVE  IInv'
<1> USE DEF IInv, TypeOK
<1> DEFINE next == AfterFailure(r)
<1> DEFINE ended == IF next = "cancelled" THEN "cancelled" ELSE "interrupted"
<1>1. current[r] = n
  BY DEF Reap, OneOwner, Unreleased
<1>2. /\ SetStatus(r, next)
      /\ EndAttempt(r, n, ended)
      /\ ClearPendingInput(r)
      /\ SyncQueueEntry(r)
      /\ Emit(r, FailureEvent(next))
      /\ scan[r] = "none"
      /\ UNCHANGED <<claims, retrySafe, inbox, handed, alive, wakes, cascading,
                     doomed, scan>>
  BY <1>1 DEF Reap, Unlocked
<1>3. next \in {"cancelled", "queued", "failed"}
  BY AfterFailureCases
<1> ended \in {"cancelled", "interrupted"}
  OBVIOUS
<1> HIDE DEF next, ended
<1>4. ViewAgrees'
  BY <1>2, <1>3, ProjectFailure, EmitShows
<1>5. TypeOK'
  <2>1. /\ status' \in [Run -> Status \cup {Absent}]
        /\ shown' \in [Run -> Status \cup {Absent}]
    BY <1>2, <1>3, <1>4 DEF SetStatus, ViewAgrees, Status
  <2>2. attempts' \in [Run -> [Attempt -> AttemptStatus]]
    BY <1>2 DEF EndAttempt, AttemptStatus
  <2>3. lease' \in [Run -> [Attempt -> LeaseState]]
    BY <1>2 DEF EndAttempt, LeaseState
  <2>4. /\ current' \in [Run -> 0..MaxClaims]
        /\ pending' \in [Run -> 0..MaxClaims]
        /\ overdue' \subseteq Run
        /\ queue' \subseteq Run
    BY <1>2 DEF EndAttempt, ClearPendingInput, SyncQueueEntry
  <2>5. QED
    BY <1>2, <2>1, <2>2, <2>3, <2>4
<1>6. QueueMatches'
  BY <1>2 DEF SetStatus, EndAttempt, SyncQueueEntry, QueueMatches
<1>7. OneOwner'
  <2>1. /\ status' = [status EXCEPT ![r] = next]
        /\ attempts' = [attempts EXCEPT ![r][n] = ended]
        /\ lease' = [lease EXCEPT ![r][n] = "released"]
        /\ current' = [current EXCEPT ![r] = 0]
        /\ claims' = claims
    BY <1>2 DEF SetStatus, EndAttempt
  <2>2. QED
    BY <1>1, <1>3, <2>1 DEF OneOwner, Unreleased
<1>8. PendingInputConsistent'
  BY <1>2, <1>3 DEF SetStatus, EndAttempt, ClearPendingInput,
     PendingInputConsistent
<1>9. SuspensionOpen' /\ CallbacksToParents'
  BY <1>2 DEF SetStatus, SuspensionOpen, CallbacksToParents
<1>10. NoneBeyondClaims'
  BY <1>1, <1>2, CloseNewest
<1>11. QED
  BY <1>4, <1>5, <1>6, <1>7, <1>8, <1>9, <1>10

-----------------------------------------------------------------------------
(* Steps that leave the rows of the Runs as they are. *)

\* Steps that write no row of a Run but its lease, its deadline or its lock.
LEMMA RowsUntouched ==
  ASSUME IInv, TypeOK',
         UNCHANGED <<status, current, claims, attempts, pending, queue, shown>>,
         \A r \in Run, n \in Attempt : Unreleased(r, n)' <=> Unreleased(r, n),
         \A r \in overdue' \ overdue : pending[r] # 0,
         \A r \in Run : scan'[r] # "none" =>
           scan[r] # "none" \/ (status[r] = "running" /\ r \notin Live),
         wakes' \subseteq wakes
  PROVE  IInv'
<1> USE DEF IInv
<1>1. QueueMatches' /\ ViewAgrees' /\ NoneBeyondClaims' /\ CallbacksToParents'
  BY DEF QueueMatches, ViewAgrees, NoneBeyondClaims, CallbacksToParents
<1>2. OneOwner'
  <2>1. ASSUME NEW r \in Run
        PROVE  \A n \in Attempt :
                 (Unreleased(r, n) \/ attempts[r][n] = "running")' =>
                   current'[r] = n
    BY DEF OneOwner
  <2>2. ASSUME NEW r \in Run, current'[r] # 0
        PROVE  Unreleased(r, current[r])'
    <3>1. current[r] \in Attempt
      BY <2>2 DEF TypeOK
    <3>2. QED
      BY <2>2, <3>1 DEF OneOwner
  <2>3. QED
    BY <2>1, <2>2 DEF OneOwner
<1>3. PendingInputConsistent'
  BY DEF PendingInputConsistent
<1>4. SuspensionOpen'
  BY DEF SuspensionOpen
<1>5. QED
  BY <1>1, <1>2, <1>3, <1>4

\* A suspension transaction that opens locks a Run seen running.
LEMMA ReadChildrenStep ==
  ASSUME IInv, NEW r \in Run, NEW n \in Attempt, NEW W \in SUBSET Children(r),
         ReadChildren(r, n, W)
  PROVE  IInv'
<1> USE DEF IInv
<1>1. status[r] = "running" /\ r \notin Live
  BY OnlyRunningAwaits DEF ReadChildren, MayAwait
<1>2. TypeOK'
  BY DEF ReadChildren, dbVars, TypeOK
<1>3. \A q \in Run : scan'[q] # "none" => scan[q] # "none" \/ q = r
  BY DEF ReadChildren, TypeOK
<1>4. QED
  BY <1>1, <1>2, <1>3, RowsUntouched DEF ReadChildren, dbVars, Unreleased

\* Handing commands out touches no row but theirs.
LEMMA DeliverControlsStep ==
  ASSUME IInv, NEW r \in Run, NEW n \in Attempt, DeliverControls(r, n)
  PROVE  IInv'
<1> USE DEF IInv
<1>1. TypeOK'
  BY DEF DeliverControls, TypeOK
<1>2. QED
  BY <1>1, RowsUntouched DEF DeliverControls, Unreleased

\* A steering text is shown as an event that leaves the status alone.
LEMMA SteerStep ==
  ASSUME IInv, NEW r \in Run, Steer(r)
  PROVE  IInv'
<1> USE DEF IInv
<1>1. shown' = shown
  BY ProjectCases DEF Steer, Emit, TypeOK
<1>2. current[r] \in Attempt
  BY DEF Steer, TypeOK
<1>3. TypeOK'
  BY <1>1, <1>2 DEF Steer, TypeOK, Command
<1>4. QED
  BY <1>1, <1>3, RowsUntouched DEF Steer, Unreleased

\* A process that stops or dies writes no row; its transaction rolls back.
LEMMA ProcessStep ==
  ASSUME IInv, NEW r \in Run, NEW n \in Attempt,
         WorkerStops(r, n) \/ WorkerCrashes(r, n)
  PROVE  IInv'
<1> USE DEF IInv
<1>1. /\ UNCHANGED <<dbVars, cascading, doomed>>
      /\ alive' = [alive EXCEPT ![r] = @ \ {n}]
      /\ wakes' \subseteq wakes
  BY DEF WorkerStops, WorkerCrashes, ProcessEnds
<1>2. /\ scan' \in [Run -> {"none", "active", "done"}]
      /\ \A q \in Run : scan'[q] # "none" => scan[q] # "none"
  <2>1. CASE WorkerStops(r, n)
    BY <2>1 DEF WorkerStops, TypeOK
  <2>2. CASE WorkerCrashes(r, n)
    BY <2>2 DEF WorkerCrashes, TypeOK
  <2>3. QED
    BY <2>1, <2>2
<1>3. TypeOK'
  BY <1>1, <1>2 DEF dbVars, TypeOK
<1>4. QED
  BY <1>1, <1>2, <1>3, RowsUntouched DEF dbVars, Unreleased

\* The bookkeeping of a cascade writes no row.
LEMMA CascadeStep ==
  ASSUME IInv, NEW p \in Run,
         \/ CascadeRead(p)
         \/ \E c \in Run : CascadeRefused(p, c)
         \/ CascadeLost(p)
  PROVE  IInv'
<1> USE DEF IInv
<1>1. /\ UNCHANGED <<dbVars, alive, wakes, scan>>
      /\ cascading' \subseteq cascading
  BY DEF CascadeRead, CascadeRefused, CascadeLost
<1>2. doomed' \in [Run -> SUBSET Run]
  <2>1. CancellableChildren(p) \subseteq Run
    BY DEF CancellableChildren, Children
  <2>2. QED
    <3>1. CASE CascadeRead(p)
      BY <2>1, <3>1 DEF CascadeRead, TypeOK
    <3>2. CASE (\E c \in Run : CascadeRefused(p, c)) \/ CascadeLost(p)
      BY <3>2 DEF CascadeRefused, CascadeLost, TypeOK
    <3>3. QED
      BY <3>1, <3>2
<1>3. TypeOK'
  BY <1>1, <1>2 DEF dbVars, TypeOK
<1>4. QED
  BY <1>1, <1>3, RowsUntouched DEF dbVars, Unreleased

\* A deadline passes only for a request that is pending.
LEMMA InputOverdueStep ==
  ASSUME IInv, NEW r \in Run, InputOverdue(r)
  PROVE  IInv'
<1> USE DEF IInv
<1>1. TypeOK'
  BY DEF InputOverdue, TypeOK
<1>2. QED
  BY <1>1, RowsUntouched DEF InputOverdue, Unreleased

\* A lease that expires is still unreleased, so its attempt remains the owner.
LEMMA LeaseExpiresStep ==
  ASSUME IInv, NEW r \in Run, NEW n \in Attempt, LeaseExpires(r, n)
  PROVE  IInv'
<1> USE DEF IInv
<1>1. lease[r][n] = "held" /\ lease' = [lease EXCEPT ![r][n] = "expired"]
  BY DEF LeaseExpires
<1>2. TypeOK'
  <2>1. lease' \in [Run -> [Attempt -> LeaseState]]
    BY <1>1 DEF TypeOK, LeaseState
  <2>2. QED
    BY <2>1 DEF LeaseExpires, TypeOK
<1>3. \A q \in Run, m \in Attempt : Unreleased(q, m)' <=> Unreleased(q, m)
  BY <1>1 DEF Unreleased, TypeOK
<1>4. QED
  BY <1>2, <1>3, RowsUntouched DEF LeaseExpires

-----------------------------------------------------------------------------
(* The invariant is inductive. *)

\* Whatever a worker does keeps the invariant.
LEMMA WorkerStep ==
  ASSUME IInv, NEW r \in Run, NEW n \in Attempt, Worker(r, n)
  PROVE  IInv'
<1>1. CASE \E outcome \in {"succeeded", "cancelled"} : Finish(r, n, outcome)
  BY <1>1, FinishStep
<1>2. CASE Fail(r, n)
  BY <1>2, FailStep
<1>3. CASE SuspendForInput(r, n)
  BY <1>3, SuspendForInputStep
<1>4. CASE \E W \in SUBSET Children(r) : SuspendForChildren(r, n, W)
  BY <1>4, SuspendForChildrenStep
<1>5. CASE \E W \in SUBSET Children(r) : ReadChildren(r, n, W)
  BY <1>5, ReadChildrenStep
<1>6. CASE LiveRequest(r, n)
  BY <1>6, LiveRequestStep
<1>7. CASE LiveResolved(r, n)
  BY <1>7, LiveResolvedStep
<1>8. CASE DeliverControls(r, n)
  BY <1>8, DeliverControlsStep
<1>9. CASE WorkerStops(r, n) \/ WorkerCrashes(r, n)
  BY <1>9, ProcessStep
<1>10. CASE WakeWaitingParent(r, n)
  BY <1>10, WakeWaitingParentStep
<1>11. QED
  BY <1>1, <1>2, <1>3, <1>4, <1>5, <1>6, <1>7, <1>8, <1>9, <1>10 DEF Worker

\* Whatever a user does keeps the invariant.
LEMMA UserStep ==
  ASSUME IInv, NEW r \in Run, User(r)
  PROVE  IInv'
<1>1. CASE \E safe \in BOOLEAN : CreateRun(r, safe)
  BY <1>1, CreateRunStep
<1>2. CASE Answer(r)
  BY <1>2, AnswerStep
<1>3. CASE Steer(r)
  BY <1>3, SteerStep
<1>4. CASE Cancel(r)
  <2>1. AcceptCancel(r) /\ doomed' = doomed
    BY <1>4 DEF Cancel
  <2>2. doomed' \in [Run -> SUBSET Run]
    BY <2>1 DEF IInv, TypeOK
  <2>3. QED
    BY <2>1, <2>2, AcceptCancelStep
<1>5. CASE \E c \in Run : CascadeCancel(r, c)
  <2>1. PICK c \in Run : CascadeCancel(r, c)
    BY <1>5
  <2>2. AcceptCancel(c) /\ doomed' = [doomed EXCEPT ![r] = @ \ {c}]
    BY <2>1 DEF CascadeCancel
  <2>3. doomed' \in [Run -> SUBSET Run]
    BY <2>2 DEF IInv, TypeOK
  <2>4. QED
    BY <2>2, <2>3, AcceptCancelStep
<1>6. CASE \/ CascadeRead(r)
           \/ \E c \in Run : CascadeRefused(r, c)
           \/ CascadeLost(r)
  BY <1>6, CascadeStep
<1>7. QED
  BY <1>1, <1>2, <1>3, <1>4, <1>5, <1>6 DEF User

\* So does a step that leaves the queue alone.
LEMMA StutterStep == IInv /\ UNCHANGED vars => IInv'
BY DEF IInv, TypeOK, QueueMatches, OneOwner, Unreleased, PendingInputConsistent,
   ViewAgrees, SuspensionOpen, NoneBeyondClaims, CallbacksToParents, vars

\* Every step of the queue keeps the invariant.
LEMMA Inductive == IInv /\ [Next]_vars => IInv'
<1> SUFFICES ASSUME IInv, [Next]_vars PROVE IInv'
  OBVIOUS
<1>1. CASE \E r \in Run : User(r)
  BY <1>1, UserStep
<1>2. CASE \E r \in Run : Claim(r)
  BY <1>2, ClaimStep
<1>3. CASE \E r \in Run : CommitSuspension(r)
  BY <1>3, CommitSuspensionStep
<1>4. CASE \E r \in Run : InputOverdue(r)
  BY <1>4, InputOverdueStep
<1>5. CASE \E r \in Run : ExpireInput(r)
  BY <1>5, ExpireInputStep
<1>6. CASE \E r \in Run, n \in Attempt : Worker(r, n)
  BY <1>6, WorkerStep
<1>7. CASE \E r \in Run, n \in Attempt : LeaseExpires(r, n)
  BY <1>7, LeaseExpiresStep
<1>8. CASE \E r \in Run, n \in Attempt : Reap(r, n)
  BY <1>8, ReapStep
<1>9. CASE UNCHANGED vars
  BY <1>9, StutterStep
<1>10. QED
  BY <1>1, <1>2, <1>3, <1>4, <1>5, <1>6, <1>7, <1>8, <1>9 DEF Next

\* In every reachable state the claim index, the ownership of a Run, its
\* pending input and the view of clients agree with its row.
THEOREM Invariance == Spec => []IInv
<1>1. Init => IInv
  BY Initially
<1>2. IInv /\ [Next]_vars => IInv'
  BY Inductive
<1>3. QED
  BY <1>1, <1>2, PTL DEF Spec

\* Every variable keeps its type.
THEOREM TypeCorrect == Spec => []TypeOK
BY Invariance, PTL DEF IInv

\* sync_run_queue_entry is called wherever it has to be.
THEOREM QueueCorrect == Spec => []QueueMatches
BY Invariance, PTL DEF IInv

\* Leases and the row locks keep a Run in the hands of one attempt.
THEOREM OwnerCorrect == Spec => []OneOwner
BY Invariance, PTL DEF IInv

\* The constraint run_pending_input_consistent never rejects a transaction.
THEOREM PendingInputCorrect == Spec => []PendingInputConsistent
BY Invariance, PTL DEF IInv

\* What clients fold from the events is what the rows say.
THEOREM ViewCorrect == Spec => []ViewAgrees
BY Invariance, PTL DEF IInv
=============================================================================
