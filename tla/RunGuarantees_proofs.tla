------------------------ MODULE RunGuarantees_proofs ------------------------
(***************************************************************************)
(* What follows from the invariant of RunLifecycle: the queue implements   *)
(* RunProtocol, attempts are fenced, failures are bounded, and nothing     *)
(* unsafe is retried.  All of it rests on one classification of the steps  *)
(* of the queue by what they do to the row of a Run (StepKinds).  The last *)
(* part is about parents and children: who wakes a parent, and whom a      *)
(* cancel reaches.                                                         *)
(***************************************************************************)
EXTENDS RunLifecycle_proofs, FiniteSetTheorems

-----------------------------------------------------------------------------
(* The five kinds of steps. *)

\* The row of no Run changes.
Rest == UNCHANGED <<status, current, claims, attempts>>

\* A Run is born.
Born(r) ==
  /\ status[r] = Absent
  /\ status' = [status EXCEPT ![r] = "queued"]
  /\ UNCHANGED <<current, claims, attempts>>

\* A Run is taken by a new attempt.
Taken(r) ==
  /\ status[r] = "queued" /\ current[r] = 0
  /\ claims[r] + 1 \in Attempt
  /\ status' = [status EXCEPT ![r] = "running"]
  /\ current' = [current EXCEPT ![r] = claims[r] + 1]
  /\ claims' = [claims EXCEPT ![r] = claims[r] + 1]
  /\ attempts' = [attempts EXCEPT ![r][claims[r] + 1] = "running"]

\* A Run changes status, with the attempt that owns it or with none.
Turned(r, s) ==
  /\ status[r] \in Status
  /\ s \in ALLOWED_TRANSITIONS[status[r]]
  /\ IF current[r] # 0 THEN {status[r], s} \subseteq Protocol!Owned
                       ELSE {status[r], s} \subseteq Protocol!Unowned
  /\ status' = [status EXCEPT ![r] = s]
  /\ UNCHANGED <<current, claims, attempts>>

\* The attempt that owns a Run ends; a worker whose lease has expired cannot
\* end it, and a failure leads where AfterFailure says.
Ended(r, s, outcome) ==
  /\ current[r] # 0
  /\ status[r] \in Protocol!Owned
  /\ s \in ALLOWED_TRANSITIONS[status[r]] \cap Protocol!Unowned
  /\ outcome \in AttemptStatus \ {"none", "running"}
  /\ status' = [status EXCEPT ![r] = s]
  /\ current' = [current EXCEPT ![r] = 0]
  /\ attempts' = [attempts EXCEPT ![r][current[r]] = outcome]
  /\ claims' = claims
  /\ lease'[r][current[r]] = "released"
  /\ lease[r][current[r]] = "expired" /\ Unlocked(r) =>
       outcome \in {"interrupted", "cancelled"}
  /\ outcome \in {"failed", "interrupted"} => s = AfterFailure(r)

EndedSomehow(r) ==
  \E s \in Status, outcome \in AttemptStatus : Ended(r, s, outcome)

USE RunAssumption, BoundAssumption DEF Attempt

\* The two halves of the statuses, and what is allowed from each status.
LEMMA Halves ==
  /\ Protocol!Owned \subseteq Status
  /\ Protocol!Unowned \subseteq Status
  /\ Protocol!Owned = {"running", "waiting_input", "cancelling"}
  /\ Protocol!Unowned = {"queued", "waiting_input", "waiting_children",
                         "succeeded", "failed", "cancelled"}
BY DEF Protocol!Owned, Protocol!Unowned, Protocol!Status, Status

\* The transitions the code declares legal (ALLOWED_TRANSITIONS), spelled out for
\* the statuses that are not terminal.
LEMMA Allowed ==
  /\ ALLOWED_TRANSITIONS["queued"] = {"running", "cancelled"}
  /\ ALLOWED_TRANSITIONS["running"] =
       {"waiting_input", "waiting_children", "cancelling", "queued",
        "succeeded", "failed"}
  /\ ALLOWED_TRANSITIONS["waiting_input"] =
       {"running", "queued", "cancelling", "cancelled", "failed"}
  /\ ALLOWED_TRANSITIONS["waiting_children"] = {"queued", "cancelled"}
  /\ ALLOWED_TRANSITIONS["cancelling"] = {"cancelled"}
BY DEF ALLOWED_TRANSITIONS

\* Closing the attempt that owns a Run, with the lease released.
LEMMA CloseOwner ==
  ASSUME IInv, NEW r \in Run, NEW n \in Attempt, current[r] = n,
         NEW s \in Status, NEW outcome \in AttemptStatus \ {"none", "running"},
         s \in ALLOWED_TRANSITIONS[status[r]] \cap Protocol!Unowned,
         SetStatus(r, s), EndAttempt(r, n, outcome), claims' = claims,
         lease[r][n] = "expired" /\ Unlocked(r) =>
           outcome \in {"interrupted", "cancelled"},
         outcome \in {"failed", "interrupted"} => s = AfterFailure(r)
  PROVE  EndedSomehow(r)
<1>1. current[r] # 0 /\ status[r] \in Protocol!Owned
  BY Halves DEF IInv, OneOwner
<1>2. lease'[r][n] = "released"
  BY DEF EndAttempt, IInv, TypeOK
<1>3. Ended(r, s, outcome)
  BY <1>1, <1>2 DEF Ended, SetStatus, EndAttempt
<1>4. QED
  BY <1>3 DEF EndedSomehow

\* A failed attempt, closed by its worker or by the reaper.
LEMMA CloseFailed ==
  ASSUME IInv, NEW r \in Run, NEW n \in Attempt, current[r] = n,
         NEW outcome \in {"failed", "interrupted", "cancelled"},
         SetStatus(r, AfterFailure(r)), EndAttempt(r, n, outcome),
         claims' = claims,
         lease[r][n] = "expired" /\ Unlocked(r) =>
           outcome \in {"interrupted", "cancelled"}
  PROVE  EndedSomehow(r)
<1>1. status[r] \in {"running", "waiting_input", "cancelling"}
  BY DEF IInv, OneOwner
<1>2. /\ AfterFailure(r) \in {"cancelled", "queued", "failed"}
      /\ status[r] = "cancelling" <=> AfterFailure(r) = "cancelled"
      /\ status[r] = "waiting_input" => AfterFailure(r) = "failed"
  BY AfterFailureCases
<1>3. AfterFailure(r) \in ALLOWED_TRANSITIONS[status[r]] \cap Protocol!Unowned
  BY <1>1, <1>2, Allowed, Halves
<1>4. AfterFailure(r) \in Status /\ outcome \in AttemptStatus \ {"none", "running"}
  BY <1>2 DEF Status, AttemptStatus
<1>5. QED
  BY <1>3, <1>4, CloseOwner

\* A workflow suspends on its children, or finds that it need not.
LEMMA CloseSuspended ==
  ASSUME IInv, NEW r \in Run, NEW n \in Attempt, NEW anyActive \in BOOLEAN,
         current[r] = n, status[r] = "running",
         lease[r][n] = "expired" => ~Unlocked(r),
         SuspendOnChildren(r, n, anyActive)
  PROVE  EndedSomehow(r)
<1> DEFINE next == IF anyActive THEN "waiting_children" ELSE "queued"
<1>1. /\ SetStatus(r, next) /\ EndAttempt(r, n, "suspended") /\ claims' = claims
  BY DEF SuspendOnChildren
<1>2. next \in {"waiting_children", "queued"}
  OBVIOUS
<1> HIDE DEF next
<1>3. /\ next \in Status
      /\ next \in ALLOWED_TRANSITIONS[status[r]] \cap Protocol!Unowned
      /\ "suspended" \in AttemptStatus \ {"none", "running"}
  BY <1>2, Allowed, Halves DEF Status, AttemptStatus
<1>4. QED
  BY <1>1, <1>3, CloseOwner

\* Handlers that leave the attempts alone.
LEMMA TurnedBy ==
  ASSUME NEW r \in Run, NEW s, status[r] \in Status, SetStatus(r, s),
         s \in ALLOWED_TRANSITIONS[status[r]],
         IF current[r] # 0 THEN {status[r], s} \subseteq Protocol!Owned
                           ELSE {status[r], s} \subseteq Protocol!Unowned,
         UNCHANGED <<current, claims, attempts>>
  PROVE  s \in Status /\ Turned(r, s)
BY Halves DEF SetStatus, Turned

\* Every step of a worker is of one of these kinds, for its own Run or, when
\* it wakes a parent, for that one.
LEMMA WorkerStepKinds ==
  ASSUME IInv, NEW r \in Run, NEW n \in Attempt, Worker(r, n)
  PROVE  \/ Rest
         \/ \E q \in Run : EndedSomehow(q)
         \/ \E q \in Run, s \in Status : Turned(q, s)
<1>1. ASSUME NEW outcome \in {"succeeded", "cancelled"}, Finish(r, n, outcome)
      PROVE  EndedSomehow(r)
  <2>1. /\ current[r] = n /\ lease[r][n] = "held" /\ claims' = claims
        /\ outcome \in ALLOWED_TRANSITIONS[status[r]]
        /\ SetStatus(r, outcome) /\ EndAttempt(r, n, outcome)
    BY <1>1 DEF Finish, Holds
  <2>2. /\ outcome \in Status /\ outcome \in Protocol!Unowned
        /\ outcome \in AttemptStatus \ {"none", "running"}
    BY Halves DEF Status, AttemptStatus
  <2>3. QED
    BY <2>1, <2>2, CloseOwner
<1>2. CASE Fail(r, n)
  <2>1. /\ current[r] = n /\ lease[r][n] = "held" /\ claims' = claims
        /\ SetStatus(r, AfterFailure(r)) /\ EndAttempt(r, n, "failed")
    BY <1>2 DEF Fail, Holds
  <2>2. QED
    BY <2>1, CloseFailed
<1>3. CASE SuspendForInput(r, n)
  <2>1. /\ current[r] = n /\ lease[r][n] = "held" /\ claims' = claims
        /\ "waiting_input" \in ALLOWED_TRANSITIONS[status[r]]
        /\ SetStatus(r, "waiting_input") /\ EndAttempt(r, n, "suspended")
    BY <1>3 DEF SuspendForInput, Holds
  <2>2. /\ "waiting_input" \in Status /\ "waiting_input" \in Protocol!Unowned
        /\ "suspended" \in AttemptStatus \ {"none", "running"}
    BY Halves DEF Status, AttemptStatus
  <2>3. QED
    BY <2>1, <2>2, CloseOwner
<1>4. ASSUME NEW W \in SUBSET Children(r), SuspendForChildren(r, n, W)
      PROVE  EndedSomehow(r)
  <2>1. /\ status[r] = "running" /\ current[r] = n /\ lease[r][n] = "held"
        /\ SuspendOnChildren(r, n, AnyActive(W))
    BY <1>4, OnlyRunningAwaits DEF SuspendForChildren, MayAwait, Holds
  <2>2. AnyActive(W) \in BOOLEAN
    BY DEF AnyActive
  <2>3. QED
    BY <2>1, <2>2, CloseSuspended
<1>5. CASE \E W \in SUBSET Children(r) : ReadChildren(r, n, W)
  BY <1>5 DEF ReadChildren, dbVars, Rest
<1>6. CASE LiveRequest(r, n)
  <2>1. /\ status[r] = "running" /\ current[r] # 0
        /\ SetStatus(r, "waiting_input") /\ UNCHANGED <<current, claims, attempts>>
    BY <1>6 DEF LiveRequest, Holds
  <2>2. QED
    BY <2>1, TurnedBy, Allowed, Halves DEF Status
<1>7. CASE LiveResolved(r, n)
  <2>1. /\ status[r] = "waiting_input" /\ current[r] # 0
        /\ SetStatus(r, "running") /\ UNCHANGED <<current, claims, attempts>>
    BY <1>7 DEF LiveResolved, Holds, IInv, PendingInputConsistent
  <2>2. QED
    BY <2>1, TurnedBy, Allowed, Halves DEF Status
<1>8. CASE DeliverControls(r, n) \/ WorkerStops(r, n) \/ WorkerCrashes(r, n)
  BY <1>8 DEF DeliverControls, WorkerStops, WorkerCrashes, dbVars, Rest
<1>9. CASE WakeWaitingParent(r, n)
  <2>1. Parent[r] \in Run /\ UNCHANGED <<current, claims, attempts>>
    BY <1>9 DEF WakeWaitingParent, IInv, CallbacksToParents
  <2>2. CASE status[Parent[r]] = "waiting_children" /\ current[Parent[r]] = 0
    <3>1. SetStatus(Parent[r], "queued")
      BY <1>9, <2>2 DEF WakeWaitingParent
    <3>2. QED
      BY <2>1, <2>2, <3>1, TurnedBy, Allowed, Halves DEF Status
  <2>3. CASE ~(status[Parent[r]] = "waiting_children" /\ current[Parent[r]] = 0)
    BY <1>9, <2>1, <2>3 DEF WakeWaitingParent, Rest
  <2>4. QED
    BY <2>2, <2>3
<1>10. QED
  BY <1>1, <1>2, <1>3, <1>4, <1>5, <1>6, <1>7, <1>8, <1>9 DEF Worker

\* Every step of a user: nothing, a new Run, or a change of status.
LEMMA UserStepKinds ==
  ASSUME IInv, NEW r \in Run, User(r)
  PROVE  \/ Rest
         \/ Born(r)
         \/ \E q \in Run, s \in Status : Turned(q, s)
<1>1. CASE \E safe \in BOOLEAN : CreateRun(r, safe)
  BY <1>1 DEF CreateRun, SetStatus, Born
<1>2. CASE Answer(r)
  <2>1. /\ status[r] = "waiting_input"
        /\ SetStatus(r, IF current[r] # 0 THEN "running" ELSE "queued")
        /\ UNCHANGED <<current, claims, attempts>>
    BY <1>2 DEF Answer
  <2>2. CASE current[r] # 0
    BY <2>1, <2>2, TurnedBy, Allowed, Halves DEF Status
  <2>3. CASE current[r] = 0
    BY <2>1, <2>3, TurnedBy, Allowed, Halves DEF Status
  <2>4. QED
    BY <2>2, <2>3
<1>3. CASE Steer(r)
  BY <1>3 DEF Steer, Rest
<1>4. ASSUME NEW c \in Run, AcceptCancel(c)
      PROVE  Rest \/ \E s \in Status : Turned(c, s)
  <2> DEFINE next == CancelTarget(c)
  <2>1. /\ status[c] \in Status \ {"succeeded", "failed"}
        /\ SetStatus(c, next) /\ UNCHANGED <<current, claims, attempts>>
    BY <1>4 DEF AcceptCancel
  <2>2. /\ next \in {"cancelling", "cancelled"}
        /\ next = "cancelling" <=> \/ status[c] \in {"running", "cancelling"}
                                   \/ status[c] = "waiting_input" /\ current[c] # 0
    BY <2>1, CancelTargetCases
  <2>3. current[c] # 0 => status[c] \in {"running", "waiting_input", "cancelling"}
    BY DEF IInv, OneOwner
  <2>4. status[c] \in {"running", "cancelling"} => current[c] # 0
    BY DEF IInv, OneOwner
  <2> HIDE DEF next
  <2>5. CASE next = status[c]
    BY <2>1, <2>5 DEF SetStatus, Rest, IInv, TypeOK
  <2>6. CASE next # status[c]
    <3>1. next \in ALLOWED_TRANSITIONS[status[c]]
      BY <2>1, <2>2, <2>6, Allowed DEF Status
    <3>2. IF current[c] # 0 THEN {status[c], next} \subseteq Protocol!Owned
                            ELSE {status[c], next} \subseteq Protocol!Unowned
      BY <2>1, <2>2, <2>3, <2>4, Halves DEF Status
    <3>3. QED
      BY <2>1, <3>1, <3>2, TurnedBy
  <2>7. QED
    BY <2>5, <2>6
<1>5. CASE Cancel(r)
  BY <1>4, <1>5 DEF Cancel
<1>6. CASE \E c \in Run : CascadeCancel(r, c)
  BY <1>4, <1>6 DEF CascadeCancel
<1>7. CASE \/ CascadeRead(r)
           \/ \E c \in Run : CascadeRefused(r, c)
           \/ CascadeLost(r)
  BY <1>7 DEF CascadeRead, CascadeRefused, CascadeLost, dbVars, Rest
<1>8. QED
  BY <1>1, <1>2, <1>3, <1>5, <1>6, <1>7 DEF User

\* Every step of the queue is of one of the five kinds.
LEMMA StepKinds ==
  ASSUME IInv, [Next]_vars
  PROVE  \/ Rest
         \/ \E r \in Run : Born(r)
         \/ \E r \in Run : Taken(r)
         \/ \E r \in Run, s \in Status : Turned(r, s)
         \/ \E r \in Run : EndedSomehow(r)
<1>1. CASE \E r \in Run : User(r)
  BY <1>1, UserStepKinds
<1>2. ASSUME NEW r \in Run, Claim(r)
      PROVE  Taken(r)
  <2>1. claims[r] + 1 \in Attempt
    BY <1>2 DEF Claim, IInv, TypeOK
  <2>2. QED
    BY <1>2, <2>1 DEF Claim, SetStatus, Taken
<1>3. ASSUME NEW r \in Run, CommitSuspension(r)
      PROVE  EndedSomehow(r)
  <2>1. /\ status[r] = "running" /\ current[r] \in Attempt /\ ~Unlocked(r)
        /\ SuspendOnChildren(r, current[r], scan[r] = "active")
    BY <1>3 DEF CommitSuspension, SuspensionOpen, OneOwner, Unlocked, IInv,
       TypeOK
  <2>2. (scan[r] = "active") \in BOOLEAN
    OBVIOUS
  <2>3. QED
    BY <2>1, <2>2, CloseSuspended
<1>4. CASE \E r \in Run : InputOverdue(r)
  BY <1>4 DEF InputOverdue, Rest
<1>5. ASSUME NEW r \in Run, ExpireInput(r)
      PROVE  \E s \in Status : Turned(r, s)
  <2>1. /\ status[r] = "waiting_input"
        /\ SetStatus(r, IF current[r] # 0 THEN "cancelling" ELSE "cancelled")
        /\ UNCHANGED <<current, claims, attempts>>
    BY <1>5 DEF ExpireInput
  <2>2. CASE current[r] # 0
    BY <2>1, <2>2, TurnedBy, Allowed, Halves DEF Status
  <2>3. CASE current[r] = 0
    BY <2>1, <2>3, TurnedBy, Allowed, Halves DEF Status
  <2>4. QED
    BY <2>2, <2>3
<1>6. CASE \E r \in Run, n \in Attempt : Worker(r, n)
  BY <1>6, WorkerStepKinds
<1>7. CASE \E r \in Run, n \in Attempt : LeaseExpires(r, n)
  BY <1>7 DEF LeaseExpires, Rest
<1>8. ASSUME NEW r \in Run, NEW n \in Attempt, Reap(r, n)
      PROVE  EndedSomehow(r)
  <2>1. current[r] = n
    BY <1>8 DEF Reap, Unreleased, OneOwner, IInv
  <2>2. /\ SetStatus(r, AfterFailure(r))
        /\ EndAttempt(r, n, IF AfterFailure(r) = "cancelled"
                              THEN "cancelled" ELSE "interrupted")
        /\ claims' = claims
    BY <1>8, <2>1 DEF Reap
  <2>3. CASE AfterFailure(r) = "cancelled"
    BY <2>1, <2>2, <2>3, CloseFailed
  <2>4. CASE AfterFailure(r) # "cancelled"
    BY <2>1, <2>2, <2>4, CloseFailed
  <2>5. QED
    BY <2>3, <2>4
<1>9. CASE UNCHANGED vars
  BY <1>9 DEF vars, Rest
<1>10. QED
  BY <1>1, <1>2, <1>3, <1>4, <1>5, <1>6, <1>7, <1>8, <1>9 DEF Next

-----------------------------------------------------------------------------
(* The queue implements the protocol of a Run. *)

\* RunProtocol and RunLifecycle speak of the same statuses and transitions.
LEMMA SameVocabulary ==
  /\ Protocol!Absent = Absent
  /\ Protocol!Status = Status
  /\ Protocol!ALLOWED_TRANSITIONS = ALLOWED_TRANSITIONS
BY DEF Protocol!Absent, Absent, Protocol!Status, Status,
   Protocol!ALLOWED_TRANSITIONS, ALLOWED_TRANSITIONS

\* Every step of the queue is a step of the protocol, or does not concern it.
LEMMA StepRefines ==
  ASSUME IInv, [Next]_vars
  PROVE  [Protocol!Next]_(Protocol!vars)
<1>1. CASE Rest
  BY <1>1 DEF Rest, Protocol!vars
<1>2. ASSUME NEW r \in Run, Born(r)
      PROVE  Protocol!Create(r)
  BY <1>2, SameVocabulary DEF Born, Protocol!Create
<1>3. ASSUME NEW r \in Run, Taken(r)
      PROVE  Protocol!Start(r)
  <2>1. claims' = [claims EXCEPT ![r] = @ + 1]
    BY <1>3 DEF Taken
  <2>2. QED
    BY <1>3, <2>1 DEF Taken, Protocol!Start
<1>4. ASSUME NEW r \in Run, NEW s \in Status, Turned(r, s)
      PROVE  Protocol!Advance(r) \/ Protocol!Move(r)
  <2>1. CASE current[r] # 0
    <3>1. s \in Protocol!ALLOWED_TRANSITIONS[status[r]] \cap Protocol!Owned
      BY <1>4, <2>1, SameVocabulary DEF Turned
    <3>2. QED
      BY <1>4, <2>1, <3>1 DEF Turned, Protocol!Advance
  <2>2. CASE current[r] = 0
    <3>1. s \in Protocol!ALLOWED_TRANSITIONS[status[r]] \cap Protocol!Unowned
      BY <1>4, <2>2, SameVocabulary DEF Turned
    <3>2. QED
      BY <1>4, <2>2, <3>1 DEF Turned, Protocol!Move
  <2>3. QED
    BY <2>1, <2>2
<1>5. ASSUME NEW r \in Run, EndedSomehow(r)
      PROVE  Protocol!Release(r)
  <2>1. PICK s \in Status, outcome \in AttemptStatus : Ended(r, s, outcome)
    BY <1>5 DEF EndedSomehow
  <2>2. s \in Protocol!ALLOWED_TRANSITIONS[status[r]] \cap Protocol!Unowned
    BY <2>1, SameVocabulary DEF Ended
  <2>3. QED
    BY <2>1, <2>2 DEF Ended, Protocol!Release
<1>6. QED
  BY <1>1, <1>2, <1>3, <1>4, <1>5, StepKinds DEF Protocol!Next

\* Whatever handlers, workers and users do, a Run follows the protocol:
\* legal transitions, one owner at a time, ever newer epochs.
THEOREM Implementation == Spec => ImplementsProtocol
<1>1. Init => Protocol!Init
  BY SameVocabulary DEF Init, Protocol!Init
<1>2. IInv /\ [Next]_vars => [Protocol!Next]_(Protocol!vars)
  BY StepRefines
<1>3. QED
  BY <1>1, <1>2, Invariance, PTL DEF Spec, ImplementsProtocol, Protocol!Spec

-----------------------------------------------------------------------------
(* Fencing. *)

\* A step that changes an attempt's row starts it, or closes it with its lease.
LEMMA StepFences ==
  ASSUME IInv, [Next]_vars, NEW r \in Run, NEW n \in Attempt,
         attempts'[r][n] # attempts[r][n]
  PROVE  \/ attempts[r][n] = "none" /\ attempts'[r][n] = "running"
         \/ /\ attempts[r][n] = "running"
            /\ lease'[r][n] = "released"
            /\ lease[r][n] = "expired" /\ Unlocked(r) =>
                 attempts'[r][n] \in {"interrupted", "cancelled"}
<1>1. attempts \in [Run -> [Attempt -> AttemptStatus]]
  BY DEF IInv, TypeOK
<1>2. CASE attempts' = attempts
  BY <1>2
<1>3. ASSUME NEW q \in Run, Taken(q)
      PROVE  attempts[r][n] = "none" /\ attempts'[r][n] = "running"
  <2>1. q = r /\ n = claims[r] + 1
    BY <1>1, <1>3 DEF Taken
  <2>2. attempts[r][n] = "none"
    BY <2>1 DEF IInv, NoneBeyondClaims, TypeOK
  <2>3. QED
    BY <1>1, <1>3, <2>1, <2>2 DEF Taken
<1>4. ASSUME NEW q \in Run, EndedSomehow(q)
      PROVE  /\ attempts[r][n] = "running"
             /\ lease'[r][n] = "released"
             /\ lease[r][n] = "expired" /\ Unlocked(r) =>
                  attempts'[r][n] \in {"interrupted", "cancelled"}
  <2>1. PICK s \in Status, outcome \in AttemptStatus : Ended(q, s, outcome)
    BY <1>4 DEF EndedSomehow
  <2>2. q = r /\ n = current[r]
    BY <1>1, <2>1 DEF Ended
  <2>3. attempts[r][n] = "running"
    BY <2>1, <2>2 DEF Ended, IInv, OneOwner
  <2>4. attempts'[r][n] = outcome
    BY <1>1, <2>1, <2>2 DEF Ended
  <2>5. QED
    BY <2>1, <2>2, <2>3, <2>4 DEF Ended
<1>5. QED
  BY <1>2, <1>3, <1>4, StepKinds DEF Rest, Born, Turned

\* A zombie cannot close its attempt, and a closed attempt stays closed.
THEOREM Fencing == Spec => AttemptsAreFenced
<1>1. IInv /\ [Next]_vars =>
        [ \A r \in Run, n \in Attempt :
            attempts'[r][n] # attempts[r][n] =>
              \/ attempts[r][n] = "none" /\ attempts'[r][n] = "running"
              \/ /\ attempts[r][n] = "running"
                 /\ lease'[r][n] = "released"
                 /\ lease[r][n] = "expired" /\ Unlocked(r) =>
                      attempts'[r][n] \in {"interrupted", "cancelled"} ]_vars
  BY StepFences
<1>2. QED
  BY <1>1, Invariance, PTL DEF Spec, AttemptsAreFenced

-----------------------------------------------------------------------------
(* Failures. *)

FailedAttempts(r) ==
  {n \in Attempt : attempts[r][n] \in {"failed", "interrupted"}}

\* The failures of a Run can be counted.
LEMMA FailuresAreFinite ==
  ASSUME NEW r \in Run
  PROVE  /\ IsFiniteSet(FailedAttempts(r))
         /\ Failures(r) = Cardinality(FailedAttempts(r))
         /\ Failures(r) \in Nat
<1>1. IsFiniteSet(1..MaxClaims)
  BY FS_Interval
<1>2. IsFiniteSet(FailedAttempts(r))
  BY <1>1, FS_Subset DEF FailedAttempts
<1>3. QED
  BY <1>2, FS_CardinalityType DEF Failures, FailedAttempts

\* A step adds at most one failure to a Run, and where it does the Run goes
\* where AfterFailure says.
LEMMA StepFails ==
  ASSUME IInv, [Next]_vars, NEW r \in Run
  PROVE  \/ FailedAttempts(r)' = FailedAttempts(r)
         \/ /\ status[r] \in {"running", "waiting_input", "cancelling"}
            /\ status'[r] = AfterFailure(r)
            /\ \E n \in Attempt \ FailedAttempts(r) :
                 FailedAttempts(r)' = FailedAttempts(r) \cup {n}
<1>1. attempts \in [Run -> [Attempt -> AttemptStatus]]
  BY DEF IInv, TypeOK
<1>2. CASE attempts' = attempts
  BY <1>2 DEF FailedAttempts
<1>3. ASSUME NEW q \in Run, Taken(q)
      PROVE  FailedAttempts(r)' = FailedAttempts(r)
  <2>1. attempts[q][claims[q] + 1] = "none"
    BY <1>3 DEF Taken, IInv, NoneBeyondClaims, TypeOK
  <2>2. \A n \in Attempt : attempts'[r][n] \in {"failed", "interrupted"} <=>
                           attempts[r][n] \in {"failed", "interrupted"}
    BY <1>1, <1>3, <2>1 DEF Taken
  <2>3. QED
    BY <2>2 DEF FailedAttempts
<1>4. ASSUME NEW q \in Run, EndedSomehow(q)
      PROVE  \/ FailedAttempts(r)' = FailedAttempts(r)
             \/ /\ status[r] \in {"running", "waiting_input", "cancelling"}
                /\ status'[r] = AfterFailure(r)
                /\ \E n \in Attempt \ FailedAttempts(r) :
                     FailedAttempts(r)' = FailedAttempts(r) \cup {n}
  <2>1. PICK s \in Status, outcome \in AttemptStatus : Ended(q, s, outcome)
    BY <1>4 DEF EndedSomehow
  <2>2. current[q] \in Attempt /\ attempts[q][current[q]] = "running"
    BY <2>1 DEF Ended, IInv, OneOwner, TypeOK
  <2>3. attempts' = [attempts EXCEPT ![q][current[q]] = outcome]
    BY <2>1 DEF Ended
  <2>4. CASE q # r \/ outcome \notin {"failed", "interrupted"}
    <3>1. \A n \in Attempt : attempts'[r][n] \in {"failed", "interrupted"} <=>
                             attempts[r][n] \in {"failed", "interrupted"}
      BY <1>1, <2>2, <2>3, <2>4
    <3>2. QED
      BY <3>1 DEF FailedAttempts
  <2>5. CASE q = r /\ outcome \in {"failed", "interrupted"}
    <3>1. \A n \in Attempt : attempts'[r][n] \in {"failed", "interrupted"} <=>
             n = current[r] \/ attempts[r][n] \in {"failed", "interrupted"}
      BY <1>1, <2>2, <2>3, <2>5
    <3>2. FailedAttempts(r)' = FailedAttempts(r) \cup {current[r]}
      BY <2>2, <2>5, <3>1 DEF FailedAttempts
    <3>3. current[r] \in Attempt \ FailedAttempts(r)
      BY <2>2, <2>5 DEF FailedAttempts
    <3>4. status[r] \in {"running", "waiting_input", "cancelling"}
      BY <2>1, <2>5, Halves DEF Ended
    <3>5. status'[r] = AfterFailure(r)
      BY <2>1, <2>5 DEF Ended, IInv, TypeOK
    <3>6. QED
      BY <3>2, <3>3, <3>4, <3>5
  <2>6. QED
    BY <2>4, <2>5
<1>5. QED
  BY <1>2, <1>3, <1>4, StepKinds DEF Rest, Born, Turned

\* A step counts at most one failure more, as StepFails has it.
LEMMA StepCounts ==
  ASSUME IInv, [Next]_vars, NEW r \in Run
  PROVE  \/ Failures(r)' = Failures(r)
         \/ /\ status[r] \in {"running", "waiting_input", "cancelling"}
            /\ status'[r] = AfterFailure(r)
            /\ Failures(r)' = Failures(r) + 1
<1>1. CASE FailedAttempts(r)' = FailedAttempts(r)
  BY <1>1 DEF Failures, FailedAttempts
<1>2. ASSUME NEW n \in Attempt \ FailedAttempts(r),
             FailedAttempts(r)' = FailedAttempts(r) \cup {n}
      PROVE  Failures(r)' = Failures(r) + 1
  <2>1. Cardinality(FailedAttempts(r) \cup {n}) = Cardinality(FailedAttempts(r)) + 1
    BY FailuresAreFinite, FS_AddElement
  <2>2. Failures(r)' = Cardinality(FailedAttempts(r)')
    BY DEF Failures, FailedAttempts
  <2>3. QED
    BY <1>2, <2>1, <2>2, FailuresAreFinite
<1>3. QED
  BY <1>1, <1>2, StepFails

\* A Run declared unsafe to retry, or one that asked for an authorization, is
\* over when an attempt of it fails.
THEOREM NeverRetriedUnsafely == Spec => NoUnsafeRetry
<1>1. ASSUME IInv, [Next]_vars, NEW r \in Run, ~retrySafe[r],
             Failures(r)' > Failures(r)
      PROVE  status'[r] \in TERMINAL_STATUSES
  <2>1. Failures(r) \in Nat
    BY FailuresAreFinite
  <2>2. status'[r] = AfterFailure(r)
    BY <1>1, <2>1, StepCounts
  <2>3. AfterFailure(r) \in {"cancelled", "failed"}
    BY <1>1, AfterFailureCases
  <2>4. QED
    BY <2>2, <2>3 DEF TERMINAL_STATUSES
<1>2. IInv /\ [Next]_vars =>
        [ \A r \in Run : ~retrySafe[r] /\ Failures(r)' > Failures(r) =>
                           status'[r] \in TERMINAL_STATUSES ]_vars
  BY <1>1
<1>3. QED
  BY <1>2, Invariance, PTL DEF Spec, NoUnsafeRetry

\* A Run changes status only as ALLOWED_TRANSITIONS says, or by its creation.
LEMMA OnlyAllowed ==
  ASSUME IInv, [Next]_vars, NEW r \in Run, status'[r] # status[r]
  PROVE  \/ status[r] = Absent /\ status'[r] = "queued"
         \/ status[r] \in Status /\ status'[r] \in ALLOWED_TRANSITIONS[status[r]]
<1>1. status \in [Run -> Status \cup {Absent}]
  BY DEF IInv, TypeOK
<1>2. ASSUME NEW q \in Run, NEW s, status' = [status EXCEPT ![q] = s]
      PROVE  q = r /\ status'[r] = s
  BY <1>1, <1>2
<1>3. ~Rest
  BY DEF Rest
<1>4. ASSUME NEW q \in Run, Born(q)
      PROVE  status[r] = Absent /\ status'[r] = "queued"
  BY <1>2, <1>4 DEF Born
<1>5. ASSUME NEW q \in Run, Taken(q)
      PROVE  status[r] = "queued" /\ status'[r] = "running"
  BY <1>2, <1>5 DEF Taken
<1>6. ASSUME NEW q \in Run, NEW s \in Status, Turned(q, s)
      PROVE  status[r] \in Status /\ status'[r] \in ALLOWED_TRANSITIONS[status[r]]
  BY <1>2, <1>6 DEF Turned
<1>7. ASSUME NEW q \in Run, EndedSomehow(q)
      PROVE  status[r] \in Status /\ status'[r] \in ALLOWED_TRANSITIONS[status[r]]
  BY <1>2, <1>7, Halves DEF EndedSomehow, Ended
<1>8. "running" \in ALLOWED_TRANSITIONS["queued"] /\ "queued" \in Status
  BY Allowed DEF Status
<1>9. QED
  BY <1>3, <1>4, <1>5, <1>6, <1>7, <1>8, StepKinds

\* A Run that is over stays over: no transition leaves a terminal status.
LEMMA OverIsOver ==
  ASSUME IInv, [Next]_vars, NEW r \in Run, status[r] \in TERMINAL_STATUSES
  PROVE  status'[r] = status[r]
<1>1. ALLOWED_TRANSITIONS[status[r]] = {} /\ status[r] # Absent
  BY DEF TERMINAL_STATUSES, ALLOWED_TRANSITIONS, Absent
<1>2. QED
  BY <1>1, OnlyAllowed

\* One step keeps the budget: a failure that would exhaust it finds the Run
\* with one failure to spare and leaves it in a terminal status.
LEMMA StepBudget ==
  ASSUME IInv, RetryBudget, [Next]_vars
  PROVE  RetryBudget'
<1> SUFFICES ASSUME NEW r \in Run
             PROVE  /\ Failures(r)' <= MaxAttempts
                    /\ Failures(r)' = MaxAttempts => status'[r] \in TERMINAL_STATUSES
  BY DEF RetryBudget
<1>1. /\ Failures(r) \in Nat /\ Failures(r) <= MaxAttempts
      /\ Failures(r) = MaxAttempts => status[r] \in TERMINAL_STATUSES
  BY FailuresAreFinite DEF RetryBudget
<1>2. CASE Failures(r)' = Failures(r)
  BY <1>1, <1>2, OverIsOver
<1>3. CASE /\ status[r] \in {"running", "waiting_input", "cancelling"}
           /\ status'[r] = AfterFailure(r)
           /\ Failures(r)' = Failures(r) + 1
  <2>1. Failures(r) < MaxAttempts
    BY <1>1, <1>3 DEF TERMINAL_STATUSES
  <2>2. Failures(r) + 1 = MaxAttempts => AfterFailure(r) \in {"cancelled", "failed"}
    BY <2>1 DEF AfterFailure
  <2>3. QED
    BY <1>1, <1>3, <2>1, <2>2 DEF TERMINAL_STATUSES
<1>4. QED
  BY <1>2, <1>3, StepCounts

\* However failures and lost workers alternate with suspensions, a Run never
\* fails more often than max_attempts.
THEOREM BoundedFailures == Spec => []RetryBudget
<1>1. Init => RetryBudget
  <2> SUFFICES ASSUME Init, NEW r \in Run
               PROVE  Failures(r) = 0
    BY DEF RetryBudget
  <2>1. FailedAttempts(r) = {}
    BY DEF Init, FailedAttempts
  <2>2. QED
    BY <2>1, FailuresAreFinite, FS_EmptySet
<1>2. IInv /\ RetryBudget /\ [Next]_vars => RetryBudget'
  BY StepBudget
<1>3. QED
  BY <1>1, <1>2, Invariance, PTL DEF Spec

-----------------------------------------------------------------------------
(* Parents and children.  Two promises hold only while certain things do   *)
(* not happen, and the theorems name them: that a suspended parent is      *)
(* woken, and that a cancel reaches the children.                          *)

\* A worker moves its own Run.
MovedByWorker(r, n) ==
  \/ \E outcome \in {"succeeded", "cancelled"} : Finish(r, n, outcome)
  \/ Fail(r, n)
  \/ SuspendForInput(r, n)
  \/ \E W \in SUBSET Children(r) : SuspendForChildren(r, n, W)
  \/ LiveRequest(r, n)
  \/ LiveResolved(r, n)

\* A user or an API handler moves a Run.
MovedByUser(r) ==
  \/ \E safe \in BOOLEAN : CreateRun(r, safe)
  \/ Answer(r)
  \/ AcceptCancel(r) /\ Cancel(r)
  \/ \E p \in Run : CascadeCancel(p, r)

\* All the ways in which the status of a Run changes.
Moved(r) ==
  \/ MovedByUser(r)
  \/ \E n \in Attempt : MovedByWorker(r, n)
  \/ Claim(r)
  \/ CommitSuspension(r)
  \/ ExpireInput(r)
  \/ \E n \in Attempt : lease[r][n] = "expired" /\ Reap(r, n)
  \/ \E c \in Run, n \in Attempt : Parent[c] = r /\ WakeWaitingParent(c, n)

\* A handler writes the status of one Run only.
LEMMA OnlyItsRun ==
  ASSUME IInv, NEW r \in Run, NEW s, SetStatus(r, s),
         NEW q \in Run, status'[q] # status[q]
  PROVE  q = r
BY DEF SetStatus, IInv, TypeOK

\* Whoever changes the status of a Run is one of its movers.
LEMMA Movers ==
  ASSUME IInv, [Next]_vars, NEW q \in Run, status'[q] # status[q]
  PROVE  Moved(q)
<1>1. ASSUME NEW r \in Run, AcceptCancel(r)
      PROVE  q = r
  BY <1>1, OnlyItsRun DEF AcceptCancel
<1>2. ASSUME NEW r \in Run, User(r)
      PROVE  Moved(q)
  <2>1. CASE \E safe \in BOOLEAN : CreateRun(r, safe)
    BY <2>1, OnlyItsRun DEF CreateRun, Moved, MovedByUser
  <2>2. CASE Answer(r)
    BY <2>2, OnlyItsRun DEF Answer, Moved, MovedByUser
  <2>3. CASE Cancel(r)
    <3>1. AcceptCancel(r)
      BY <2>3 DEF Cancel
    <3>2. QED
      BY <1>1, <2>3, <3>1 DEF Moved, MovedByUser
  <2>4. ASSUME NEW c \in Run, CascadeCancel(r, c)
        PROVE  Moved(q)
    <3>1. AcceptCancel(c)
      BY <2>4 DEF CascadeCancel
    <3>2. q = c
      BY <1>1, <3>1
    <3>3. QED
      BY <2>4, <3>2 DEF Moved, MovedByUser
  <2>5. CASE \/ Steer(r) \/ CascadeRead(r) \/ CascadeLost(r)
             \/ \E c \in Run : CascadeRefused(r, c)
    BY <2>5 DEF Steer, CascadeRead, CascadeLost, CascadeRefused, dbVars
  <2>6. QED
    BY <1>2, <2>1, <2>2, <2>3, <2>4, <2>5 DEF User
<1>3. ASSUME NEW r \in Run, NEW n \in Attempt, Worker(r, n)
      PROVE  Moved(q)
  <2>1. CASE MovedByWorker(r, n)
    <3>1. \E s : SetStatus(r, s)
      BY <2>1 DEF MovedByWorker, Finish, Fail, SuspendForInput, LiveRequest,
         SuspendForChildren, SuspendOnChildren, LiveResolved
    <3>2. q = r
      BY <3>1, OnlyItsRun
    <3>3. QED
      BY <2>1, <3>2 DEF Moved
  <2>2. CASE WakeWaitingParent(r, n)
    <3>1. Parent[r] \in Run
      BY <2>2 DEF WakeWaitingParent, IInv, CallbacksToParents
    <3>2. SetStatus(Parent[r], "queued")
      BY <2>2 DEF WakeWaitingParent
    <3>3. q = Parent[r]
      BY <3>1, <3>2, OnlyItsRun
    <3>4. QED
      BY <2>2, <3>3 DEF Moved
  <2>3. CASE \/ \E W \in SUBSET Children(r) : ReadChildren(r, n, W)
             \/ DeliverControls(r, n) \/ WorkerStops(r, n) \/ WorkerCrashes(r, n)
    BY <2>3 DEF ReadChildren, DeliverControls, WorkerStops, WorkerCrashes, dbVars
  <2>4. QED
    BY <1>3, <2>1, <2>2, <2>3 DEF Worker, MovedByWorker
<1>4. ASSUME NEW r \in Run, Claim(r)
      PROVE  Moved(q)
  <2>1. SetStatus(r, "running")
    BY <1>4 DEF Claim
  <2>2. q = r
    BY <2>1, OnlyItsRun
  <2>3. QED
    BY <1>4, <2>2 DEF Moved
<1>5. ASSUME NEW r \in Run, CommitSuspension(r)
      PROVE  Moved(q)
  <2>1. \E s : SetStatus(r, s)
    BY <1>5 DEF CommitSuspension, SuspendOnChildren
  <2>2. q = r
    BY <2>1, OnlyItsRun
  <2>3. QED
    BY <1>5, <2>2 DEF Moved
<1>6. ASSUME NEW r \in Run, ExpireInput(r)
      PROVE  Moved(q)
  <2>1. \E s : SetStatus(r, s)
    BY <1>6 DEF ExpireInput
  <2>2. q = r
    BY <2>1, OnlyItsRun
  <2>3. QED
    BY <1>6, <2>2 DEF Moved
<1>7. ASSUME NEW r \in Run, NEW n \in Attempt, Reap(r, n)
      PROVE  Moved(q)
  <2>1. lease[r][n] = "expired" /\ SetStatus(r, AfterFailure(r))
    BY <1>7 DEF Reap
  <2>2. q = r
    BY <2>1, OnlyItsRun
  <2>3. QED
    BY <1>7, <2>1, <2>2 DEF Moved
<1>8. CASE \/ \E r \in Run : InputOverdue(r)
           \/ \E r \in Run, n \in Attempt : LeaseExpires(r, n)
           \/ UNCHANGED vars
  BY <1>8 DEF InputOverdue, LeaseExpires, vars
<1>9. QED
  BY <1>2, <1>3, <1>4, <1>5, <1>6, <1>7, <1>8 DEF Next

\* A Run that is being cancelled, or has been.
Doomed == {"cancelling", "cancelled"}

\* An accepted cancel is never forgotten.
LEMMA CancelStays ==
  ASSUME IInv, [Next]_vars, NEW r \in Run, status[r] \in Doomed
  PROVE  status'[r] \in Doomed
<1>1. status[r] \notin {Absent, "cancelled"} => ALLOWED_TRANSITIONS[status[r]] = {"cancelled"}
  BY Allowed DEF Doomed
<1>2. status[r] # Absent /\ (status[r] = "cancelled" => status[r] \in TERMINAL_STATUSES)
  BY DEF Doomed, TERMINAL_STATUSES, Absent
<1>3. QED
  BY <1>1, <1>2, OverIsOver, OnlyAllowed DEF Doomed

\* A Run comes into being by its creation only.
LEMMA BornByCreation ==
  ASSUME IInv, [Next]_vars, NEW r \in Run, status[r] = Absent,
         status'[r] # Absent
  PROVE  \E safe \in BOOLEAN : CreateRun(r, safe)
<1>1. status[r] \notin Status /\ r \notin queue /\ current[r] = 0 /\ scan[r] = "none"
  BY DEF Absent, Status, IInv, QueueMatches, OneOwner, SuspensionOpen
<1>2. Moved(r)
  BY Movers
<1>3. ASSUME NEW n \in Attempt
      PROVE  ~MovedByWorker(r, n)
  BY <1>1 DEF MovedByWorker, Finish, Fail, SuspendForInput, SuspendForChildren,
     MayAwait, LiveRequest, LiveResolved, Holds
<1>4. ~Claim(r) /\ ~CommitSuspension(r) /\ ~ExpireInput(r)
  BY <1>1 DEF Claim, CommitSuspension, ExpireInput, Status
<1>5. ASSUME NEW n \in Attempt, Reap(r, n)
      PROVE  FALSE
  BY <1>1, <1>5 DEF Reap
<1>6. ASSUME NEW c \in Run, NEW n \in Attempt, Parent[c] = r, WakeWaitingParent(c, n)
      PROVE  FALSE
  BY <1>1, <1>6 DEF WakeWaitingParent, Status
<1>7. ~Answer(r) /\ ~AcceptCancel(r)
  BY <1>1 DEF Answer, AcceptCancel, Status
<1>8. QED
  BY <1>2, <1>3, <1>4, <1>5, <1>6, <1>7 DEF Moved, MovedByUser, CascadeCancel

\* The cascade of p goes on, if it was on its way, with the same children.
CascadeKept(p) ==
  /\ p \in cascading => p \in cascading'
  /\ doomed'[p] = doomed[p]

\* Only the steps of a cascade change what it has yet to do, and only an
\* accepted cancel starts one.
LEMMA CascadeMoves ==
  ASSUME IInv, [Next]_vars, NEW p \in Run
  PROVE  /\ \/ CascadeKept(p)
            \/ CascadeRead(p)
            \/ \E c \in Run : CascadeCancel(p, c)
            \/ \E c \in Run : CascadeRefused(p, c)
            \/ CascadeLost(p)
         /\ p \in cascading' => p \in cascading \/ AcceptCancel(p)
<1> DEFINE Mine ==
      /\ \/ CascadeKept(p)
         \/ CascadeRead(p)
         \/ \E c \in Run : CascadeCancel(p, c)
         \/ \E c \in Run : CascadeRefused(p, c)
         \/ CascadeLost(p)
      /\ p \in cascading' => p \in cascading \/ AcceptCancel(p)
<1>1. CASE UNCHANGED <<cascading, doomed>>
  BY <1>1 DEF CascadeKept
<1>2. ASSUME NEW r \in Run, AcceptCancel(r)
      PROVE  /\ p \in cascading => p \in cascading'
             /\ p \in cascading' => p \in cascading \/ AcceptCancel(p)
  BY <1>2 DEF AcceptCancel
<1>3. doomed \in [Run -> SUBSET Run]
  BY DEF IInv, TypeOK
<1>4. ASSUME NEW r \in Run, User(r)
      PROVE  Mine
  <2>1. CASE \/ \E safe \in BOOLEAN : CreateRun(r, safe)
             \/ Answer(r) \/ Steer(r)
    BY <1>1, <2>1 DEF CreateRun, Answer, Steer
  <2>2. CASE Cancel(r)
    BY <1>2, <2>2 DEF Cancel, CascadeKept
  <2>3. CASE CascadeRead(r)
    BY <1>3, <2>3 DEF CascadeRead, CascadeKept
  <2>4. ASSUME NEW c \in Run, CascadeCancel(r, c)
        PROVE  Mine
    <3>1. r # p => doomed'[p] = doomed[p]
      BY <1>3, <2>4 DEF CascadeCancel
    <3>2. AcceptCancel(c)
      BY <2>4 DEF CascadeCancel
    <3>3. QED
      BY <1>2, <2>4, <3>1, <3>2 DEF CascadeKept
  <2>5. ASSUME NEW c \in Run, CascadeRefused(r, c)
        PROVE  Mine
    BY <1>3, <2>5 DEF CascadeRefused, CascadeKept
  <2>6. CASE CascadeLost(r)
    BY <1>3, <2>6 DEF CascadeLost, CascadeKept
  <2>7. QED
    BY <1>4, <2>1, <2>2, <2>3, <2>4, <2>5, <2>6 DEF User
<1>5. ASSUME NEW r \in Run, NEW n \in Attempt, Worker(r, n)
      PROVE  UNCHANGED <<cascading, doomed>>
  BY <1>5 DEF Worker, Finish, Fail, SuspendForInput, SuspendForChildren,
     SuspendOnChildren, ReadChildren, LiveRequest, LiveResolved, DeliverControls,
     WorkerStops, WorkerCrashes, WakeWaitingParent
<1>6. CASE \/ \E r \in Run : Claim(r) \/ CommitSuspension(r) \/ InputOverdue(r)
                               \/ ExpireInput(r)
           \/ \E r \in Run, n \in Attempt : LeaseExpires(r, n) \/ Reap(r, n)
           \/ UNCHANGED vars
  BY <1>1, <1>6 DEF Claim, CommitSuspension, SuspendOnChildren, InputOverdue,
     ExpireInput, LeaseExpires, Reap, vars
<1>7. QED
  BY <1>1, <1>4, <1>5, <1>6 DEF Next

\* Only a cancelled Run has a cascade, and only its children are in it.
Cascades ==
  \A p \in Run :
    /\ p \in cascading \/ doomed[p] # {} => status[p] \in Doomed
    /\ doomed[p] \subseteq Children(p)

\* An accepted cancel leaves a Run cancelling or cancelled.
LEMMA CancelDooms ==
  ASSUME IInv, NEW r \in Run, AcceptCancel(r)
  PROVE  status'[r] \in Doomed
<1>1. CancelTarget(r) \in {"cancelling", "cancelled"}
  BY CancelTargetCases DEF AcceptCancel
<1>2. QED
  BY <1>1 DEF AcceptCancel, SetStatus, IInv, TypeOK, Doomed

\* A step keeps cascades where they belong.
LEMMA CascadesKept ==
  ASSUME IInv, Cascades, [Next]_vars
  PROVE  Cascades'
<1> SUFFICES ASSUME NEW p \in Run
             PROVE  /\ p \in cascading' \/ doomed'[p] # {} => status'[p] \in Doomed
                    /\ doomed'[p] \subseteq Children(p)
  BY DEF Cascades, Children
<1>1. /\ p \in cascading \/ doomed[p] # {} => status[p] \in Doomed
      /\ doomed[p] \subseteq Children(p)
  BY DEF Cascades
<1>2. /\ p \in cascading' => p \in cascading \/ AcceptCancel(p)
      /\ \/ CascadeKept(p)
         \/ CascadeRead(p)
         \/ \E c \in Run : CascadeCancel(p, c)
         \/ \E c \in Run : CascadeRefused(p, c)
         \/ CascadeLost(p)
  BY CascadeMoves
<1>3. p \in cascading' => status'[p] \in Doomed
  BY <1>1, <1>2, CancelStays, CancelDooms
<1>4. doomed \in [Run -> SUBSET Run]
  BY DEF IInv, TypeOK
<1>5. CASE CascadeRead(p)
  BY <1>1, <1>3, <1>4, <1>5, CancelStays DEF CascadeRead, CancellableChildren
<1>6. CASE ~CascadeRead(p)
  <2>1. doomed'[p] \subseteq doomed[p]
    BY <1>2, <1>4, <1>6 DEF CascadeKept, CascadeCancel, CascadeRefused, CascadeLost
  <2>2. QED
    BY <1>1, <1>3, <2>1, CancelStays
<1>7. QED
  BY <1>5, <1>6

\* No question is overdue if none ever expires.
LEMMA NothingOverdue ==
  ASSUME [Next]_vars, overdue = {}, "input_expiry" \notin Disturbances
  PROVE  overdue' = {}
<1>1. \A r \in Run : ~InputOverdue(r)
  BY DEF InputOverdue
<1>2. ASSUME NEW r \in Run, NEW n \in Attempt, Worker(r, n)
      PROVE  overdue' \subseteq overdue
  BY <1>2 DEF Worker, Finish, Fail, SuspendForInput, SuspendForChildren,
     SuspendOnChildren, ReadChildren, LiveRequest, LiveResolved, DeliverControls,
     WorkerStops, WorkerCrashes, WakeWaitingParent, dbVars, ClearPendingInput
<1>3. ASSUME NEW r \in Run, User(r)
      PROVE  overdue' \subseteq overdue
  <2>1. \A c \in Run : AcceptCancel(c) => overdue' \subseteq overdue
    BY DEF AcceptCancel, ClearPendingInput
  <2>2. QED
    BY <1>3, <2>1 DEF User, CreateRun, Answer, Steer, Cancel, CascadeRead,
       CascadeCancel, CascadeRefused, CascadeLost, dbVars, ClearPendingInput
<1>4. CASE \/ \E r \in Run : Claim(r) \/ CommitSuspension(r) \/ ExpireInput(r)
           \/ \E r \in Run, n \in Attempt : LeaseExpires(r, n) \/ Reap(r, n)
           \/ UNCHANGED vars
  BY <1>4 DEF Claim, CommitSuspension, SuspendOnChildren, ExpireInput,
     LeaseExpires, Reap, vars, ClearPendingInput
<1>5. QED
  BY <1>1, <1>2, <1>3, <1>4 DEF Next

-----------------------------------------------------------------------------
(* A cancel and the children. *)

\* A child that is over, will be, or was never started.
Reached(c) == status[c] \in TERMINAL_STATUSES \cup {"cancelling", Absent}

\* Where the cancel of p stands: the children have yet to be read, one of them
\* has ended on its own, which ends the loop, or each is reached or in the
\* loop's hands.
UnderWay(p) ==
  \/ p \in cascading
  \/ \E c \in Children(p) : status[c] \in {"succeeded", "failed"}
  \/ \A c \in Children(p) : c \in doomed[p] \/ Reached(c)

CancelsUnderWay ==
  /\ overdue = {}
  /\ Cascades
  /\ \A p \in Run : status[p] \in Doomed => UnderWay(p)

\* No API handler dies, nobody lets a question expire, no child is started
\* late, and no Run with children keeps its process for input.
CancelsAreSafe ==
  /\ Disturbances \cap {"api_crash", "input_expiry", "late_child"} = {}
  /\ \A r \in Live : Children(r) = {}

\* Only an accepted cancel makes a Run with children one that is cancelled.
LEMMA DoomedByCancel ==
  ASSUME IInv, [Next]_vars, overdue = {}, NEW p \in Run, p \notin Live,
         status[p] \notin Doomed, status'[p] \in Doomed
  PROVE  AcceptCancel(p)
<1>1. Moved(p)
  BY Movers
<1>2. status \in [Run -> Status \cup {Absent}]
  BY DEF IInv, TypeOK
<1>3. ASSUME NEW s, SetStatus(p, s)
      PROVE  s \in Doomed
  BY <1>2, <1>3 DEF SetStatus
<1>4. ASSUME NEW n \in Attempt, MovedByWorker(p, n)
      PROVE  FALSE
  <2>1. ASSUME NEW outcome \in {"succeeded", "cancelled"}, Finish(p, n, outcome)
        PROVE  FALSE
    <3>1. outcome = "cancelled" /\ outcome \in ALLOWED_TRANSITIONS[status[p]]
      BY <1>3, <2>1 DEF Finish, Doomed
    <3>2. current[p] # 0
      BY <2>1 DEF Finish, Holds
    <3>3. status[p] = "waiting_input"
      BY <3>1, <3>2, Allowed DEF IInv, OneOwner, Doomed
    <3>4. QED
      BY <3>2, <3>3 DEF IInv, PendingInputConsistent
  <2>2. ~Fail(p, n)
    BY <1>3, AfterFailureCases DEF Fail, Doomed
  <2>3. ~SuspendForInput(p, n) /\ ~LiveRequest(p, n) /\ ~LiveResolved(p, n)
    BY <1>3 DEF SuspendForInput, LiveRequest, LiveResolved, Doomed
  <2>4. ASSUME NEW W \in SUBSET Children(p), SuspendForChildren(p, n, W)
        PROVE  FALSE
    BY <1>3, <2>4 DEF SuspendForChildren, SuspendOnChildren, Doomed
  <2>5. QED
    BY <1>4, <2>1, <2>2, <2>3, <2>4 DEF MovedByWorker
<1>5. /\ \A safe \in BOOLEAN : ~CreateRun(p, safe)
      /\ ~Claim(p) /\ ~CommitSuspension(p) /\ ~ExpireInput(p) /\ ~Answer(p)
  BY <1>3 DEF CreateRun, Claim, CommitSuspension, SuspendOnChildren, ExpireInput,
     Answer, Doomed
<1>6. ASSUME NEW n \in Attempt, Reap(p, n)
      PROVE  FALSE
  <2>1. SetStatus(p, AfterFailure(p))
    BY <1>6 DEF Reap
  <2>2. QED
    BY <1>3, <2>1, AfterFailureCases DEF Doomed
<1>7. ASSUME NEW c \in Run, NEW n \in Attempt, Parent[c] = p, WakeWaitingParent(c, n)
      PROVE  FALSE
  <2>1. SetStatus(p, "queued")
    BY <1>7 DEF WakeWaitingParent
  <2>2. QED
    BY <1>3, <2>1 DEF Doomed
<1>8. QED
  BY <1>1, <1>4, <1>5, <1>6, <1>7 DEF Moved, MovedByUser, CascadeCancel

\* A reached child stays reached while its parent is cancelled.
LEMMA ReachedStays ==
  ASSUME IInv, [Next]_vars, CancelsAreSafe, NEW p \in Run, status[p] \in Doomed,
         NEW c \in Children(p), Reached(c)
  PROVE  Reached(c)'
<1>1. c \in Run /\ Parent[c] = p
  BY DEF Children
<1>2. CASE status[c] = Absent /\ status'[c] # Absent
  <2>1. PICK safe \in BOOLEAN : CreateRun(c, safe)
    BY <1>1, <1>2, BornByCreation
  <2>2. QED
    BY <1>1, <2>1 DEF CreateRun, MayCreate, HasParent, CancelsAreSafe, Doomed
<1>3. CASE status[c] \in TERMINAL_STATUSES
  BY <1>1, <1>3, OverIsOver DEF Reached
<1>4. CASE status[c] = "cancelling"
  BY <1>1, <1>4, CancelStays DEF Reached, Doomed, TERMINAL_STATUSES
<1>5. QED
  BY <1>2, <1>3, <1>4 DEF Reached

\* One step of the queue keeps every cancel under way.
LEMMA CancelsKept ==
  ASSUME IInv, CancelsUnderWay, [Next]_vars, CancelsAreSafe
  PROVE  CancelsUnderWay'
<1>1. overdue' = {}
  BY NothingOverdue DEF CancelsUnderWay, CancelsAreSafe
<1>2. Cascades'
  BY CascadesKept DEF CancelsUnderWay
<1>3. ASSUME NEW p \in Run, status'[p] \in Doomed
      PROVE  UnderWay(p)'
  <2>1. Children(p)' = Children(p) /\ Children(p) \subseteq Run
    BY DEF Children
  <2>2. CASE Children(p) = {}
    BY <2>1, <2>2 DEF UnderWay
  <2>3. CASE Children(p) # {} /\ status[p] \notin Doomed
    <3>1. AcceptCancel(p)
      BY <1>3, <2>3, DoomedByCancel DEF CancelsAreSafe, CancelsUnderWay
    <3>2. QED
      BY <2>3, <3>1 DEF AcceptCancel, UnderWay
  <2>4. CASE status[p] \in Doomed
    <3>1. UnderWay(p) /\ doomed \in [Run -> SUBSET Run]
      BY <2>4 DEF CancelsUnderWay, IInv, TypeOK
    <3>2. ASSUME NEW c \in Children(p), status[c] \in {"succeeded", "failed"}
          PROVE  UnderWay(p)'
      <4>1. status'[c] = status[c]
        BY <2>1, <3>2, OverIsOver DEF TERMINAL_STATUSES
      <4>2. QED
        BY <2>1, <3>2, <4>1 DEF UnderWay
    <3>3. CASE CascadeKept(p)
      BY <2>1, <2>4, <3>1, <3>2, <3>3, ReachedStays DEF UnderWay, CascadeKept
    <3>4. CASE CascadeRead(p)
      <4>1. /\ status' = status
            /\ doomed'[p] = doomed[p] \cup CancellableChildren(p)
        BY <3>1, <3>4 DEF CascadeRead, dbVars
      <4>2. ASSUME NEW c \in Children(p)
            PROVE  c \in doomed'[p] \/ Reached(c)'
        BY <2>1, <4>1 DEF CancellableChildren, Reached, IInv, TypeOK
      <4>3. QED
        BY <2>1, <4>2 DEF UnderWay
    <3>5. ASSUME NEW c \in Run, CascadeCancel(p, c)
          PROVE  UnderWay(p)'
      <4>1. doomed'[p] = doomed[p] \ {c} /\ AcceptCancel(c)
        BY <3>1, <3>5 DEF CascadeCancel
      <4>2. Reached(c)'
        BY <4>1, CancelDooms DEF Reached, Doomed, TERMINAL_STATUSES
      <4>3. p \in cascading => p \in cascading'
        BY <4>1 DEF AcceptCancel
      <4>4. QED
        BY <2>1, <2>4, <3>1, <3>2, <4>1, <4>2, <4>3, ReachedStays DEF UnderWay
    <3>6. ASSUME NEW c \in Run, CascadeRefused(p, c)
          PROVE  UnderWay(p)'
      <4>1. c \in Children(p) /\ status[c] \in {"succeeded", "failed"}
        BY <3>6 DEF CascadeRefused, CancelsUnderWay, Cascades
      <4>2. QED
        BY <3>2, <4>1
    <3>7. ~CascadeLost(p)
      BY DEF CascadeLost, CancelsAreSafe
    <3>8. QED
      BY <3>3, <3>4, <3>5, <3>6, <3>7, CascadeMoves
  <2>5. QED
    BY <2>2, <2>3, <2>4
<1>4. QED
  BY <1>1, <1>2, <1>3 DEF CancelsUnderWay

\* Before any Run exists no cancel is under way.
LEMMA InitiallyUnderWay == Init => CancelsUnderWay
BY DEF Init, CancelsUnderWay, Cascades, Doomed, Absent

\* Once a parent is cancelled and the cascade of its cancel is over, no child
\* goes on, unless one of them ended on its own before the loop came to it.
ReachedOrOutrun ==
  \A p \in Run :
    status[p] = "cancelled" /\ p \notin cascading /\ doomed[p] = {} =>
      \/ \A c \in Children(p) : Reached(c)
      \/ \E c \in Children(p) : status[c] \in {"succeeded", "failed"}

\* However many children there are, a cancel misses one only if another ended
\* on its own: the loop of submit_run_command stops at the exception of that
\* one, and nowhere else.
THEOREM CancelsReachChildren ==
  ASSUME CancelsAreSafe
  PROVE  Spec => []ReachedOrOutrun
<1>1. Init => CancelsUnderWay
  BY InitiallyUnderWay
<1>2. IInv /\ CancelsUnderWay /\ [Next]_vars => CancelsUnderWay'
  BY CancelsKept
<1>3. CancelsUnderWay => ReachedOrOutrun
  BY DEF CancelsUnderWay, UnderWay, Doomed, ReachedOrOutrun
<1>4. QED
  BY <1>1, <1>2, <1>3, Invariance, PTL DEF Spec

\* For the workflow with one child the promise is unconditional.
THEOREM OnlyChildIsReached ==
  ASSUME CancelsAreSafe,
         \A c, d \in Run : HasParent(c) /\ Parent[c] = Parent[d] => c = d
  PROVE  Spec => []CascadeReachesChildren
<1>1. Init => CancelsUnderWay
  BY InitiallyUnderWay
<1>2. IInv /\ CancelsUnderWay /\ [Next]_vars => CancelsUnderWay'
  BY CancelsKept
<1>3. CancelsUnderWay => CascadeReachesChildren
  BY DEF CancelsUnderWay, UnderWay, Doomed, CascadeReachesChildren, Children,
     HasParent, Reached, TERMINAL_STATUSES
<1>4. QED
  BY <1>1, <1>2, <1>3, Invariance, PTL DEF Spec

-----------------------------------------------------------------------------
(* A suspended parent is woken. *)

\* No process dies, no lease expires under a live one, no question expires, no
\* user cancels a child directly, and a suspension is one step (SQLite).
WakesAreSafe ==
  /\ Isolation = "serialized"
  /\ Disturbances \cap {"crash", "slow_worker", "input_expiry", "child_cancel"} = {}

\* An attempt whose lease is not released has a live process that renews it.
LeasesAreLive ==
  \A r \in Run, n \in Attempt :
    /\ lease[r][n] # "expired"
    /\ lease[r][n] = "held" => n \in alive[r]

NoOpenScan == \A r \in Run : scan[r] = "none"

Wakeable ==
  /\ LeasesAreLive
  /\ NoOpenScan
  /\ overdue = {}
  /\ Cascades
  /\ ParentWakeable

\* Whoever ends a process has released its lease, or finds it lost.
LEMMA LeasesStayLive ==
  ASSUME IInv, LeasesAreLive, WakesAreSafe, [Next]_vars
  PROVE  LeasesAreLive'
<1> USE DEF LeasesAreLive
<1>1. /\ lease \in [Run -> [Attempt -> LeaseState]]
      /\ alive \in [Run -> SUBSET Attempt]
      /\ claims \in [Run -> 0..MaxClaims]
  BY DEF IInv, TypeOK
<1>2. CASE UNCHANGED <<lease, alive>>
  BY <1>2
<1>3. ASSUME NEW r \in Run, NEW n \in Attempt, NEW outcome,
             EndAttempt(r, n, outcome), ProcessEnds(r, n)
      PROVE  LeasesAreLive'
  <2> SUFFICES ASSUME NEW q \in Run, NEW m \in Attempt
               PROVE  /\ lease'[q][m] # "expired"
                      /\ lease'[q][m] = "held" => m \in alive'[q]
    OBVIOUS
  <2>1. CASE q = r /\ m = n
    BY <1>1, <1>3, <2>1 DEF EndAttempt
  <2>2. CASE q # r \/ m # n
    BY <1>1, <1>3, <2>2 DEF EndAttempt, ProcessEnds
  <2>3. QED
    BY <2>1, <2>2
<1>4. ASSUME NEW r \in Run, User(r)
      PROVE  UNCHANGED <<lease, alive>>
  BY <1>4 DEF User, CreateRun, Answer, Steer, Cancel, AcceptCancel, CascadeRead,
     CascadeCancel, CascadeRefused, CascadeLost, dbVars
<1>5. ASSUME NEW r \in Run, NEW n \in Attempt, Worker(r, n)
      PROVE  LeasesAreLive'
  <2>1. CASE \/ \E outcome \in {"succeeded", "cancelled"} : Finish(r, n, outcome)
             \/ Fail(r, n) \/ SuspendForInput(r, n)
    BY <1>3, <2>1 DEF Finish, Fail, SuspendForInput
  <2>2. CASE \E W \in SUBSET Children(r) : SuspendForChildren(r, n, W)
    BY <1>3, <2>2 DEF SuspendForChildren, SuspendOnChildren
  <2>3. CASE \/ \E W \in SUBSET Children(r) : ReadChildren(r, n, W)
             \/ LiveRequest(r, n) \/ LiveResolved(r, n) \/ DeliverControls(r, n)
             \/ WakeWaitingParent(r, n)
    BY <1>2, <2>3 DEF ReadChildren, LiveRequest, LiveResolved, DeliverControls,
       WakeWaitingParent, dbVars
  <2>4. CASE WorkerStops(r, n)
    BY <1>1, <2>4 DEF WorkerStops, ProcessEnds, dbVars
  <2>5. ~WorkerCrashes(r, n)
    BY DEF WorkerCrashes, WakesAreSafe
  <2>6. QED
    BY <1>5, <2>1, <2>2, <2>3, <2>4, <2>5 DEF Worker
<1>6. ASSUME NEW r \in Run, Claim(r)
      PROVE  LeasesAreLive'
  <2> DEFINE n == claims[r] + 1
  <2>1. /\ n \in Attempt
        /\ lease' = [lease EXCEPT ![r][n] = "held"]
        /\ alive' = [alive EXCEPT ![r] = @ \cup {n}]
    BY <1>1, <1>6 DEF Claim
  <2> HIDE DEF n
  <2> SUFFICES ASSUME NEW q \in Run, NEW m \in Attempt
               PROVE  /\ lease'[q][m] # "expired"
                      /\ lease'[q][m] = "held" => m \in alive'[q]
    OBVIOUS
  <2>2. CASE q = r /\ m = n
    BY <1>1, <2>1, <2>2
  <2>3. CASE q # r \/ m # n
    BY <1>1, <2>1, <2>3
  <2>4. QED
    BY <2>2, <2>3
<1>7. ASSUME NEW r \in Run, CommitSuspension(r)
      PROVE  LeasesAreLive'
  <2>1. current[r] \in Attempt
    BY <1>7 DEF CommitSuspension, IInv, SuspensionOpen, OneOwner, TypeOK
  <2>2. QED
    BY <1>3, <1>7, <2>1 DEF CommitSuspension, SuspendOnChildren
<1>8. ASSUME NEW r \in Run, NEW n \in Attempt
      PROVE  ~LeaseExpires(r, n) /\ ~Reap(r, n)
  BY DEF LeaseExpires, Reap, WakesAreSafe
<1>9. CASE \/ \E r \in Run : InputOverdue(r) \/ ExpireInput(r)
           \/ UNCHANGED vars
  BY <1>2, <1>9 DEF InputOverdue, ExpireInput, vars
<1>10. QED
  BY <1>4, <1>5, <1>6, <1>7, <1>8, <1>9 DEF Next

\* No transaction ever leaves its reads open.
LEMMA ScansStayShut ==
  ASSUME IInv, NoOpenScan, WakesAreSafe, [Next]_vars
  PROVE  NoOpenScan'
<1>1. ASSUME NEW r \in Run, User(r)
      PROVE  scan' = scan
  BY <1>1 DEF User, CreateRun, Answer, Steer, Cancel, AcceptCancel, CascadeRead,
     CascadeCancel, CascadeRefused, CascadeLost
<1>2. ASSUME NEW r \in Run, NEW n \in Attempt, Worker(r, n)
      PROVE  scan' = scan
  BY <1>2 DEF Worker, Finish, Fail, SuspendForInput, SuspendForChildren,
     ReadChildren, LiveRequest, LiveResolved, DeliverControls, WorkerStops,
     WorkerCrashes, WakeWaitingParent, WakesAreSafe
<1>3. CASE \/ \E r \in Run : Claim(r) \/ InputOverdue(r) \/ ExpireInput(r)
           \/ \E r \in Run, n \in Attempt : LeaseExpires(r, n) \/ Reap(r, n)
           \/ UNCHANGED vars
  BY <1>3 DEF Claim, InputOverdue, ExpireInput, LeaseExpires, Reap, vars,
     NoOpenScan
<1>4. \A r \in Run : ~CommitSuspension(r)
  BY DEF CommitSuspension, NoOpenScan
<1>5. QED
  BY <1>1, <1>2, <1>3, <1>4 DEF Next, NoOpenScan

\* A callback is gone only when it has been made.
LEMMA CallbacksStay ==
  ASSUME IInv, WakesAreSafe, [Next]_vars, NEW w \in wakes, w \notin wakes'
  PROVE  WakeWaitingParent(w[1], w[2])
<1>1. w \in Run \X Attempt
  BY DEF IInv, TypeOK
<1>2. ASSUME NEW r \in Run, User(r)
      PROVE  FALSE
  BY <1>2 DEF User, CreateRun, Answer, Steer, Cancel, AcceptCancel, CascadeRead,
     CascadeCancel, CascadeRefused, CascadeLost
<1>3. ASSUME NEW r \in Run, NEW n \in Attempt, Worker(r, n)
      PROVE  WakeWaitingParent(w[1], w[2])
  <2>1. \/ wakes \subseteq wakes'
        \/ WakeWaitingParent(r, n) /\ wakes' = wakes \ {<<r, n>>}
    BY <1>3 DEF Worker, Finish, Fail, SuspendForInput, SuspendForChildren,
       SuspendOnChildren, ReadChildren, LiveRequest, LiveResolved, DeliverControls,
       WorkerStops, WorkerCrashes, WakeWaitingParent, WakesAreSafe,
       WakeParentOnCommit
  <2>2. WakeWaitingParent(r, n) /\ w = <<r, n>>
    BY <2>1
  <2>3. QED
    BY <2>2
<1>4. CASE \/ \E r \in Run : \/ Claim(r) \/ CommitSuspension(r) \/ InputOverdue(r)
                             \/ ExpireInput(r)
           \/ \E r \in Run, n \in Attempt : LeaseExpires(r, n) \/ Reap(r, n)
           \/ UNCHANGED vars
  BY <1>4 DEF Claim, CommitSuspension, SuspendOnChildren, InputOverdue,
     ExpireInput, LeaseExpires, Reap, vars
<1>5. QED
  BY <1>2, <1>3, <1>4 DEF Next

\* A child that ends under a suspended parent leaves its callback behind.
LEMMA EndLeavesCallback ==
  ASSUME IInv, Wakeable, WakesAreSafe, [Next]_vars, NEW c \in Run,
         NEW p \in Run, Parent[c] = p, status[p] = "waiting_children",
         status[c] \notin TERMINAL_STATUSES \cup {Absent},
         status'[c] \in TERMINAL_STATUSES \cup {Absent}
  PROVE  \E w \in wakes' : w[1] = c
<1>1. HasParent(c) /\ status[p] \notin Doomed
  BY DEF HasParent, Doomed
<1>2. Moved(c)
  BY Movers
<1>3. status \in [Run -> Status \cup {Absent}]
  BY DEF IInv, TypeOK
<1>4. ASSUME NEW s, SetStatus(c, s)
      PROVE  s \in TERMINAL_STATUSES \cup {Absent}
  BY <1>3, <1>4 DEF SetStatus
<1>5. ASSUME NEW n \in Attempt, MovedByWorker(c, n)
      PROVE  \E w \in wakes' : w[1] = c
  <2>1. CASE \E outcome \in {"succeeded", "cancelled"} : Finish(c, n, outcome)
    <3>1. <<c, n>> \in wakes'
      BY <1>1, <2>1 DEF Finish, WakeParentOnCommit
    <3>2. QED
      BY <3>1
  <2>2. CASE Fail(c, n)
    <3>1. AfterFailure(c) \in {"cancelled", "queued", "failed"}
      BY AfterFailureCases
    <3>2. AfterFailure(c) \in TERMINAL_STATUSES
      BY <1>4, <2>2, <3>1 DEF Fail, Absent
    <3>3. <<c, n>> \in wakes'
      BY <1>1, <2>2, <3>2 DEF Fail, WakeParentOnCommit
    <3>4. QED
      BY <3>3
  <2>3. ~SuspendForInput(c, n) /\ ~LiveRequest(c, n) /\ ~LiveResolved(c, n)
    BY <1>4 DEF SuspendForInput, LiveRequest, LiveResolved, TERMINAL_STATUSES,
       Absent
  <2>4. ASSUME NEW W \in SUBSET Children(c), SuspendForChildren(c, n, W)
        PROVE  FALSE
    BY <1>4, <2>4 DEF SuspendForChildren, SuspendOnChildren, TERMINAL_STATUSES,
       Absent
  <2>5. QED
    BY <1>5, <2>1, <2>2, <2>3, <2>4 DEF MovedByWorker
<1>6. /\ \A safe \in BOOLEAN : ~CreateRun(c, safe)
      /\ ~Claim(c) /\ ~CommitSuspension(c) /\ ~ExpireInput(c) /\ ~Answer(c)
  BY <1>4 DEF CreateRun, Claim, CommitSuspension, ExpireInput,
     Answer, Wakeable, NoOpenScan, TERMINAL_STATUSES, Absent
<1>7. \A n \in Attempt : lease[c][n] # "expired"
  BY DEF Wakeable, LeasesAreLive
<1>8. ASSUME NEW d \in Run, NEW n \in Attempt, Parent[d] = c, WakeWaitingParent(d, n)
      PROVE  FALSE
  <2>1. SetStatus(c, "queued")
    BY <1>8 DEF WakeWaitingParent
  <2>2. QED
    BY <1>4, <2>1 DEF TERMINAL_STATUSES, Absent
<1>9. ~Cancel(c)
  BY <1>1 DEF Cancel, WakesAreSafe, Doomed
<1>10. ASSUME NEW q \in Run, CascadeCancel(q, c)
       PROVE  FALSE
  <2>1. c \in doomed[q] /\ status[q] \in Doomed /\ c \in Children(q)
    BY <1>10 DEF CascadeCancel, Wakeable, Cascades
  <2>2. QED
    BY <1>1, <2>1 DEF Children
<1>11. QED
  BY <1>2, <1>5, <1>6, <1>7, <1>8, <1>9, <1>10 DEF Moved, MovedByUser

\* A Run suspends on its children while one of them is active.
LEMMA SuspendsOnActive ==
  ASSUME IInv, Wakeable, [Next]_vars, NEW p \in Run,
         status[p] # "waiting_children", status'[p] = "waiting_children"
  PROVE  ActiveChild(p)'
<1>1. Moved(p)
  BY Movers
<1>2. status \in [Run -> Status \cup {Absent}]
  BY DEF IInv, TypeOK
<1>3. ASSUME NEW s, SetStatus(p, s)
      PROVE  s = "waiting_children"
  BY <1>2, <1>3 DEF SetStatus
<1>4. ASSUME NEW n \in Attempt, MovedByWorker(p, n)
      PROVE  \E W \in SUBSET Children(p) : SuspendForChildren(p, n, W)
  <2>1. \A outcome \in {"succeeded", "cancelled"} : ~Finish(p, n, outcome)
    BY <1>3 DEF Finish
  <2>2. ~Fail(p, n)
    BY <1>3, AfterFailureCases DEF Fail
  <2>3. ~SuspendForInput(p, n) /\ ~LiveRequest(p, n) /\ ~LiveResolved(p, n)
    BY <1>3 DEF SuspendForInput, LiveRequest, LiveResolved
  <2>4. QED
    BY <1>4, <2>1, <2>2, <2>3 DEF MovedByWorker
<1>5. /\ \A safe \in BOOLEAN : ~CreateRun(p, safe)
      /\ ~Claim(p) /\ ~CommitSuspension(p) /\ ~ExpireInput(p) /\ ~Answer(p)
  BY <1>3 DEF CreateRun, Claim, CommitSuspension, ExpireInput,
     Answer, Wakeable, NoOpenScan
<1>6. \A n \in Attempt : lease[p][n] # "expired"
  BY DEF Wakeable, LeasesAreLive
<1>7. ASSUME NEW d \in Run, NEW n \in Attempt, Parent[d] = p, WakeWaitingParent(d, n)
      PROVE  FALSE
  <2>1. SetStatus(p, "queued")
    BY <1>7 DEF WakeWaitingParent
  <2>2. QED
    BY <1>3, <2>1
<1>8. ~AcceptCancel(p)
  BY CancelDooms DEF Doomed
<1>9. PICK n \in Attempt, W \in SUBSET Children(p) : SuspendForChildren(p, n, W)
  BY <1>1, <1>4, <1>5, <1>6, <1>7, <1>8 DEF Moved, MovedByUser, CascadeCancel
<1>10. /\ SetStatus(p, IF AnyActive(W) THEN "waiting_children" ELSE "queued")
       /\ \A c \in W : status[c] # Absent
  BY <1>9 DEF SuspendForChildren, SuspendOnChildren, MayAwait
<1>11. PICK c \in W : status[c] \notin TERMINAL_STATUSES
  BY <1>3, <1>10 DEF AnyActive
<1>12. c \in Children(p) /\ c \in Run /\ status[c] # Absent
  BY <1>10, <1>11 DEF Children
<1>13. status'[c] \notin TERMINAL_STATUSES \cup {Absent}
  BY <1>2, <1>10, <1>11, <1>12 DEF SetStatus, TERMINAL_STATUSES, Absent
<1>14. QED
  BY <1>12, <1>13 DEF ActiveChild, Children

\* One step of the queue leaves every suspended parent with something to wake
\* it: the callback of the last child to end is made while the parent waits.
LEMMA WakeableKept ==
  ASSUME IInv, Wakeable, WakesAreSafe, [Next]_vars
  PROVE  Wakeable'
<1>1. LeasesAreLive' /\ NoOpenScan' /\ Cascades'
  BY LeasesStayLive, ScansStayShut, CascadesKept DEF Wakeable
<1>2. overdue' = {}
  BY NothingOverdue DEF Wakeable, WakesAreSafe
<1>3. ASSUME NEW p \in Run, status'[p] = "waiting_children"
      PROVE  ActiveChild(p)' \/ \E w \in wakes' : Parent[w[1]] = p
  <2>1. CASE status[p] # "waiting_children"
    BY <1>3, <2>1, SuspendsOnActive
  <2>2. CASE status[p] = "waiting_children" /\ ActiveChild(p)
    <3>1. PICK c \in Children(p) : status[c] \notin TERMINAL_STATUSES \cup {Absent}
      BY <2>2 DEF ActiveChild
    <3>2. c \in Run /\ Parent[c] = p
      BY <3>1 DEF Children
    <3>3. CASE status'[c] \notin TERMINAL_STATUSES \cup {Absent}
      BY <3>1, <3>3 DEF ActiveChild, Children
    <3>4. CASE status'[c] \in TERMINAL_STATUSES \cup {Absent}
      BY <2>2, <3>1, <3>2, <3>4, EndLeavesCallback
    <3>5. QED
      BY <3>3, <3>4
  <2>3. CASE status[p] = "waiting_children" /\ \E w \in wakes : Parent[w[1]] = p
    <3>1. PICK w \in wakes : Parent[w[1]] = p
      BY <2>3
    <3>2. CASE w \in wakes'
      BY <3>1, <3>2
    <3>3. CASE w \notin wakes'
      <4>1. WakeWaitingParent(w[1], w[2])
        BY <3>1, <3>3, CallbacksStay
      <4>2. current[p] = 0
        BY <2>3 DEF IInv, OneOwner
      <4>3. SetStatus(p, "queued")
        BY <2>3, <3>1, <4>1, <4>2 DEF WakeWaitingParent
      <4>4. QED
        BY <1>3, <4>3 DEF SetStatus, IInv, TypeOK
    <3>4. QED
      BY <3>2, <3>3
  <2>4. QED
    BY <2>1, <2>2, <2>3 DEF Wakeable, ParentWakeable
<1>4. QED
  BY <1>1, <1>2, <1>3 DEF Wakeable, ParentWakeable

\* While nothing of what WakesAreSafe excludes happens, a Run suspended on its
\* children always has an active child, or the callback of one on its way.
THEOREM ParentsAreWoken ==
  ASSUME WakesAreSafe
  PROVE  Spec => []ParentWakeable
<1>1. Init => Wakeable
  BY DEF Init, Wakeable, LeasesAreLive, NoOpenScan, Cascades, ParentWakeable,
     Doomed, Absent
<1>2. IInv /\ Wakeable /\ [Next]_vars => Wakeable'
  BY WakeableKept
<1>3. Wakeable => ParentWakeable
  BY DEF Wakeable
<1>4. QED
  BY <1>1, <1>2, <1>3, Invariance, PTL DEF Spec
=============================================================================
