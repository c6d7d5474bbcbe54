------------------------- MODULE RunAnswers_proofs -------------------------
(***************************************************************************)
(* A decision reaches the attempt that asked for it.  Two mechanisms hand  *)
(* answers out: a claim (to the attempt that resumes a checkpoint) and the *)
(* coordinator (to a process that kept its lease).  The proof is that they *)
(* never compete: for a Run that keeps its process an answer is never      *)
(* there to be claimed, and for the others it is gone once they have an    *)
(* owner again.                                                            *)
(***************************************************************************)
EXTENDS RunLifecycle_proofs

USE RunAssumption, BoundAssumption DEF Attempt

AnswerWaits(r) == \E c \in inbox[r] : c.type = "answer"

\* Once a Run that keeps its process has asked for something it may not be
\* retried, so that it is never queued again.
LiveNeverRequeued(r) ==
  r \in Live =>
    /\ pending[r] # 0 \/ AnswerWaits(r) => ~retrySafe[r]
    /\ claims[r] # 0 /\ ~retrySafe[r] => status[r] # "queued"
    /\ status[r] # "waiting_children"

\* The answer to a checkpoint waits for the next claim, which takes it.
OwnedHasNoAnswer(r) == r \notin Live /\ current[r] # 0 => ~AnswerWaits(r)

\* AnswersReachTheAsker, for one Run.
RightAsker(r) ==
  /\ \A c \in inbox[r] : c.type = "answer" => c.to = claims[r]
  /\ \A h \in handed[r] :
       h.command.type = "answer" =>
         h.by = IF r \in Live THEN h.command.to ELSE h.command.to + 1

UnclaimedAtFirst(r) == status[r] = Absent => claims[r] = 0

AnswerInv(r) ==
  /\ RightAsker(r)
  /\ LiveNeverRequeued(r)
  /\ OwnedHasNoAnswer(r)
  /\ UnclaimedAtFirst(r)

AInv == \A r \in Run : AnswerInv(r)

-----------------------------------------------------------------------------
(* Most steps leave what an answer depends on alone. *)

\* No answer comes or goes, and a Run that keeps its process gets no new
\* request and is queued only by a retry.
Calm(r) ==
  /\ \A c : c.type = "answer" => (c \in inbox'[r] <=> c \in inbox[r])
  /\ handed'[r] = handed[r]
  /\ claims'[r] = claims[r] /\ retrySafe'[r] = retrySafe[r]
  /\ current'[r] \in {0, current[r]}
  /\ status'[r] = Absent => status[r] = Absent
  /\ r \in Live =>
       /\ pending'[r] \in {0, pending[r]}
       /\ \/ status'[r] = status[r]
          \/ status'[r] \notin {"queued", "waiting_children"}
          \/ status'[r] = "queued" /\ retrySafe[r]

\* A calm step keeps the answers of a Run where they belong.
LEMMA CalmKeeps ==
  ASSUME NEW r \in Run, AnswerInv(r), Calm(r)
  PROVE  AnswerInv(r)'
<1>1. RightAsker(r)'
  BY DEF AnswerInv, Calm, RightAsker
<1>2. AnswerWaits(r)' <=> AnswerWaits(r)
  BY DEF Calm, AnswerWaits
<1>3. LiveNeverRequeued(r)'
  BY <1>2 DEF AnswerInv, Calm, LiveNeverRequeued
<1>4. OwnedHasNoAnswer(r)'
  BY <1>2 DEF AnswerInv, Calm, OwnedHasNoAnswer
<1>5. UnclaimedAtFirst(r)'
  BY DEF AnswerInv, Calm, UnclaimedAtFirst
<1>6. QED
  BY <1>1, <1>3, <1>4, <1>5 DEF AnswerInv

\* The types of the rows these steps write.
LEMMA RowTypes ==
  ASSUME IInv
  PROVE  /\ status \in [Run -> Status \cup {Absent}]
         /\ current \in [Run -> 0..MaxClaims]
         /\ claims \in [Run -> 0..MaxClaims]
         /\ retrySafe \in [Run -> BOOLEAN]
         /\ pending \in [Run -> 0..MaxClaims]
         /\ inbox \in [Run -> SUBSET Command]
         /\ handed \in [Run -> SUBSET [command : Command, by : Attempt]]
BY DEF IInv, TypeOK

\* The attempt of a Run ends; it can be queued then only because it may be
\* retried or does not keep its process.
LEMMA EndIsCalm ==
  ASSUME IInv, NEW r \in Run, NEW n \in Attempt, NEW s \in Status,
         NEW outcome, SetStatus(r, s), EndAttempt(r, n, outcome),
         UNCHANGED <<inbox, handed, claims, retrySafe>>,
         r \in Live => /\ pending'[r] \in {0, pending[r]}
                       /\ s # "waiting_children"
                       /\ s = "queued" => retrySafe[r],
         \A q \in Run : q # r => pending'[q] = pending[q],
         NEW q \in Run
  PROVE  Calm(q)
<1>1. Absent \notin Status
  BY DEF Absent, Status
<1>2. CASE q = r
  BY <1>1, <1>2, RowTypes DEF Calm, SetStatus, EndAttempt
<1>3. CASE q # r
  BY <1>3, RowTypes DEF Calm, SetStatus, EndAttempt
<1>4. QED
  BY <1>2, <1>3

\* Only the status of a Run changes, and perhaps its pending request is over.
LEMMA TurnIsCalm ==
  ASSUME IInv, NEW r \in Run, NEW s \in Status, SetStatus(r, s),
         UNCHANGED <<inbox, handed, claims, retrySafe, current>>,
         pending' = pending \/ pending' = [pending EXCEPT ![r] = 0],
         r \in Live => s \notin {"queued", "waiting_children"} \/ s = status[r],
         NEW q \in Run
  PROVE  Calm(q)
<1>1. Absent \notin Status
  BY DEF Absent, Status
<1>2. CASE q = r
  BY <1>1, <1>2, RowTypes DEF Calm, SetStatus
<1>3. CASE q # r
  BY <1>3, RowTypes DEF Calm, SetStatus
<1>4. QED
  BY <1>2, <1>3

\* Nothing an answer depends on changes at all.
LEMMA StillIsCalm ==
  ASSUME UNCHANGED <<inbox, handed, claims, retrySafe, current, status, pending>>,
         NEW q \in Run
  PROVE  Calm(q)
BY DEF Calm

\* Only a Run that does not keep its process waits for children.
LEMMA SuspensionIsCalm ==
  ASSUME IInv, NEW r \in Run, NEW n \in Attempt, NEW anyActive \in BOOLEAN,
         r \notin Live, SuspendOnChildren(r, n, anyActive), NEW q \in Run
  PROVE  Calm(q)
<1> DEFINE next == IF anyActive THEN "waiting_children" ELSE "queued"
<1>1. /\ SetStatus(r, next) /\ EndAttempt(r, n, "suspended")
      /\ UNCHANGED <<inbox, handed, claims, retrySafe, pending>>
  BY DEF SuspendOnChildren
<1>2. next \in Status
  BY DEF Status
<1> HIDE DEF next
<1>3. QED
  BY <1>1, <1>2, EndIsCalm

\* What a worker does to its Run is calm unless it asks for something or
\* takes commands.
LEMMA WorkerIsCalm ==
  ASSUME IInv, AInv, NEW r \in Run, NEW n \in Attempt, Worker(r, n),
         ~LiveRequest(r, n), ~DeliverControls(r, n), NEW q \in Run
  PROVE  Calm(q)
<1>1. ASSUME NEW outcome \in {"succeeded", "cancelled"}, Finish(r, n, outcome)
      PROVE  Calm(q)
  <2>1. /\ SetStatus(r, outcome) /\ EndAttempt(r, n, outcome)
        /\ UNCHANGED <<inbox, handed, claims, retrySafe>>
        /\ pending' = [pending EXCEPT ![r] = 0]
    BY <1>1 DEF Finish, ClearPendingInput
  <2>2. outcome \in Status
    BY DEF Status
  <2>3. QED
    BY <2>1, <2>2, RowTypes, EndIsCalm
<1>2. CASE Fail(r, n)
  <2> DEFINE next == AfterFailure(r)
  <2>1. /\ SetStatus(r, next) /\ EndAttempt(r, n, "failed")
        /\ UNCHANGED <<inbox, handed, claims, retrySafe>>
        /\ pending' = [pending EXCEPT ![r] = 0]
    BY <1>2 DEF Fail, ClearPendingInput
  <2>2. /\ next \in {"cancelled", "queued", "failed"}
        /\ next = "queued" => retrySafe[r]
    BY AfterFailureCases, RowTypes
  <2> HIDE DEF next
  <2>3. next \in Status
    BY <2>2 DEF Status
  <2>4. QED
    BY <2>1, <2>2, <2>3, RowTypes, EndIsCalm
<1>3. CASE SuspendForInput(r, n)
  <2>1. /\ r \notin Live
        /\ SetStatus(r, "waiting_input") /\ EndAttempt(r, n, "suspended")
        /\ UNCHANGED <<inbox, handed, claims, retrySafe>>
        /\ pending' = [pending EXCEPT ![r] = n]
    BY <1>3 DEF SuspendForInput
  <2>2. "waiting_input" \in Status
    BY DEF Status
  <2>3. QED
    BY <2>1, <2>2, RowTypes, EndIsCalm
<1>4. ASSUME NEW W \in SUBSET Children(r), SuspendForChildren(r, n, W)
      PROVE  Calm(q)
  BY <1>4, SuspensionIsCalm DEF SuspendForChildren, MayAwait, AnyActive
<1>5. CASE \E W \in SUBSET Children(r) : ReadChildren(r, n, W)
  BY <1>5, StillIsCalm DEF ReadChildren, dbVars
<1>6. CASE LiveResolved(r, n)
  <2>1. /\ SetStatus(r, "running")
        /\ UNCHANGED <<inbox, handed, claims, retrySafe, current>>
        /\ pending' = [pending EXCEPT ![r] = 0]
    BY <1>6 DEF LiveResolved, ClearPendingInput
  <2>2. "running" \in Status
    BY DEF Status
  <2>3. QED
    BY <2>1, <2>2, TurnIsCalm
<1>7. CASE WorkerStops(r, n) \/ WorkerCrashes(r, n)
  BY <1>7, StillIsCalm DEF WorkerStops, WorkerCrashes, dbVars
<1>8. CASE WakeWaitingParent(r, n)
  <2> DEFINE p == Parent[r]
  <2>1. p \in Run /\ UNCHANGED <<inbox, handed, claims, retrySafe, current, pending>>
    BY <1>8 DEF WakeWaitingParent, IInv, CallbacksToParents
  <2>2. CASE status[p] = "waiting_children" /\ current[p] = 0
    <3>1. SetStatus(p, "queued") /\ "queued" \in Status
      BY <1>8, <2>2 DEF WakeWaitingParent, Status
    <3>2. p \notin Live
      BY <2>1, <2>2 DEF AInv, AnswerInv, LiveNeverRequeued
    <3>3. QED
      BY <2>1, <3>1, <3>2, TurnIsCalm
  <2>3. CASE ~(status[p] = "waiting_children" /\ current[p] = 0)
    BY <1>8, <2>1, <2>3, StillIsCalm DEF WakeWaitingParent
  <2>4. QED
    BY <2>2, <2>3
<1>9. QED
  BY <1>1, <1>2, <1>3, <1>4, <1>5, <1>6, <1>7, <1>8 DEF Worker

\* What users do is calm unless they create a Run or answer.
LEMMA UserIsCalm ==
  ASSUME IInv, NEW r \in Run, User(r), ~Answer(r),
         \A safe \in BOOLEAN : ~CreateRun(r, safe), NEW q \in Run
  PROVE  Calm(q)
<1>1. CASE Steer(r)
  <2>1. \A c : c.type = "answer" => (c \in inbox'[q] <=> c \in inbox[q])
    BY <1>1, RowTypes DEF Steer
  <2>2. UNCHANGED <<handed, claims, retrySafe, current, status, pending>>
    BY <1>1 DEF Steer
  <2>3. QED
    BY <2>1, <2>2 DEF Calm
<1>2. ASSUME NEW c \in Run, AcceptCancel(c)
      PROVE  Calm(q)
  <2> DEFINE next == CancelTarget(c)
  <2>1. /\ SetStatus(c, next)
        /\ UNCHANGED <<inbox, handed, claims, retrySafe, current>>
        /\ pending' = pending \/ pending' = [pending EXCEPT ![c] = 0]
    BY <1>2 DEF AcceptCancel, ClearPendingInput
  <2>2. next \in {"cancelling", "cancelled"}
    BY <1>2, CancelTargetCases DEF AcceptCancel
  <2> HIDE DEF next
  <2>3. next \in Status
    BY <2>2 DEF Status
  <2>4. QED
    BY <2>1, <2>2, <2>3, TurnIsCalm
<1>3. CASE Cancel(r)
  BY <1>2, <1>3 DEF Cancel
<1>4. CASE \E c \in Run : CascadeCancel(r, c)
  BY <1>2, <1>4 DEF CascadeCancel
<1>5. CASE \/ CascadeRead(r)
           \/ \E c \in Run : CascadeRefused(r, c)
           \/ CascadeLost(r)
  BY <1>5, StillIsCalm DEF CascadeRead, CascadeRefused, CascadeLost, dbVars
<1>6. QED
  BY <1>1, <1>3, <1>4, <1>5 DEF User

\* Nor do time and maintenance disturb an answer.
LEMMA MaintenanceIsCalm ==
  ASSUME IInv, NEW r \in Run, NEW n \in Attempt,
         InputOverdue(r) \/ ExpireInput(r) \/ LeaseExpires(r, n) \/ Reap(r, n),
         NEW q \in Run
  PROVE  Calm(q)
<1>1. CASE InputOverdue(r) \/ LeaseExpires(r, n)
  BY <1>1, StillIsCalm DEF InputOverdue, LeaseExpires
<1>2. CASE ExpireInput(r)
  <2> DEFINE next == IF current[r] # 0 THEN "cancelling" ELSE "cancelled"
  <2>1. /\ SetStatus(r, next)
        /\ UNCHANGED <<inbox, handed, claims, retrySafe, current>>
        /\ pending' = [pending EXCEPT ![r] = 0]
    BY <1>2 DEF ExpireInput, ClearPendingInput
  <2>2. next \in Status /\ next \notin {"queued", "waiting_children"}
    BY DEF Status
  <2> HIDE DEF next
  <2>3. QED
    BY <2>1, <2>2, TurnIsCalm
<1>3. CASE Reap(r, n) /\ current[r] # n
  BY <1>3, StillIsCalm DEF Reap
<1>4. CASE Reap(r, n) /\ current[r] = n
  <2> DEFINE next == AfterFailure(r)
             outcome == IF next = "cancelled" THEN "cancelled" ELSE "interrupted"
  <2>1. /\ SetStatus(r, next) /\ EndAttempt(r, n, outcome)
        /\ UNCHANGED <<inbox, handed, claims, retrySafe>>
        /\ pending' = [pending EXCEPT ![r] = 0]
    BY <1>4 DEF Reap, ClearPendingInput
  <2>2. /\ next \in {"cancelled", "queued", "failed"}
        /\ next = "queued" => retrySafe[r]
    BY AfterFailureCases, RowTypes
  <2> HIDE DEF next, outcome
  <2>3. next \in Status
    BY <2>2 DEF Status
  <2>4. QED
    BY <2>1, <2>2, <2>3, RowTypes, EndIsCalm
<1>5. QED
  BY <1>1, <1>2, <1>3, <1>4

-----------------------------------------------------------------------------
(* The steps that do disturb it. *)

\* The others are not concerned when the row of r alone is written.
LEMMA OthersKept ==
  ASSUME IInv, AInv, NEW r \in Run, NEW q \in Run, q # r,
         status'[q] = status[q], current'[q] = current[q],
         claims'[q] = claims[q], retrySafe'[q] = retrySafe[q],
         pending'[q] = pending[q], inbox'[q] = inbox[q], handed'[q] = handed[q]
  PROVE  AnswerInv(q)'
<1>1. Calm(q)
  BY DEF Calm
<1>2. QED
  BY <1>1, CalmKeeps DEF AInv

\* A Run that is created has no history: nothing was claimed, asked for or
\* answered under its name.
LEMMA CreateKeeps ==
  ASSUME IInv, AInv, NEW r \in Run, NEW safe \in BOOLEAN, CreateRun(r, safe)
  PROVE  AInv'
<1>1. ASSUME NEW q \in Run, q # r
      PROVE  AnswerInv(q)'
  <2>1. /\ status'[q] = status[q] /\ retrySafe'[q] = retrySafe[q]
        /\ UNCHANGED <<current, claims, pending, inbox, handed>>
    BY <1>1, RowTypes DEF CreateRun, SetStatus
  <2>2. QED
    BY <1>1, <2>1, OthersKept
<1>2. AnswerInv(r)'
  <2>1. /\ status[r] = Absent /\ status'[r] = "queued" /\ claims[r] = 0
        /\ current[r] = 0 /\ pending[r] = 0
        /\ UNCHANGED <<current, claims, pending, inbox, handed>>
    BY RowTypes DEF CreateRun, SetStatus, IInv, OneOwner, PendingInputConsistent,
       Absent, AInv, AnswerInv, UnclaimedAtFirst
  <2>2. ~AnswerWaits(r)
    BY <2>1, RowTypes DEF AInv, AnswerInv, RightAsker, AnswerWaits, Command
  <2>3. ~AnswerWaits(r)'
    BY <2>1, <2>2 DEF AnswerWaits
  <2>4. RightAsker(r)'
    BY <2>1 DEF RightAsker, AInv, AnswerInv
  <2>5. LiveNeverRequeued(r)' /\ OwnedHasNoAnswer(r)' /\ UnclaimedAtFirst(r)'
    BY <2>1, <2>3 DEF LiveNeverRequeued, OwnedHasNoAnswer, UnclaimedAtFirst
  <2>6. QED
    BY <2>4, <2>5 DEF AnswerInv
<1>3. QED
  BY <1>1, <1>2 DEF AInv

\* A claim finds an answer only for a Run that left a checkpoint, and takes
\* all there is.
LEMMA ClaimKeeps ==
  ASSUME IInv, AInv, NEW r \in Run, Claim(r)
  PROVE  AInv'
<1>1. ASSUME NEW q \in Run, q # r
      PROVE  AnswerInv(q)'
  <2>1. /\ status'[q] = status[q] /\ current'[q] = current[q]
        /\ claims'[q] = claims[q] /\ inbox'[q] = inbox[q]
        /\ handed'[q] = handed[q] /\ UNCHANGED <<retrySafe, pending>>
    BY <1>1, RowTypes DEF Claim, SetStatus
  <2>2. QED
    BY <1>1, <2>1, OthersKept
<1>2. AnswerInv(r)'
  <2> DEFINE n == claims[r] + 1
  <2>1. /\ status[r] = "queued" /\ status'[r] = "running" /\ claims[r] \in Nat
        /\ claims'[r] = n /\ current'[r] = n /\ UNCHANGED <<retrySafe, pending>>
        /\ inbox'[r] = inbox[r] \ ResumeCommand(r)
        /\ handed'[r] = handed[r] \cup
             {[command |-> c, by |-> n] : c \in ResumeCommand(r)}
    BY RowTypes DEF Claim, SetStatus
  <2>2. \A c \in inbox[r] : c.type = "answer" => c.to = claims[r]
    BY DEF AInv, AnswerInv, RightAsker
  <2>3. \A c \in inbox[r] : c.type = "answer" => c \in ResumeCommand(r)
    BY <2>1, <2>2 DEF ResumeCommand
  <2>4. ~AnswerWaits(r)'
    BY <2>1, <2>3 DEF AnswerWaits
  <2>5. ASSUME NEW c \in ResumeCommand(r)
        PROVE  r \notin Live /\ c.to = claims[r]
    <3>1. c \in inbox[r] /\ c.type = "answer" /\ c.to = claims[r]
      BY <2>2, <2>5 DEF ResumeCommand
    <3>2. claims[r] # 0
      BY <3>1, RowTypes DEF Command
    <3>3. AnswerWaits(r)
      BY <3>1 DEF AnswerWaits
    <3>4. QED
      BY <2>1, <3>1, <3>2, <3>3 DEF AInv, AnswerInv, LiveNeverRequeued
  <2>6. ASSUME NEW h \in handed'[r], h.command.type = "answer"
        PROVE  h.by = IF r \in Live THEN h.command.to ELSE h.command.to + 1
    <3>1. CASE h \in handed[r]
      BY <2>6, <3>1 DEF AInv, AnswerInv, RightAsker
    <3>2. CASE h \notin handed[r]
      <4>1. PICK c \in ResumeCommand(r) : h = [command |-> c, by |-> n]
        BY <2>1, <2>6, <3>2
      <4>2. QED
        BY <2>5, <4>1
    <3>3. QED
      BY <3>1, <3>2
  <2>7. RightAsker(r)'
    BY <2>4, <2>6 DEF RightAsker, AnswerWaits
  <2>8. pending[r] = 0
    BY <2>1 DEF IInv, PendingInputConsistent
  <2>9. LiveNeverRequeued(r)' /\ OwnedHasNoAnswer(r)' /\ UnclaimedAtFirst(r)'
    BY <2>1, <2>4, <2>8 DEF LiveNeverRequeued, OwnedHasNoAnswer,
       UnclaimedAtFirst, Absent
  <2>10. QED
    BY <2>7, <2>9 DEF AnswerInv
<1>3. QED
  BY <1>1, <1>2 DEF AInv

\* The pending request is of the newest attempt; if that still owns the Run
\* the Run keeps its process.
LEMMA AnswerKeeps ==
  ASSUME IInv, AInv, NEW r \in Run, Answer(r)
  PROVE  AInv'
<1>1. ASSUME NEW q \in Run, q # r
      PROVE  AnswerInv(q)'
  <2>1. /\ status'[q] = status[q] /\ pending'[q] = pending[q]
        /\ inbox'[q] = inbox[q]
        /\ UNCHANGED <<current, claims, retrySafe, handed>>
    BY <1>1, RowTypes DEF Answer, SetStatus, ClearPendingInput
  <2>2. QED
    BY <1>1, <2>1, OthersKept
<1>2. AnswerInv(r)'
  <2>1. /\ status'[r] = IF current[r] # 0 THEN "running" ELSE "queued"
        /\ pending'[r] = 0
        /\ inbox'[r] = inbox[r] \cup {[type |-> "answer", to |-> pending[r]]}
        /\ UNCHANGED <<current, claims, retrySafe, handed>>
    BY RowTypes DEF Answer, SetStatus, ClearPendingInput
  <2>2. /\ pending[r] # 0 /\ pending[r] = claims[r]
        /\ current[r] # 0 <=> r \in Live
    BY DEF Answer, IInv, PendingInputConsistent
  <2>3. RightAsker(r)'
    BY <2>1, <2>2 DEF RightAsker, AInv, AnswerInv
  <2>4. r \in Live => ~retrySafe[r]
    BY <2>2 DEF AInv, AnswerInv, LiveNeverRequeued
  <2>5. LiveNeverRequeued(r)' /\ OwnedHasNoAnswer(r)' /\ UnclaimedAtFirst(r)'
    BY <2>1, <2>2, <2>4 DEF LiveNeverRequeued, OwnedHasNoAnswer,
       UnclaimedAtFirst, Absent
  <2>6. QED
    BY <2>3, <2>5 DEF AnswerInv
<1>3. QED
  BY <1>1, <1>2 DEF AInv

\* A request of a live attempt makes its Run unsafe to retry.
LEMMA LiveRequestKeeps ==
  ASSUME IInv, AInv, NEW r \in Run, NEW n \in Attempt, LiveRequest(r, n)
  PROVE  AInv'
<1>1. ASSUME NEW q \in Run, q # r
      PROVE  AnswerInv(q)'
  <2>1. /\ status'[q] = status[q] /\ pending'[q] = pending[q]
        /\ retrySafe'[q] = retrySafe[q]
        /\ UNCHANGED <<current, claims, inbox, handed>>
    BY <1>1, RowTypes DEF LiveRequest, SetStatus
  <2>2. QED
    BY <1>1, <2>1, OthersKept
<1>2. AnswerInv(r)'
  <2>1. /\ r \in Live /\ status'[r] = "waiting_input" /\ ~retrySafe'[r]
        /\ UNCHANGED <<current, claims, inbox, handed>>
    BY RowTypes DEF LiveRequest, SetStatus
  <2>2. RightAsker(r)'
    BY <2>1 DEF RightAsker, AInv, AnswerInv
  <2>3. LiveNeverRequeued(r)' /\ OwnedHasNoAnswer(r)' /\ UnclaimedAtFirst(r)'
    BY <2>1 DEF LiveNeverRequeued, OwnedHasNoAnswer, UnclaimedAtFirst, Absent
  <2>4. QED
    BY <2>2, <2>3 DEF AnswerInv
<1>3. QED
  BY <1>1, <1>2 DEF AInv

\* The coordinator finds answers only for a process that asked for them.
LEMMA DeliverKeeps ==
  ASSUME IInv, AInv, NEW r \in Run, NEW n \in Attempt, DeliverControls(r, n)
  PROVE  AInv'
<1>1. ASSUME NEW q \in Run, q # r
      PROVE  AnswerInv(q)'
  <2>1. /\ inbox'[q] = inbox[q] /\ handed'[q] = handed[q]
        /\ UNCHANGED <<status, current, claims, retrySafe, pending>>
    BY <1>1, RowTypes DEF DeliverControls
  <2>2. QED
    BY <1>1, <2>1, OthersKept
<1>2. AnswerInv(r)'
  <2>1. /\ inbox'[r] = {}
        /\ handed'[r] = handed[r] \cup
             {[command |-> c, by |-> n] : c \in inbox[r]}
        /\ UNCHANGED <<status, current, claims, retrySafe, pending>>
    BY RowTypes DEF DeliverControls
  <2>2. current[r] = n /\ n = claims[r] /\ n # 0
    BY DEF DeliverControls, Holds, IInv, OneOwner
  <2>3. ASSUME NEW c \in inbox[r], c.type = "answer"
        PROVE  r \in Live /\ c.to = n
    BY <2>2, <2>3 DEF AInv, AnswerInv, RightAsker, OwnedHasNoAnswer, AnswerWaits
  <2>4. ASSUME NEW h \in handed'[r], h.command.type = "answer"
        PROVE  h.by = IF r \in Live THEN h.command.to ELSE h.command.to + 1
    <3>1. CASE h \in handed[r]
      BY <2>4, <3>1 DEF AInv, AnswerInv, RightAsker
    <3>2. CASE h \notin handed[r]
      <4>1. PICK c \in inbox[r] : h = [command |-> c, by |-> n]
        BY <2>1, <2>4, <3>2
      <4>2. QED
        BY <2>3, <2>4, <4>1
    <3>3. QED
      BY <3>1, <3>2
  <2>5. RightAsker(r)'
    BY <2>1, <2>4 DEF RightAsker
  <2>6. LiveNeverRequeued(r)' /\ OwnedHasNoAnswer(r)' /\ UnclaimedAtFirst(r)'
    BY <2>1 DEF LiveNeverRequeued, OwnedHasNoAnswer, UnclaimedAtFirst,
       AnswerWaits, AInv, AnswerInv
  <2>7. QED
    BY <2>5, <2>6 DEF AnswerInv
<1>3. QED
  BY <1>1, <1>2 DEF AInv

-----------------------------------------------------------------------------
\* One step of the queue keeps every answer on its way to its asker.
LEMMA StepAnswers ==
  ASSUME IInv, AInv, [Next]_vars
  PROVE  AInv'
<1>1. ASSUME \A q \in Run : Calm(q)
      PROVE  AInv'
  BY <1>1, CalmKeeps DEF AInv
<1>2. ASSUME NEW r \in Run, User(r)
      PROVE  AInv'
  <2>1. CASE \E safe \in BOOLEAN : CreateRun(r, safe)
    BY <2>1, CreateKeeps
  <2>2. CASE Answer(r)
    BY <2>2, AnswerKeeps
  <2>3. CASE ~Answer(r) /\ \A safe \in BOOLEAN : ~CreateRun(r, safe)
    BY <1>1, <1>2, <2>3, UserIsCalm
  <2>4. QED
    BY <2>1, <2>2, <2>3
<1>3. CASE \E r \in Run : Claim(r)
  BY <1>3, ClaimKeeps
<1>4. ASSUME NEW r \in Run, CommitSuspension(r)
      PROVE  AInv'
  <2>1. /\ r \notin Live /\ current[r] \in Attempt
        /\ SuspendOnChildren(r, current[r], scan[r] = "active")
    BY <1>4, RowTypes DEF CommitSuspension, IInv, SuspensionOpen, OneOwner
  <2>2. (scan[r] = "active") \in BOOLEAN
    OBVIOUS
  <2>3. QED
    BY <1>1, <2>1, <2>2, SuspensionIsCalm
<1>5. ASSUME NEW r \in Run, NEW n \in Attempt, Worker(r, n)
      PROVE  AInv'
  <2>1. CASE LiveRequest(r, n)
    BY <2>1, LiveRequestKeeps
  <2>2. CASE DeliverControls(r, n)
    BY <2>2, DeliverKeeps
  <2>3. CASE ~LiveRequest(r, n) /\ ~DeliverControls(r, n)
    BY <1>1, <1>5, <2>3, WorkerIsCalm
  <2>4. QED
    BY <2>1, <2>2, <2>3
<1>6. ASSUME NEW r \in Run, NEW n \in Attempt,
             InputOverdue(r) \/ ExpireInput(r) \/ LeaseExpires(r, n) \/ Reap(r, n)
      PROVE  AInv'
  BY <1>1, <1>6, MaintenanceIsCalm
<1>7. 1 \in Attempt
  OBVIOUS
<1>8. CASE UNCHANGED vars
  BY <1>1, <1>8, StillIsCalm DEF vars
<1>9. QED
  BY <1>2, <1>3, <1>4, <1>5, <1>6, <1>7, <1>8 DEF Next

\* A decision reaches the process that asked for it, or the one resumed from
\* its checkpoint, and no other; while it waits no other attempt has started.
THEOREM AnswersCorrect == Spec => []AnswersReachTheAsker
<1>1. Init => AInv
  BY DEF Init, AInv, AnswerInv, RightAsker, LiveNeverRequeued, OwnedHasNoAnswer,
     UnclaimedAtFirst, AnswerWaits, Absent
<1>2. IInv /\ AInv /\ [Next]_vars => AInv'
  BY StepAnswers
<1>3. AInv => AnswersReachTheAsker
  BY DEF AInv, AnswerInv, RightAsker, AnswersReachTheAsker
<1>4. QED
  BY <1>1, <1>2, <1>3, Invariance, PTL DEF Spec
=============================================================================
