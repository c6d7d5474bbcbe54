------------------------- MODULE Coordinator_proofs -------------------------
(***************************************************************************)
(* Proofs about Coordinator, for every set of Runs, every number of slots  *)
(* and attempts, queues and batches of every size, and every disturbance.  *)
(*                                                                         *)
(* A lemma is named after what it keeps and who keeps it: PersistTypes     *)
(* says that the Persist actions keep the types, EndsGraves that the end   *)
(* of the worker process (Ends) keeps Buried.  A lemma XStep collects      *)
(* those of its section: every step keeps X.                               *)
(***************************************************************************)
EXTENDS Coordinator, FiniteSetTheorems, WellFoundedInduction, TLAPS

-----------------------------------------------------------------------------
(* Types.  Those of given and handing come with the commands, towards the   *)
(* end: they rest on Oldest, a least element of a set.                      *)

AtType == [job : Job \cup {NoJob}, step : Step,
           saw : {"nothing", Absent} \cup LeaseState \cup Status,
           left : Int, todo : SUBSET Steer]

DatabaseTypes ==
  /\ status \in [Run -> Status \cup {Absent}]
  /\ current \in [Run -> {0} \cup Attempt]
  /\ claims \in [Run -> {0} \cup Attempt]
  /\ lease \in [Job -> LeaseState]
  /\ attempt \in [Job -> AttemptStatus]
  /\ vendor \in Vendors
  /\ steers \in [Run -> Nat]
  /\ inbox \in [Run -> SUBSET Steer]
  /\ requested \subseteq Run

WorkerTypes ==
  /\ up \in BOOLEAN
  /\ at \in AtType
  /\ active \subseteq Job
  /\ stopping \in [Job -> BOOLEAN]
  /\ unsaved \in [Job -> BOOLEAN]
  /\ settled \in [Job -> BOOLEAN]
  /\ patience \in [Job -> Timer]
  /\ gone \in [Job -> Timer]

ChildTypes ==
  /\ proc \in [Job -> ProcState]
  /\ sent \in [Job -> 0..(Ring - 1)]
  /\ taken \in [Job -> 0..(Ring - 1)]
  /\ applied \in [Job -> 0..(Ring - 1)]
  /\ last \in [Job -> Kind \cup {"none"}]

Typed == DatabaseTypes /\ WorkerTypes /\ ChildTypes

\* What the loop is about to finish is a last message.
LastInHand ==
  at.step = "finish" => at.job \in Job /\ Message(at.job) = "succeeded"

USE SlotAssumption, CountAssumption, RingAssumption, NoJobAssumption

\* A job is an attempt of a Run.
LEMMA Jobs ==
  /\ \A j \in Job : RunOf(j) \in Run /\ j[2] \in Attempt /\ j = <<RunOf(j), j[2]>>
  /\ \A r \in Run, n \in Attempt : <<r, n>> \in Job /\ RunOf(<<r, n>>) = r
  /\ \A n \in Attempt : n \in Nat \ {0}
  /\ NoJob \notin Job
BY DEF Job, RunOf, Attempt

\* The next message has a number, too.
LEMMA AfterType == \A i \in 0..(Ring - 1) : After(i) \in 0..(Ring - 1)
BY DEF After

\* Where the loop goes has the type of a stage.
LEMMA StageType ==
  ASSUME NEW j \in Job, NEW step \in Step,
         NEW saw \in {"nothing", Absent} \cup LeaseState \cup Status,
         NEW left \in Int, NEW todo \in SUBSET Steer
  PROVE  Stage(j, step, saw, left, todo) \in AtType
BY DEF Stage, AtType

LEMMA SeeingType ==
  ASSUME NEW j \in Job, NEW step \in Step,
         NEW saw \in {"nothing", Absent} \cup LeaseState \cup Status,
         GoSeeing(j, step, saw)
  PROVE  at' \in AtType
<1>1. Stage(j, step, saw, 0, {}) \in AtType
  BY StageType
<1>2. QED
  BY <1>1 DEF GoSeeing

LEMMA IdleType == Idle \in AtType
BY DEF Idle, Stage, AtType, Step

\* A failure leads to one of three statuses.
LEMMA AfterFailureCases ==
  ASSUME NEW r \in Run
  PROVE  /\ AfterFailure(r) \in {"cancelled", "queued", "failed"}
         /\ status[r] = "cancelling" <=> AfterFailure(r) = "cancelled"
BY DEF AfterFailure

LEMMA TypedInit == Init => Typed
BY StageType, IdleType, Jobs
   DEF Init, Typed, DatabaseTypes, WorkerTypes, ChildTypes, LeaseState,
       AttemptStatus, Timer, ProcState

\* Closing an attempt writes values of the right types.
LEMMA CloseTypes ==
  ASSUME Typed, NEW j \in Job, NEW next \in Status,
         NEW how \in AttemptStatus, Close(j, next, how)
  PROVE  /\ status' \in [Run -> Status \cup {Absent}]
         /\ current' \in [Run -> {0} \cup Attempt]
         /\ lease' \in [Job -> LeaseState]
         /\ attempt' \in [Job -> AttemptStatus]
BY DEF Typed, DatabaseTypes, Close, LeaseState

\* So does forgetting some jobs.
LEMMA ForgetTypes ==
  ASSUME Typed, NEW J \in SUBSET Job, Forget(J)
  PROVE  /\ active' \subseteq Job
         /\ stopping' \in [Job -> BOOLEAN]
         /\ unsaved' \in [Job -> BOOLEAN]
         /\ settled' \in [Job -> BOOLEAN]
         /\ patience' \in [Job -> Timer]
         /\ gone' \in [Job -> Timer]
         /\ sent' \in [Job -> 0..(Ring - 1)]
         /\ taken' \in [Job -> 0..(Ring - 1)]
         /\ applied' \in [Job -> 0..(Ring - 1)]
         /\ last' \in [Job -> Kind \cup {"none"}]
BY DEF Typed, WorkerTypes, ChildTypes, Forget, Timer

\* A failure leads to a status, and a last message to one, too.
LEMMA OutcomeTypes ==
  /\ \A r \in Run : AfterFailure(r) \in Status
  /\ \A kind \in Kind : \A s : Outcome(kind, s) \in Status
  /\ \A kind \in Kind \ {"suspend", "failed"} : \A s : Outcome(kind, s) \in AttemptStatus
BY AfterFailureCases DEF Outcome, Kind, Status, AttemptStatus

LEMMA CloseByTypes ==
  ASSUME Typed, NEW j \in Job, NEW kind \in Kind, NEW s, CloseBy(j, kind, s)
  PROVE  /\ status' \in [Run -> Status \cup {Absent}]
         /\ current' \in [Run -> {0} \cup Attempt]
         /\ lease' \in [Job -> LeaseState]
         /\ attempt' \in [Job -> AttemptStatus]
<1>1. RunOf(j) \in Run
  BY Jobs
<1>2. CASE kind = "suspend"
  BY <1>2, CloseTypes DEF CloseBy, Status, AttemptStatus
<1>3. CASE kind = "failed"
  BY <1>1, <1>3, CloseTypes, OutcomeTypes DEF CloseBy, AttemptStatus
<1>4. CASE kind \notin {"suspend", "failed"}
  BY <1>4, CloseTypes, OutcomeTypes DEF CloseBy
<1>5. QED
  BY <1>2, <1>3, <1>4

\* A removed child leaves everything well typed.
LEMMA RemoveTypes ==
  ASSUME Typed, NEW j \in Job, RemoveChild(j)
  PROVE  at' \in AtType /\ proc' \in [Job -> ProcState]
BY IdleType DEF Typed, ChildTypes, RemoveChild, Rest, ProcState

LEMMA EndsTypes == ASSUME Typed, Ends PROVE Typed'
<1>1. active \in SUBSET Job
  BY DEF Typed, WorkerTypes
<1>2. QED
  BY <1>1, ForgetTypes, IdleType
     DEF Ends, Rest, Typed, DatabaseTypes, WorkerTypes, ChildTypes, ProcState, dbVars

-----------------------------------------------------------------------------
(* Every step keeps the types. *)

\* The steps of users, of time and of the reaper.
LEMMA UserTypes ==
  ASSUME Typed, NEW r \in Run,
         Submit(r) \/ Claim(r) \/ Cancel(r) \/ SteerRun(r) \/ Answer(r)
  PROVE  Typed'
<1>1. CASE Submit(r)
  BY <1>1 DEF Submit, Typed, DatabaseTypes, WorkerTypes, ChildTypes, memoryVars,
              childVars, Status
<1>2. CASE Claim(r)
  <2>1. claims[r] + 1 \in Attempt /\ <<r, claims[r] + 1>> \in Job
    BY <1>2, Jobs DEF Claim
  <2>2. at' \in AtType
    BY <1>2, <2>1, StageType DEF Claim, Go, Step
  <2>3. QED
    BY <1>2, <2>1, <2>2 DEF Claim, Typed, DatabaseTypes, WorkerTypes, ChildTypes,
       memoryVars, childVars, Status, LeaseState, AttemptStatus
<1>3. CASE Cancel(r)
  BY <1>3 DEF Cancel, Typed, DatabaseTypes, WorkerTypes, ChildTypes, memoryVars,
              childVars, Status
<1>4. CASE SteerRun(r)
  <2>1. steers[r] + 1 \in Steer
    BY <1>4, VendorAssumption DEF SteerRun, Steer, Typed, DatabaseTypes
  <2>2. QED
    BY <1>4, <2>1 DEF SteerRun, Typed, DatabaseTypes, WorkerTypes, ChildTypes,
       memoryVars, childVars
<1>5. CASE Answer(r)
  BY <1>5 DEF Answer, Typed, DatabaseTypes, WorkerTypes, ChildTypes, memoryVars,
              childVars, Status
<1>6. QED
  BY <1>1, <1>2, <1>3, <1>4, <1>5

LEMMA TimeTypes ==
  ASSUME Typed, NEW j \in Job,
         PatienceEnds(j) \/ ExitGraceEnds(j) \/ LeaseExpires(j) \/ Reap(j) \/ Busy(j)
  PROVE  Typed'
<1>1. CASE PatienceEnds(j)
  BY <1>1 DEF PatienceEnds, Typed, DatabaseTypes, WorkerTypes, ChildTypes, dbVars,
              childVars, Timer
<1>2. CASE ExitGraceEnds(j)
  BY <1>2 DEF ExitGraceEnds, Typed, DatabaseTypes, WorkerTypes, ChildTypes, dbVars,
              childVars, Timer
<1>3. CASE LeaseExpires(j)
  BY <1>3 DEF LeaseExpires, Typed, DatabaseTypes, WorkerTypes, ChildTypes,
              memoryVars, childVars, LeaseState
<1>4. CASE Reap(j)
  <2>1. AfterFailure(RunOf(j)) \in Status
    BY OutcomeTypes, Jobs
  <2>2. IF status[RunOf(j)] = "cancelling" THEN "cancelled" \in AttemptStatus
                                           ELSE "interrupted" \in AttemptStatus
    BY DEF AttemptStatus
  <2>3. /\ status' \in [Run -> Status \cup {Absent}] /\ current' \in [Run -> {0} \cup Attempt]
        /\ lease' \in [Job -> LeaseState] /\ attempt' \in [Job -> AttemptStatus]
    <3>1. CASE current[RunOf(j)] = j[2]
      BY <1>4, <2>1, <2>2, <3>1, CloseTypes DEF Reap
    <3>2. CASE current[RunOf(j)] # j[2]
      BY <1>4, <3>2 DEF Reap, Typed, DatabaseTypes, LeaseState
    <3> QED  BY <3>1, <3>2
  <2>4. QED
    BY <1>4, <2>3
       DEF Reap, Typed, DatabaseTypes, WorkerTypes, ChildTypes, memoryVars, childVars
<1>5. CASE Busy(j)
  BY <1>5, IdleType DEF Busy, CutShort, Rest, Typed, DatabaseTypes, WorkerTypes,
     ChildTypes, dbVars, memoryVars, childVars
<1>6. QED
  BY <1>1, <1>2, <1>3, <1>4, <1>5

LEMMA ProcessTypes ==
  ASSUME Typed, NEW j \in Job, Child(j)
  PROVE  Typed'
<1>1. CASE Emit(j)
  BY <1>1, AfterType DEF Emit, Typed, DatabaseTypes, WorkerTypes, ChildTypes,
     dbVars, memoryVars
<1>2. ASSUME NEW kind \in Kind, Conclude(j, kind) PROVE Typed'
  BY <1>2, AfterType DEF Conclude, Typed, DatabaseTypes, WorkerTypes, ChildTypes,
     dbVars, memoryVars
<1>3. CASE ChildEnds(j)
  BY <1>3 DEF ChildEnds, Typed, DatabaseTypes, WorkerTypes, ChildTypes,
     dbVars, memoryVars, ProcState
<1>4. QED
  BY <1>1, <1>2, <1>3 DEF Child

\* The steps of the service loop.
LEMMA StartTypes ==
  ASSUME Typed, NEW j \in Job,
         StartChild(j) \/ StartFails(j) \/ StartFailsLate(j)
  PROVE  Typed'
<1>1. CASE StartChild(j)
  BY <1>1, IdleType DEF StartChild, Rest, Typed, DatabaseTypes, WorkerTypes,
     ChildTypes, dbVars, ProcState
<1>2. CASE StartFails(j)
  <2>1. AfterFailure(RunOf(j)) \in Status /\ "failed" \in AttemptStatus
    BY OutcomeTypes, Jobs DEF AttemptStatus
  <2>2. QED
    BY <1>2, <2>1, CloseTypes, IdleType
       DEF StartFails, Rest, Typed, DatabaseTypes, WorkerTypes, ChildTypes,
           memoryVars, childVars
<1>3. CASE StartFailsLate(j)
  BY <1>3, EndsTypes DEF StartFailsLate, Crashes
<1>4. QED
  BY <1>1, <1>2, <1>3

LEMMA PollTypes ==
  ASSUME Typed, NEW j \in Job, Poll(j)
  PROVE  Typed'
<1>1. at' \in AtType
  BY StageType, RingAssumption DEF Poll, Go, GoDraining, Step
<1>2. stopping' \in [Job -> BOOLEAN] /\ patience' \in [Job -> Timer]
  BY DEF Poll, Typed, WorkerTypes, Timer
<1>3. QED
  BY <1>1, <1>2 DEF Poll, Typed, DatabaseTypes, WorkerTypes, ChildTypes, dbVars,
     childVars

LEMMA PassTypes ==
  ASSUME Typed, NEW j \in Job,
         BeginPass(j) \/ Renew(j) \/ PollAfterRenewal(j)
  PROVE  Typed'
<1>1. CASE BeginPass(j)
  <2>1. CASE RemoveChild(j) /\ UNCHANGED <<dbVars, up, mishaps>>
    BY <2>1, RemoveTypes, ForgetTypes DEF RemoveChild, Typed, DatabaseTypes,
       WorkerTypes, ChildTypes, dbVars
  <2>2. CASE GoSeeing(j, "renew", lease[j])
             /\ UNCHANGED <<dbVars, up, mishaps, memoryVars, childVars>>
    <3>1. lease[j] \in {"nothing", Absent} \cup LeaseState \cup Status
      BY DEF Typed, DatabaseTypes
    <3>2. at' \in AtType
      BY <2>2, <3>1, SeeingType DEF Step
    <3>3. QED
      BY <2>2, <3>2 DEF Typed, DatabaseTypes, WorkerTypes, ChildTypes, dbVars,
         memoryVars, childVars
  <2>3. QED
    BY <1>1, <2>1, <2>2, PollTypes DEF BeginPass
<1>2. CASE Renew(j)
  <2>1. at' \in AtType
    BY <1>2, StageType DEF Renew, Go, Step
  <2>2. QED
    BY <1>2, <2>1 DEF Renew, Typed, DatabaseTypes, WorkerTypes, ChildTypes,
       dbVars, memoryVars, childVars, LeaseState
<1>3. CASE PollAfterRenewal(j)
  BY <1>3, PollTypes DEF PollAfterRenewal
<1>4. QED
  BY <1>1, <1>2, <1>3

LEMMA ControlTypes ==
  ASSUME Typed, NEW j \in Job, ReadControls(j) \/ Consume(j)
  PROVE  Typed'
<1>1. CASE ReadControls(j)
  <2>1. inbox[RunOf(j)] \in SUBSET Steer
    BY Jobs DEF Typed, DatabaseTypes
  <2>2. at' \in AtType
    BY <1>1, <2>1, StageType DEF ReadControls, GoDraining, Step
  <2>3. QED
    BY <1>1, <2>2 DEF ReadControls, Typed, DatabaseTypes, WorkerTypes, ChildTypes,
       dbVars
<1>2. CASE Consume(j)
  <2>1. at.todo \in SUBSET Steer
    BY DEF Typed, WorkerTypes, AtType
  <2>2. at' \in AtType
    BY <1>2, <2>1, StageType DEF Consume, GoDraining, Step
  <2>3. inbox' \in [Run -> SUBSET Steer]
    BY <1>2 DEF Consume, Typed, DatabaseTypes
  <2>4. QED
    BY <1>2, <2>2, <2>3 DEF Consume, Typed, DatabaseTypes, WorkerTypes, ChildTypes
<1>3. QED
  BY <1>1, <1>2

LEMMA DrainTypes ==
  ASSUME Typed, NEW j \in Job, Take(j) \/ StopDraining(j)
  PROVE  Typed'
<1>1. CASE Take(j)
  <2>1. at' \in AtType
    BY <1>1 DEF Take, Typed, WorkerTypes, AtType, Step
  <2>2. taken' \in [Job -> 0..(Ring - 1)] /\ unsaved' \in [Job -> BOOLEAN]
    <3>1. After(taken[j]) \in 0..(Ring - 1)
      BY AfterType DEF Typed, ChildTypes
    <3>2. taken \in [Job -> 0..(Ring - 1)] /\ unsaved \in [Job -> BOOLEAN]
      BY DEF Typed, WorkerTypes, ChildTypes
    <3>3. QED
      BY <1>1, <3>1, <3>2 DEF Take
  <2>3. QED
    BY <1>1, <2>1, <2>2 DEF Take, Typed, DatabaseTypes, WorkerTypes,
       ChildTypes, dbVars
<1>2. CASE StopDraining(j)
  <2>1. at' \in AtType
    BY <1>2, StageType, IdleType DEF StopDraining, Go, Rest, Step
  <2>2. proc' \in [Job -> ProcState] /\ gone' \in [Job -> Timer]
    BY <1>2 DEF StopDraining, Terminate, Typed, WorkerTypes, ChildTypes,
       ProcState, Timer
  <2>3. QED
    BY <1>2, <2>1, <2>2 DEF StopDraining, Typed, DatabaseTypes, WorkerTypes,
       ChildTypes, dbVars
<1>3. QED
  BY <1>1, <1>2

LEMMA CommitTypes ==
  ASSUME Typed, NEW j \in Job, NEW ends \in BOOLEAN, Committed(j, ends)
  PROVE  /\ applied' \in [Job -> 0..(Ring - 1)]
         /\ unsaved' \in [Job -> BOOLEAN]
         /\ settled' \in [Job -> BOOLEAN]
BY DEF Committed, Typed, WorkerTypes, ChildTypes

LEMMA PersistTypes ==
  ASSUME Typed, NEW j \in Job,
         PersistEvent(j) \/ ReadStatus(j) \/ PersistFenced(j) \/ PersistIllegal(j)
  PROVE  Typed'
<1>1. CASE PersistEvent(j)
  <2>1. at.left - 1 \in Int
    BY DEF Typed, WorkerTypes, AtType
  <2>2. at' \in AtType
    BY <1>1, <2>1, StageType, IdleType DEF PersistEvent, GoDraining, CutShort, Rest, Step
  <2>3. Committed(j, FALSE)
    BY <1>1 DEF PersistEvent
  <2>4. QED
    BY <1>1, <2>2, <2>3, CommitTypes DEF PersistEvent, Typed, DatabaseTypes,
       WorkerTypes, ChildTypes, dbVars
<1>2. CASE ReadStatus(j)
  <2>1. status[RunOf(j)] \in {"nothing", Absent} \cup LeaseState \cup Status
    BY Jobs DEF Typed, DatabaseTypes
  <2>2. at' \in AtType
    BY <1>2, <2>1, SeeingType DEF ReadStatus, Step
  <2>3. QED
    BY <1>2, <2>2 DEF ReadStatus, Typed, DatabaseTypes, WorkerTypes, ChildTypes,
       dbVars, memoryVars, childVars
<1>3. CASE PersistFenced(j)
  BY <1>3, RemoveTypes, ForgetTypes DEF PersistFenced, RemoveChild, Typed,
     DatabaseTypes, WorkerTypes, ChildTypes, dbVars
<1>4. CASE PersistIllegal(j)
  BY <1>4, EndsTypes DEF PersistIllegal, Crashes
<1>5. QED
  BY <1>1, <1>2, <1>3, <1>4

LEMMA PersistLastTypes ==
  ASSUME Typed, LastInHand, NEW j \in Job, PersistLast(j)
  PROVE  Typed'
<1>1. Message(j) \in Kind
  BY DEF PersistLast, Closing, LastInHand, At, Kind
<1>2. /\ status' \in [Run -> Status \cup {Absent}]
      /\ current' \in [Run -> {0} \cup Attempt]
      /\ lease' \in [Job -> LeaseState]
      /\ attempt' \in [Job -> AttemptStatus]
  BY <1>1, CloseByTypes DEF PersistLast
<1>3. CASE RemoveChild(j)
  BY <1>2, <1>3, RemoveTypes, ForgetTypes DEF PersistLast, RemoveChild, Typed,
     DatabaseTypes, WorkerTypes, ChildTypes
<1>4. CASE /\ CutShort
           /\ Committed(j, TRUE)
           /\ UNCHANGED <<active, stopping, patience, gone, handing, proc, sent,
                          taken, last, given>>
  BY <1>2, <1>4, CommitTypes, IdleType DEF PersistLast, CutShort, Rest, Typed,
     DatabaseTypes, WorkerTypes, ChildTypes
<1>5. QED
  BY <1>3, <1>4 DEF PersistLast

LEMMA EndingTypes ==
  ASSUME Typed, NEW j \in Job, Enforce(j) \/ Exit(j)
  PROVE  Typed'
<1>1. AfterFailure(RunOf(j)) \in Status /\ "failed" \in AttemptStatus
      /\ "cancelled" \in AttemptStatus /\ "cancelled" \in Status
  BY OutcomeTypes, Jobs DEF AttemptStatus, Status
<1>2. CASE Enforce(j)
  <2>1. /\ status' \in [Run -> Status \cup {Absent}]
        /\ current' \in [Run -> {0} \cup Attempt]
        /\ lease' \in [Job -> LeaseState]
        /\ attempt' \in [Job -> AttemptStatus]
    BY <1>1, <1>2, CloseTypes DEF Enforce, Typed, DatabaseTypes
  <2>2. QED
    BY <1>2, <2>1, RemoveTypes, ForgetTypes DEF Enforce, RemoveChild, Typed,
       DatabaseTypes, WorkerTypes, ChildTypes
<1>3. CASE Exit(j) /\ GiveUp(j)
  <2>1. /\ status' \in [Run -> Status \cup {Absent}]
        /\ current' \in [Run -> {0} \cup Attempt]
        /\ lease' \in [Job -> LeaseState]
        /\ attempt' \in [Job -> AttemptStatus]
    BY <1>1, <1>3, CloseTypes DEF GiveUp, Typed, DatabaseTypes
  <2>2. QED
    BY <1>3, <2>1, RemoveTypes, ForgetTypes DEF Exit, GiveUp, RemoveChild, Typed,
       DatabaseTypes, WorkerTypes, ChildTypes
<1>4. CASE Exit(j) /\ ~GiveUp(j)
  <2>1. gone' \in [Job -> Timer]
    BY <1>4 DEF Exit, Typed, WorkerTypes, Timer
  <2>2. QED
    BY <1>4, <2>1, IdleType DEF Exit, Rest, Typed, DatabaseTypes, WorkerTypes,
       ChildTypes, childVars
<1>5. QED
  BY <1>2, <1>3, <1>4

LEMMA WorkerStepTypes ==
  ASSUME Typed, LastInHand, NEW j \in Job, Service(j)
  PROVE  Typed'
BY StartTypes, PassTypes, ControlTypes, DrainTypes, PersistTypes, PersistLastTypes,
   EndingTypes DEF Service

LEMMA TypedStep == Typed /\ LastInHand /\ [Next]_vars => Typed'
<1> SUFFICES ASSUME Typed, LastInHand, [Next]_vars
             PROVE  Typed'
  OBVIOUS
<1>1. CASE \E r \in Run : Submit(r) \/ Claim(r) \/ Cancel(r) \/ SteerRun(r) \/ Answer(r)
  BY <1>1, UserTypes
<1>2. ASSUME NEW j \in Job, Service(j) \/ Child(j)
      PROVE  Typed'
  BY <1>2, WorkerStepTypes, ProcessTypes
<1>3. ASSUME NEW j \in Job,
             Busy(j) \/ PatienceEnds(j) \/ ExitGraceEnds(j) \/ LeaseExpires(j) \/ Reap(j)
      PROVE  Typed'
  BY <1>3, TimeTypes
<1>4. CASE Stop
  BY <1>4, EndsTypes DEF Stop
<1>5. CASE Restart
  BY <1>5 DEF Restart, Typed, DatabaseTypes, WorkerTypes, ChildTypes, dbVars,
     memoryVars, childVars
<1>6. CASE UNCHANGED vars
  BY <1>6 DEF vars, Typed, DatabaseTypes, WorkerTypes, ChildTypes, dbVars,
     memoryVars, childVars
<1>7. QED
  BY <1>1, <1>2, <1>3, <1>4, <1>5, <1>6 DEF Next

-----------------------------------------------------------------------------
(* What a step may do to the messages in the hands of the worker.           *)

\* What the worker took of a child, and what the database holds of it.
Accounts(j) == <<taken[j], applied[j], unsaved[j]>>

\* A message is taken, or the one in hand is stored, or a job is forgotten;
\* otherwise the accounts of the job stay.
AccountKept(j) ==
  \/ Accounts(j)' = Accounts(j)
  \/ /\ ~unsaved[j] /\ unsaved'[j]
     /\ taken'[j] = After(taken[j]) /\ applied'[j] = applied[j]
  \/ taken'[j] = taken[j] /\ applied'[j] = taken[j] /\ ~unsaved'[j]
  \/ taken'[j] = 0 /\ applied'[j] = 0 /\ ~unsaved'[j]

LEMMA ForgetKeeps ==
  ASSUME Typed, NEW J \in SUBSET Job, Forget(J), NEW k \in Job
  PROVE  AccountKept(k)
BY DEF Forget, AccountKept, Accounts, Typed, WorkerTypes, ChildTypes

LEMMA RemoveKeeps ==
  ASSUME Typed, NEW j \in Job, RemoveChild(j), NEW k \in Job
  PROVE  AccountKept(k)
BY ForgetKeeps DEF RemoveChild

LEMMA EndsKeeps ==
  ASSUME Typed, Ends, NEW k \in Job
  PROVE  AccountKept(k)
<1>1. active \in SUBSET Job
  BY DEF Typed, WorkerTypes
<1>2. QED
  BY <1>1, ForgetKeeps DEF Ends

LEMMA CommitKeeps ==
  ASSUME Typed, NEW j \in Job, NEW ends, Committed(j, ends), taken' = taken,
         NEW k \in Job
  PROVE  AccountKept(k)
BY DEF Committed, AccountKept, Accounts, Typed, WorkerTypes, ChildTypes

\* Most steps do not touch them.
LEMMA UntouchedKeeps ==
  ASSUME UNCHANGED <<taken, applied, unsaved>>, NEW k \in Job
  PROVE  AccountKept(k)
BY DEF AccountKept, Accounts

LEMMA ServiceKeeps ==
  ASSUME Typed, NEW j \in Job, Service(j), NEW k \in Job
  PROVE  AccountKept(k)
<1>1. CASE StartChild(j) \/ StartFails(j)
  BY <1>1, UntouchedKeeps DEF StartChild, StartFails, memoryVars, childVars
<1>2. CASE StartFailsLate(j) \/ PersistIllegal(j)
  BY <1>2, EndsKeeps DEF StartFailsLate, PersistIllegal, Crashes
<1>3. CASE BeginPass(j) \/ PollAfterRenewal(j) \/ Renew(j)
  BY <1>3, RemoveKeeps, UntouchedKeeps
     DEF BeginPass, PollAfterRenewal, Poll, Renew, memoryVars, childVars
<1>4. CASE ReadControls(j) \/ Consume(j) \/ StopDraining(j) \/ ReadStatus(j)
  BY <1>4, UntouchedKeeps
     DEF ReadControls, Consume, StopDraining, ReadStatus, memoryVars, childVars
<1>5. CASE Take(j)
  <2>1. CASE unsaved[j]
    BY <1>5, <2>1, UntouchedKeeps DEF Take
  <2>2. CASE ~unsaved[j]
    BY <1>5, <2>2 DEF Take, AccountKept, Accounts, Typed, WorkerTypes, ChildTypes
  <2>3. QED
    BY <2>1, <2>2
<1>6. CASE PersistEvent(j)
  BY <1>6, CommitKeeps DEF PersistEvent
<1>7. CASE PersistLast(j)
  BY <1>7, CommitKeeps, RemoveKeeps DEF PersistLast
<1>8. CASE PersistFenced(j) \/ Enforce(j)
  BY <1>8, RemoveKeeps DEF PersistFenced, Enforce
<1>9. CASE Exit(j)
  BY <1>9, RemoveKeeps, UntouchedKeeps DEF Exit, GiveUp, childVars
<1>10. QED
  BY <1>1, <1>2, <1>3, <1>4, <1>5, <1>6, <1>7, <1>8, <1>9 DEF Service

LEMMA StepKeeps ==
  ASSUME Typed, [Next]_vars, NEW k \in Job
  PROVE  AccountKept(k)
<1>1. CASE \E r \in Run : Submit(r) \/ Claim(r) \/ Cancel(r) \/ SteerRun(r) \/ Answer(r)
  BY <1>1, UntouchedKeeps DEF Submit, Claim, Cancel, SteerRun, Answer, memoryVars, childVars
<1>2. ASSUME NEW j \in Job, Service(j) \/ Child(j)
      PROVE  AccountKept(k)
  BY <1>2, ServiceKeeps, UntouchedKeeps DEF Child, Emit, Conclude, ChildEnds, memoryVars
<1>3. ASSUME NEW j \in Job,
             Busy(j) \/ PatienceEnds(j) \/ ExitGraceEnds(j) \/ LeaseExpires(j) \/ Reap(j)
      PROVE  AccountKept(k)
  BY <1>3, UntouchedKeeps DEF Busy, PatienceEnds, ExitGraceEnds, LeaseExpires, Reap,
     memoryVars, childVars
<1>4. CASE Stop
  BY <1>4, EndsKeeps DEF Stop
<1>5. CASE Restart \/ UNCHANGED vars
  BY <1>5, UntouchedKeeps DEF Restart, vars, memoryVars, childVars
<1>6. QED
  BY <1>1, <1>2, <1>3, <1>4, <1>5 DEF Next

LEMMA ExactlyOnceStep ==
  ASSUME Typed, Typed', ExactlyOnce, [Next]_vars
  PROVE  ExactlyOnce'
<1> SUFFICES ASSUME NEW k \in Job
             PROVE  taken'[k] = IF unsaved'[k] THEN After(applied'[k]) ELSE applied'[k]
  BY DEF ExactlyOnce, After
<1>2. AccountKept(k)
  BY StepKeeps
<1>3. unsaved[k] \in BOOLEAN /\ unsaved'[k] \in BOOLEAN
  BY DEF Typed, WorkerTypes
<1>4. QED
  BY <1>2, <1>3 DEF ExactlyOnce, AccountKept, Accounts

-----------------------------------------------------------------------------
(* The status is only read ahead for a child that succeeded, and stays so    *)
(* until the loop has finished it.                                           *)

LEMMA LastInHandStep ==
  ASSUME Typed, LastInHand, [Next]_vars
  PROVE  LastInHand'
<1> DEFINE j == at.job
<1>1. CASE at' = Idle
  BY <1>1 DEF LastInHand, Idle, Stage
<1>2. ASSUME NEW k \in Job, ReadStatus(k)
      PROVE  LastInHand'
  BY <1>2 DEF ReadStatus, GoSeeing, Stage, LastInHand, Message, childVars
<1>3. CASE at'.step # "finish"
  BY <1>3 DEF LastInHand
<1>4. CASE at' = at /\ UNCHANGED <<taken, sent, last>>
  BY <1>4 DEF LastInHand, Message
<1>5. ASSUME NEW k \in Job, Service(k)
      PROVE  LastInHand'
  <2>1. CASE StartChild(k) \/ StartFails(k) \/ StartFailsLate(k) \/ PersistFenced(k)
             \/ PersistLast(k) \/ PersistIllegal(k) \/ Enforce(k) \/ Exit(k)
    BY <2>1, <1>1 DEF StartChild, StartFails, StartFailsLate, PersistFenced, PersistLast,
       PersistIllegal, Enforce, Exit, GiveUp, Crashes, Ends, RemoveChild, Rest, CutShort
  <2>2. CASE BeginPass(k) \/ Renew(k) \/ PollAfterRenewal(k)
    BY <2>2, <1>1, <1>3 DEF BeginPass, Renew, PollAfterRenewal, Poll, RemoveChild, Rest,
       Go, GoSeeing, GoDraining, Stage
  <2>3. CASE ReadControls(k) \/ Consume(k) \/ StopDraining(k) \/ PersistEvent(k)
    <3>1. CASE ReadControls(k)
      BY <3>1, <1>3 DEF ReadControls, GoDraining, Stage
    <3>2. CASE Consume(k)
      BY <3>2, <1>3 DEF Consume, GoDraining, Stage
    <3>3. CASE StopDraining(k)
      BY <3>3, <1>3, <1>1 DEF StopDraining, Go, Rest, Stage
    <3>4. CASE PersistEvent(k)
      BY <3>4, <1>3, <1>1 DEF PersistEvent, GoDraining, CutShort, Rest, Stage
    <3>5. QED
      BY <2>3, <3>1, <3>2, <3>3, <3>4
  <2>4. CASE Take(k)
    <3>1. at'.step = "persist"
      BY <2>4 DEF Take, Typed, WorkerTypes, AtType
    <3>2. QED
      BY <3>1, <1>3
  <2>5. QED
    BY <1>2, <1>5, <2>1, <2>2, <2>3, <2>4 DEF Service
<1>6. ASSUME NEW k \in Job, Child(k)
      PROVE  LastInHand'
  <2>1. at' = at /\ taken' = taken
    BY <1>6 DEF Child, Emit, Conclude, ChildEnds
  <2>2. CASE ChildEnds(k)
    BY <2>2, <1>4 DEF ChildEnds
  <2>3. CASE last[k] = "none" /\ \A i \in Job \ {k} : sent'[i] = sent[i] /\ last'[i] = last[i]
    <3>1. SUFFICES ASSUME at.step = "finish"
                   PROVE  j \in Job /\ Message(j)' = "succeeded"
      BY <2>1 DEF LastInHand
    <3>2. j \in Job /\ Message(j) = "succeeded"
      BY <3>1 DEF LastInHand
    <3>3. j # k
      BY <2>3, <3>2 DEF Message
    <3>4. QED
      BY <2>1, <2>3, <3>2, <3>3 DEF Message
  <2>4. QED
    BY <1>6, <2>2, <2>3 DEF Child, Emit, Conclude, Typed, ChildTypes
<1>7. QED
  <2>1. CASE \E r \in Run : Submit(r) \/ Cancel(r) \/ SteerRun(r) \/ Answer(r)
    BY <2>1, <1>4 DEF Submit, Cancel, SteerRun, Answer, childVars
  <2>2. CASE \E r \in Run : Claim(r)
    BY <2>2, <1>3 DEF Claim, Go, Stage
  <2>3. CASE \E k \in Job : Busy(k) \/ PatienceEnds(k) \/ ExitGraceEnds(k)
                           \/ LeaseExpires(k) \/ Reap(k)
    BY <2>3, <1>1, <1>4 DEF Busy, CutShort, Rest, PatienceEnds, ExitGraceEnds, LeaseExpires,
       Reap, childVars
  <2>4. CASE Stop
    BY <2>4, <1>1 DEF Stop, Ends, Rest
  <2>5. CASE Restart \/ UNCHANGED vars
    BY <2>5, <1>4 DEF Restart, vars, childVars
  <2>6. QED
    BY <1>5, <1>6, <2>1, <2>2, <2>3, <2>4, <2>5 DEF Next

-----------------------------------------------------------------------------
(* Slots. *)

\* SlotsHoldProcesses, and a slot is free while a child is being started.
Slots ==
  /\ IsFiniteSet(active) /\ Cardinality(active) <= MaxChildren
  /\ at.step = "start" => Cardinality(active) < MaxChildren
  /\ \A j \in Job : proc[j] = "running" => j \in active

\* The children of a step that adds none.
NoneAdded ==
  /\ active' \subseteq active
  /\ \A j \in Job : proc'[j] = "running" => proc[j] = "running" /\ (j \in active => j \in active')

\* The loop does not go on to start a child.
NoStart == at' = at \/ at'.step # "start"

LEMMA FewerChildren ==
  ASSUME Slots, NoneAdded, NoStart \/ Cardinality(active) < MaxChildren
  PROVE  Slots'
<1>1. IsFiniteSet(active') /\ Cardinality(active') <= Cardinality(active)
  BY FS_Subset DEF Slots, NoneAdded
<1>2. Cardinality(active) \in Nat /\ Cardinality(active') \in Nat
  BY <1>1, FS_CardinalityType DEF Slots
<1>3. \A j \in Job : proc'[j] = "running" => j \in active'
  BY DEF Slots, NoneAdded
<1>4. at'.step = "start" => Cardinality(active') < MaxChildren
  BY <1>1, <1>2, SlotAssumption DEF Slots, NoStart
<1>5. QED
  BY <1>1, <1>2, <1>3, <1>4, SlotAssumption DEF Slots

LEMMA SameChildren ==
  ASSUME UNCHANGED <<active, proc>>
  PROVE  NoneAdded
BY DEF NoneAdded

LEMMA RemovedChild ==
  ASSUME Typed, NEW j \in Job, RemoveChild(j)
  PROVE  NoneAdded /\ NoStart
BY DEF RemoveChild, Forget, Rest, Idle, Stage, NoneAdded, NoStart, Typed, ChildTypes

LEMMA EndedWorker ==
  ASSUME Typed, Ends
  PROVE  NoneAdded /\ NoStart
BY DEF Ends, Forget, Rest, Idle, Stage, NoneAdded, NoStart, Typed, ChildTypes

LEMMA ServiceSlots ==
  ASSUME Typed, Slots, NEW j \in Job, Service(j)
  PROVE  Slots'
<1>1. CASE StartChild(j)
  <2>1. active' = active \cup {j} /\ Cardinality(active) < MaxChildren
    BY <1>1 DEF StartChild, At, Slots
  <2>2. /\ IsFiniteSet(active')
        /\ Cardinality(active') <= Cardinality(active) + 1
    <3>1. IsFiniteSet(active) /\ Cardinality(active) \in Nat
      BY FS_CardinalityType DEF Slots
    <3>2. /\ IsFiniteSet(active \cup {j})
          /\ \/ Cardinality(active \cup {j}) = Cardinality(active)
             \/ Cardinality(active \cup {j}) = Cardinality(active) + 1
      BY <3>1, FS_AddElement
    <3>3. QED
      BY <2>1, <3>1, <3>2
  <2>3. Cardinality(active) \in Nat /\ Cardinality(active') \in Nat
    BY <2>2, FS_CardinalityType DEF Slots
  <2>4. \A i \in Job : proc'[i] = "running" => i \in active'
    BY <1>1, <2>1 DEF StartChild, Slots, Typed, ChildTypes
  <2>5. at'.step # "start"
    BY <1>1 DEF StartChild, Rest, Idle, Stage
  <2>6. QED
    BY <2>1, <2>2, <2>3, <2>4, <2>5, SlotAssumption DEF Slots
<1>2. CASE StartFails(j)
  BY <1>2, FewerChildren, SameChildren
     DEF StartFails, Rest, Idle, Stage, NoStart, memoryVars, childVars
<1>3. CASE StartFailsLate(j) \/ PersistIllegal(j)
  BY <1>3, EndedWorker, FewerChildren DEF StartFailsLate, PersistIllegal, Crashes
<1>4. CASE BeginPass(j) \/ PollAfterRenewal(j) \/ Renew(j)
  <2>1. CASE RemoveChild(j)
    BY <2>1, RemovedChild, FewerChildren
  <2>2. CASE Poll(j)
    BY <2>2, SameChildren, FewerChildren DEF Poll, Go, GoDraining, Stage, NoStart, childVars
  <2>3. CASE Renew(j)
    BY <2>3, SameChildren, FewerChildren DEF Renew, Go, Stage, NoStart, childVars
  <2>4. CASE GoSeeing(j, "renew", lease[j]) /\ UNCHANGED <<memoryVars, childVars>>
    BY <2>4, SameChildren, FewerChildren DEF GoSeeing, Stage, NoStart, memoryVars, childVars
  <2>5. QED
    BY <1>4, <2>1, <2>2, <2>3, <2>4 DEF BeginPass, PollAfterRenewal
<1>5. CASE ReadControls(j)
  BY <1>5, SameChildren, FewerChildren DEF ReadControls, GoDraining, Stage, NoStart
<1>6. CASE Consume(j)
  BY <1>6, SameChildren, FewerChildren DEF Consume, GoDraining, Stage, NoStart
<1>7. CASE Take(j)
  <2>1. at'.step = "persist"
    BY <1>7 DEF Take, Typed, WorkerTypes, AtType
  <2>2. QED
    BY <1>7, <2>1, SameChildren, FewerChildren DEF Take, NoStart
<1>8. CASE StopDraining(j)
  <2>1. NoStart
    BY <1>8 DEF StopDraining, Go, Rest, Idle, Stage, NoStart
  <2>2. active' = active /\ (proc' = proc \/ Terminate(j))
    BY <1>8 DEF StopDraining
  <2>3. NoneAdded
    BY <2>2 DEF Terminate, NoneAdded, Typed, ChildTypes
  <2>4. QED
    BY <2>1, <2>3, FewerChildren
<1>9. CASE PersistEvent(j)
  BY <1>9, SameChildren, FewerChildren
     DEF PersistEvent, GoDraining, CutShort, Rest, Idle, Stage, NoStart
<1>10. CASE ReadStatus(j)
  BY <1>10, SameChildren, FewerChildren
     DEF ReadStatus, GoSeeing, Stage, NoStart, memoryVars, childVars
<1>11. CASE PersistLast(j)
  <2>1. CASE RemoveChild(j)
    BY <2>1, RemovedChild, FewerChildren
  <2>2. CASE CutShort /\ UNCHANGED <<active, proc>>
    BY <2>2, SameChildren, FewerChildren DEF CutShort, Rest, Idle, Stage, NoStart
  <2>3. QED
    BY <1>11, <2>1, <2>2 DEF PersistLast
<1>12. CASE PersistFenced(j) \/ Enforce(j)
  BY <1>12, RemovedChild, FewerChildren DEF PersistFenced, Enforce
<1>13. CASE Exit(j)
  BY <1>13, SameChildren, RemovedChild, FewerChildren
     DEF Exit, GiveUp, Rest, Idle, Stage, NoStart, childVars
<1>14. QED
  BY <1>1, <1>2, <1>3, <1>4, <1>5, <1>6, <1>7, <1>8, <1>9, <1>10, <1>11, <1>12, <1>13
     DEF Service

LEMMA SlotsStep ==
  ASSUME Typed, Slots, [Next]_vars
  PROVE  Slots'
<1>1. CASE \E r \in Run : Claim(r)
  BY <1>1, SameChildren, FewerChildren DEF Claim, memoryVars, childVars
<1>2. CASE \E r \in Run : Submit(r) \/ Cancel(r) \/ SteerRun(r) \/ Answer(r)
  BY <1>2, SameChildren, FewerChildren
     DEF Submit, Cancel, SteerRun, Answer, NoStart, memoryVars, childVars
<1>3. ASSUME NEW j \in Job, Service(j)
      PROVE  Slots'
  BY <1>3, ServiceSlots
<1>4. ASSUME NEW j \in Job, Child(j)
      PROVE  Slots'
  <2>1. NoneAdded /\ NoStart
    BY <1>4 DEF Child, Emit, Conclude, ChildEnds, NoneAdded, NoStart, memoryVars, Typed, ChildTypes
  <2>2. QED
    BY <2>1, FewerChildren
<1>5. ASSUME NEW j \in Job, Busy(j)
      PROVE  Slots'
  BY <1>5, SameChildren, FewerChildren
     DEF Busy, CutShort, Rest, Idle, Stage, NoStart, memoryVars, childVars
<1>6. ASSUME NEW j \in Job,
             PatienceEnds(j) \/ ExitGraceEnds(j) \/ LeaseExpires(j) \/ Reap(j)
      PROVE  Slots'
  BY <1>6, SameChildren, FewerChildren
     DEF PatienceEnds, ExitGraceEnds, LeaseExpires, Reap, NoStart, memoryVars, childVars
<1>7. CASE Stop
  BY <1>7, EndedWorker, FewerChildren DEF Stop
<1>8. CASE Restart \/ UNCHANGED vars
  BY <1>8, SameChildren, FewerChildren DEF Restart, vars, NoStart, memoryVars, childVars
<1>9. QED
  BY <1>1, <1>2, <1>3, <1>4, <1>5, <1>6, <1>7, <1>8 DEF Next

-----------------------------------------------------------------------------
(* Who owns a Run, and who asked for its end.                               *)

\* A Run has an owner while it runs or is being cancelled.
OwnerOK == \A r \in Run : current[r] # 0 <=> status[r] \in {"running", "cancelling"}

\* A lease that is not released is that of the owner.
LeaseOK == \A j \in Job : lease[j] \in {"held", "expired"} => current[RunOf(j)] = j[2]

\* Only the child of a Run somebody wants to end is waited for, or terminated.
PatienceOK ==
  /\ \A j \in Job : patience[j] # "unset" => RunOf(j) \in requested
  /\ \A j \in Job : at.job = j /\ at.step = "enforce" => RunOf(j) \in requested

Owned == OwnerOK /\ LeaseOK /\ CancelDecides /\ PatienceOK

\* What a step can do to a Run.
Quiet == UNCHANGED <<status, current, claims, requested>>

Born(r) ==
  /\ status[r] = Absent
  /\ status' = [status EXCEPT ![r] = "queued"]
  /\ UNCHANGED <<current, claims, requested>>

Taken(r) ==
  /\ status[r] = "queued" /\ current[r] = 0
  /\ status' = [status EXCEPT ![r] = "running"]
  /\ current' = [current EXCEPT ![r] = claims[r] + 1]
  /\ claims' = [claims EXCEPT ![r] = claims[r] + 1]
  /\ claims[r] + 1 \in Attempt
  /\ requested' = requested

Asked(r) ==
  /\ status[r] \in {"queued", "running", "waiting_input"}
  /\ status' = [status EXCEPT ![r] = IF @ = "running" THEN "cancelling" ELSE "cancelled"]
  /\ requested' = requested \cup {r}
  /\ UNCHANGED <<current, claims>>

Answered(r) ==
  /\ status[r] = "waiting_input"
  /\ status' = [status EXCEPT ![r] = "queued"]
  /\ UNCHANGED <<current, claims, requested>>

Ended(r, s) ==
  /\ status[r] \in {"running", "cancelling"}
  /\ s \in ALLOWED_TRANSITIONS[status[r]]
  /\ s \in {"waiting_input", "queued", "succeeded", "failed", "cancelled"}
  /\ status' = [status EXCEPT ![r] = s]
  /\ current' = [current EXCEPT ![r] = 0]
  /\ UNCHANGED <<claims, requested>>

EndedSomehow(r) == \E s \in Status : Ended(r, s)

Kinds ==
  \/ Quiet
  \/ \E r \in Run : Born(r) \/ Taken(r) \/ Asked(r) \/ Answered(r) \/ EndedSomehow(r)

LEMMA AllowedWhileOwned ==
  /\ ALLOWED_TRANSITIONS["running"] =
       {"waiting_input", "waiting_children", "cancelling", "queued", "succeeded", "failed"}
  /\ ALLOWED_TRANSITIONS["cancelling"] = {"cancelled"}
BY DEF ALLOWED_TRANSITIONS

\* An attempt that owns its Run can be closed, towards an allowed status.
LEMMA CloseEnds ==
  ASSUME Typed, Owned, NEW j \in Job, NEW s \in Status, NEW how,
         current[RunOf(j)] = j[2], Close(j, s, how),
         s \in ALLOWED_TRANSITIONS[status[RunOf(j)]],
         s \in {"waiting_input", "queued", "succeeded", "failed", "cancelled"},
         UNCHANGED <<claims, requested>>
  PROVE  EndedSomehow(RunOf(j)) /\ RunOf(j) \in Run /\ LeaseOK'
<1>1. RunOf(j) \in Run /\ j[2] # 0 /\ j = <<RunOf(j), j[2]>>
  BY Jobs
<1>2. status[RunOf(j)] \in {"running", "cancelling"}
  BY <1>1 DEF Owned, OwnerOK
<1>3. Ended(RunOf(j), s)
  BY <1>2 DEF Ended, Close
<1>4. ASSUME NEW k \in Job, lease'[k] \in {"held", "expired"}
      PROVE  current'[RunOf(k)] = k[2]
  <2>1. RunOf(k) \in Run /\ k = <<RunOf(k), k[2]>>
    BY Jobs
  <2>2. k # j /\ lease'[k] = lease[k]
    BY <1>4 DEF Close, Typed, DatabaseTypes
  <2>3. current[RunOf(k)] = k[2]
    BY <1>4, <2>2 DEF Owned, LeaseOK
  <2>4. RunOf(k) # RunOf(j)
    BY <1>1, <2>1, <2>2, <2>3
  <2>5. QED
    BY <2>1, <2>3, <2>4 DEF Close, Typed, DatabaseTypes
<1>5. QED
  BY <1>1, <1>3, <1>4 DEF EndedSomehow, LeaseOK

\* A failure leads to an allowed status.
LEMMA FailureEnds ==
  ASSUME Typed, Owned, NEW j \in Job, NEW how, current[RunOf(j)] = j[2],
         Close(j, AfterFailure(RunOf(j)), how), UNCHANGED <<claims, requested>>
  PROVE  EndedSomehow(RunOf(j)) /\ RunOf(j) \in Run /\ LeaseOK'
<1>1. RunOf(j) \in Run /\ j[2] # 0
  BY Jobs
<1>2. status[RunOf(j)] \in {"running", "cancelling"}
  BY <1>1 DEF Owned, OwnerOK
<1>3. /\ AfterFailure(RunOf(j)) \in ALLOWED_TRANSITIONS[status[RunOf(j)]]
      /\ AfterFailure(RunOf(j)) \in {"queued", "failed", "cancelled"}
  BY <1>1, <1>2, AfterFailureCases, AllowedWhileOwned
<1>4. QED
  BY <1>3, CloseEnds, OutcomeTypes, <1>1

\* So does the last message of a child, if it is legal.
LEMMA LastEnds ==
  ASSUME Typed, LastInHand, Owned, NEW j \in Job, PersistLast(j)
  PROVE  EndedSomehow(RunOf(j)) /\ RunOf(j) \in Run /\ LeaseOK'
<1>1. Message(j) \in Kind
  BY DEF PersistLast, Closing, LastInHand, At, Kind
<1>2. current[RunOf(j)] = j[2] /\ UNCHANGED <<claims, requested>>
  BY DEF PersistLast, Holds
<1>3. CASE Message(j) = "failed"
  BY <1>2, <1>3, FailureEnds DEF PersistLast, CloseBy
<1>4. CASE Message(j) # "failed"
  <2> DEFINE s == Outcome(Message(j), Known(j))
  <2>1. s \in ALLOWED_TRANSITIONS[status[RunOf(j)]]
    BY <1>4 DEF PersistLast, Legal
  <2>2. s \in {"waiting_input", "succeeded", "cancelled"} /\ s \in Status
    BY <1>1, <1>4 DEF Outcome, Kind, Status
  <2>3. \E how : Close(j, s, how)
    BY <1>1, <1>4 DEF PersistLast, CloseBy, Kind, Outcome
  <2>4. QED
    BY <1>2, <2>1, <2>2, <2>3, CloseEnds
<1>5. QED
  BY <1>3, <1>4

\* A child told to stop long ago is one whose Run is being cancelled.
LEMMA EnforceEnds ==
  ASSUME Typed, Owned, NEW j \in Job, Enforce(j), Holds(j)
  PROVE  EndedSomehow(RunOf(j)) /\ RunOf(j) \in Run /\ LeaseOK'
<1>1. RunOf(j) \in Run /\ j[2] # 0
  BY Jobs
<1>2. status[RunOf(j)] = "cancelling"
  BY <1>1 DEF Enforce, At, Holds, Owned, OwnerOK, CancelDecides, PatienceOK
<1>3. QED
  BY <1>1, <1>2, CloseEnds, AllowedWhileOwned DEF Enforce, Holds, Status

\* Nothing happens to the leases.
LEMMA LeasesStay ==
  ASSUME Owned, UNCHANGED <<current, lease>>
  PROVE  LeaseOK'
BY DEF Owned, LeaseOK

LEMMA ServiceKinds ==
  ASSUME Typed, LastInHand, Owned, NEW j \in Job, Service(j)
  PROVE  Kinds /\ LeaseOK'
<1>1. CASE \/ StartChild(j) \/ StartFailsLate(j) \/ BeginPass(j) \/ PollAfterRenewal(j)
           \/ ReadControls(j) \/ Consume(j) \/ Take(j) \/ StopDraining(j)
           \/ PersistEvent(j) \/ ReadStatus(j) \/ PersistFenced(j) \/ PersistIllegal(j)
  <2>1. UNCHANGED <<status, current, claims, requested, lease>>
    BY <1>1 DEF StartChild, StartFailsLate, BeginPass, PollAfterRenewal, Poll, ReadControls,
       Consume, Take, StopDraining, PersistEvent, ReadStatus, PersistFenced,
       PersistIllegal, Crashes, Ends, dbVars
  <2>2. QED
    BY <2>1, LeasesStay DEF Kinds, Quiet
<1>2. CASE StartFails(j)
  BY <1>2, FailureEnds DEF StartFails, Holds, Kinds
<1>3. CASE Renew(j)
  <2>1. Quiet
    BY <1>3 DEF Renew, Quiet
  <2>2. \/ lease' = lease
        \/ lease' = [lease EXCEPT ![j] = "held"] /\ current[RunOf(j)] = j[2]
    BY <1>3 DEF Renew, Extendable
  <2>3. LeaseOK'
    BY <2>1, <2>2 DEF Quiet, Owned, LeaseOK, Typed, DatabaseTypes
  <2>4. QED
    BY <2>1, <2>3 DEF Kinds
<1>4. CASE PersistLast(j)
  BY <1>4, LastEnds DEF Kinds
<1>5. CASE Enforce(j)
  BY <1>5, EnforceEnds, LeasesStay DEF Enforce, Kinds, Quiet
<1>6. CASE Exit(j)
  <2>1. CASE GiveUp(j) /\ Holds(j)
    BY <1>6, <2>1, FailureEnds DEF Exit, GiveUp, Holds, Kinds
  <2>2. CASE ~(GiveUp(j) /\ Holds(j))
    BY <1>6, <2>2, LeasesStay DEF Exit, GiveUp, Kinds, Quiet
  <2>3. QED
    BY <2>1, <2>2
<1>7. QED
  BY <1>1, <1>2, <1>3, <1>4, <1>5, <1>6 DEF Service

LEMMA ClaimKind ==
  ASSUME Typed, Owned, NEW r \in Run, Claim(r)
  PROVE  Taken(r) /\ LeaseOK'
<1> DEFINE n == claims[r] + 1
<1>1. n \in Attempt /\ <<r, n>> \in Job /\ RunOf(<<r, n>>) = r
  BY Jobs DEF Claim
<1>2. Taken(r)
  BY <1>1 DEF Claim, Taken
<1>3. ASSUME NEW k \in Job, lease'[k] \in {"held", "expired"}
      PROVE  current'[RunOf(k)] = k[2]
  <2>1. RunOf(k) \in Run /\ k = <<RunOf(k), k[2]>> /\ k[2] # 0
    BY Jobs
  <2>2. CASE k = <<r, n>>
    BY <1>1, <2>1, <2>2, <1>2 DEF Taken, Typed, DatabaseTypes
  <2>3. CASE k # <<r, n>>
    <3>1. lease'[k] = lease[k]
      BY <2>3 DEF Claim, Typed, DatabaseTypes
    <3>2. current[RunOf(k)] = k[2]
      BY <1>3, <3>1 DEF Owned, LeaseOK
    <3>3. RunOf(k) # r
      BY <1>2, <2>1, <3>2 DEF Taken
    <3>4. QED
      BY <1>2, <2>1, <3>2, <3>3 DEF Taken, Typed, DatabaseTypes
  <2>4. QED
    BY <2>2, <2>3
<1>4. QED
  BY <1>2, <1>3 DEF LeaseOK

LEMMA ReapKind ==
  ASSUME Typed, Owned, NEW j \in Job, Reap(j)
  PROVE  EndedSomehow(RunOf(j)) /\ RunOf(j) \in Run /\ LeaseOK'
<1>1. current[RunOf(j)] = j[2] /\ UNCHANGED <<claims, requested>>
  BY DEF Reap, Owned, LeaseOK
<1>2. QED
  BY <1>1, FailureEnds DEF Reap

\* Every step does to the Runs what one of the kinds does.
LEMMA StepKinds ==
  ASSUME Typed, LastInHand, Owned, [Next]_vars
  PROVE  Kinds /\ LeaseOK'
<1>1. CASE \E r \in Run : Claim(r)
  BY <1>1, ClaimKind DEF Kinds
<1>2. CASE \E r \in Run : Submit(r) \/ Cancel(r) \/ SteerRun(r) \/ Answer(r)
  BY <1>2, LeasesStay
     DEF Submit, Cancel, SteerRun, Answer, Kinds, Quiet, Born, Asked, Answered
<1>3. ASSUME NEW j \in Job, Service(j)
      PROVE  Kinds /\ LeaseOK'
  BY <1>3, ServiceKinds
<1>4. ASSUME NEW j \in Job, Reap(j)
      PROVE  Kinds /\ LeaseOK'
  BY <1>4, ReapKind DEF Kinds
<1>5. ASSUME NEW j \in Job, LeaseExpires(j)
      PROVE  Kinds /\ LeaseOK'
  BY <1>5 DEF LeaseExpires, Kinds, Quiet, Owned, LeaseOK, Typed, DatabaseTypes
<1>6. ASSUME NEW j \in Job,
             Child(j) \/ Busy(j) \/ PatienceEnds(j) \/ ExitGraceEnds(j)
      PROVE  Kinds /\ LeaseOK'
  BY <1>6, LeasesStay DEF Child, Emit, Conclude, ChildEnds, Busy, PatienceEnds,
     ExitGraceEnds, dbVars, Kinds, Quiet
<1>7. CASE Stop \/ Restart \/ UNCHANGED vars
  BY <1>7, LeasesStay DEF Stop, Ends, Restart, vars, dbVars, Kinds, Quiet
<1>8. QED
  BY <1>1, <1>2, <1>3, <1>4, <1>5, <1>6, <1>7 DEF Next

LEMMA OwnersStep ==
  ASSUME Typed, Owned, Kinds
  PROVE  OwnerOK' /\ CancelDecides'
<1>1. CASE Quiet
  BY <1>1 DEF Quiet, Owned, OwnerOK, CancelDecides
<1>2. ASSUME NEW r \in Run, Born(r)
      PROVE  OwnerOK' /\ CancelDecides'
  BY <1>2 DEF Born, Owned, OwnerOK, CancelDecides, Typed, DatabaseTypes, Absent
<1>3. ASSUME NEW r \in Run, Taken(r)
      PROVE  OwnerOK' /\ CancelDecides'
  <2>1. claims[r] + 1 # 0
    BY <1>3, Jobs DEF Taken
  <2>2. QED
    BY <1>3, <2>1 DEF Taken, Owned, OwnerOK, CancelDecides, Typed, DatabaseTypes
<1>4. ASSUME NEW r \in Run, Asked(r)
      PROVE  OwnerOK' /\ CancelDecides'
  BY <1>4 DEF Asked, Owned, OwnerOK, CancelDecides, Typed, DatabaseTypes
<1>5. ASSUME NEW r \in Run, Answered(r)
      PROVE  OwnerOK' /\ CancelDecides'
  BY <1>5 DEF Answered, Owned, OwnerOK, CancelDecides, Typed, DatabaseTypes
<1>6. ASSUME NEW r \in Run, NEW s \in Status, Ended(r, s)
      PROVE  OwnerOK' /\ CancelDecides'
  <2>1. s = "cancelled" <=> status[r] = "cancelling"
    BY <1>6, AllowedWhileOwned DEF Ended
  <2>2. QED
    BY <1>6, <2>1 DEF Ended, Owned, OwnerOK, CancelDecides, Typed, DatabaseTypes
<1>7. QED
  BY <1>1, <1>2, <1>3, <1>4, <1>5, <1>6 DEF Kinds, EndedSomehow

\* Requests are not taken back.
LEMMA RequestsStay == Kinds => requested \subseteq requested'
BY DEF Kinds, Quiet, Born, Taken, Asked, Answered, EndedSomehow, Ended

LEMMA ForgetPatience ==
  ASSUME Typed, Owned, NEW J \in SUBSET Job, Forget(J), NEW k \in Job,
         patience'[k] # "unset"
  PROVE  RunOf(k) \in requested
BY DEF Forget, Owned, PatienceOK

\* Patience is only measured for a Run that is being cancelled.
LEMMA StepPatience ==
  ASSUME Typed, Owned, [Next]_vars, NEW k \in Job, patience'[k] # "unset"
  PROVE  RunOf(k) \in requested
<1>1. CASE patience' = patience
  BY <1>1 DEF Owned, PatienceOK
<1>2. ASSUME NEW j \in Job, RemoveChild(j)
      PROVE  RunOf(k) \in requested
  BY <1>2, ForgetPatience DEF RemoveChild
<1>3. CASE Ends
  <2>1. active \in SUBSET Job
    BY DEF Typed, WorkerTypes
  <2>2. QED
    BY <1>3, <2>1, ForgetPatience DEF Ends
<1>4. ASSUME NEW j \in Job, Poll(j)
      PROVE  RunOf(k) \in requested
  BY <1>4, Jobs DEF Poll, Owned, PatienceOK, CancelDecides, Typed, WorkerTypes
<1>5. ASSUME NEW j \in Job, PatienceEnds(j)
      PROVE  RunOf(k) \in requested
  BY <1>5 DEF PatienceEnds, Owned, PatienceOK, Typed, WorkerTypes
<1>6. CASE \E r \in Run : Submit(r) \/ Claim(r) \/ Cancel(r) \/ SteerRun(r) \/ Answer(r)
  BY <1>1, <1>6 DEF Submit, Claim, Cancel, SteerRun, Answer, memoryVars
<1>7. ASSUME NEW j \in Job, Service(j)
      PROVE  RunOf(k) \in requested
  <2>1. CASE \/ StartChild(j) \/ StartFails(j) \/ Renew(j) \/ ReadControls(j)
             \/ Consume(j) \/ Take(j) \/ StopDraining(j) \/ PersistEvent(j)
             \/ ReadStatus(j)
    BY <1>1, <2>1 DEF StartChild, StartFails, Renew, ReadControls, Consume, Take,
       StopDraining, PersistEvent, ReadStatus, memoryVars
  <2>2. CASE StartFailsLate(j) \/ PersistIllegal(j)
    BY <1>3, <2>2 DEF StartFailsLate, PersistIllegal, Crashes
  <2>3. CASE BeginPass(j) \/ PollAfterRenewal(j)
    BY <1>1, <1>2, <1>4, <2>3 DEF BeginPass, PollAfterRenewal, memoryVars
  <2>4. CASE PersistFenced(j) \/ PersistLast(j) \/ Enforce(j) \/ Exit(j)
    BY <1>1, <1>2, <2>4 DEF PersistFenced, PersistLast, Enforce, Exit, GiveUp
  <2>5. QED
    BY <1>7, <2>1, <2>2, <2>3, <2>4 DEF Service
<1>8. ASSUME NEW j \in Job, Child(j) \/ Busy(j) \/ ExitGraceEnds(j)
                            \/ LeaseExpires(j) \/ Reap(j)
      PROVE  RunOf(k) \in requested
  BY <1>1, <1>8 DEF Child, Emit, Conclude, ChildEnds, Busy, ExitGraceEnds, LeaseExpires,
     Reap, memoryVars
<1>9. CASE Stop \/ Restart \/ UNCHANGED vars
  BY <1>1, <1>3, <1>9 DEF Stop, Restart, vars, memoryVars
<1>10. QED
  BY <1>5, <1>6, <1>7, <1>8, <1>9 DEF Next

\* The loop only enforces the cancel of a child whose patience is over.
LEMMA StepEnforce ==
  ASSUME Typed, Owned, [Next]_vars, NEW k \in Job,
         at'.job = k, at'.step = "enforce"
  PROVE  RunOf(k) \in requested
<1>1. CASE at' = at
  BY <1>1 DEF Owned, PatienceOK
<1>2. CASE at' = Idle
  BY <1>2 DEF Idle, Stage
<1>3. ASSUME NEW j \in Job, StopDraining(j)
      PROVE  RunOf(k) \in requested
  BY <1>3 DEF StopDraining, Go, Rest, Idle, Stage, Owned, PatienceOK
<1>4. ASSUME NEW j \in Job, Service(j)
      PROVE  RunOf(k) \in requested
  <2>1. CASE \/ StartChild(j) \/ StartFails(j) \/ StartFailsLate(j) \/ PersistFenced(j)
             \/ PersistLast(j) \/ PersistIllegal(j) \/ Enforce(j) \/ Exit(j)
    BY <2>1, <1>2 DEF StartChild, StartFails, StartFailsLate, PersistFenced, PersistLast,
       PersistIllegal, Enforce, Exit, GiveUp, Crashes, Ends, RemoveChild, Rest, CutShort
  <2>2. CASE BeginPass(j) \/ Renew(j) \/ PollAfterRenewal(j)
    <3>1. CASE Poll(j)
      BY <3>1 DEF Poll, Go, GoDraining, Stage
    <3>2. CASE Renew(j)
      BY <3>2 DEF Renew, Go, Stage
    <3>3. CASE RemoveChild(j) \/ GoSeeing(j, "renew", lease[j])
      BY <3>3, <1>2 DEF RemoveChild, Rest, GoSeeing, Stage
    <3>4. QED
      BY <2>2, <3>1, <3>2, <3>3 DEF BeginPass, PollAfterRenewal
  <2>3. CASE ReadControls(j) \/ Consume(j)
    <3>1. CASE ReadControls(j)
      BY <3>1 DEF ReadControls, GoDraining, Stage
    <3>2. CASE Consume(j)
      BY <3>2 DEF Consume, GoDraining, Stage
    <3>3. QED
      BY <2>3, <3>1, <3>2
  <2>4. CASE Take(j)
    BY <2>4 DEF Take, Typed, WorkerTypes, AtType
  <2>5. CASE PersistEvent(j) \/ ReadStatus(j)
    <3>1. CASE PersistEvent(j)
      BY <3>1, <1>2 DEF PersistEvent, GoDraining, CutShort, Rest, Stage
    <3>2. CASE ReadStatus(j)
      BY <3>2 DEF ReadStatus, GoSeeing, Stage
    <3>3. QED
      BY <2>5, <3>1, <3>2
  <2>6. QED
    BY <1>3, <1>4, <2>1, <2>2, <2>3, <2>4, <2>5 DEF Service
<1>5. CASE \E r \in Run : Claim(r)
  BY <1>5 DEF Claim, Go, Stage
<1>6. CASE \E r \in Run : Submit(r) \/ Cancel(r) \/ SteerRun(r) \/ Answer(r)
  BY <1>6, <1>1 DEF Submit, Cancel, SteerRun, Answer
<1>7. ASSUME NEW j \in Job, Child(j) \/ Busy(j) \/ PatienceEnds(j) \/ ExitGraceEnds(j)
                            \/ LeaseExpires(j) \/ Reap(j)
      PROVE  RunOf(k) \in requested
  BY <1>7, <1>1, <1>2 DEF Child, Emit, Conclude, ChildEnds, Busy, CutShort, Rest,
     PatienceEnds, ExitGraceEnds, LeaseExpires, Reap
<1>8. CASE Stop
  BY <1>8, <1>2 DEF Stop, Ends, Rest
<1>9. CASE Restart \/ UNCHANGED vars
  BY <1>9, <1>1 DEF Restart, vars
<1>10. QED
  BY <1>4, <1>5, <1>6, <1>7, <1>8, <1>9 DEF Next

LEMMA OwnedStep ==
  ASSUME Typed, LastInHand, Owned, [Next]_vars
  PROVE  Owned'
<1>1. Kinds /\ LeaseOK'
  BY StepKinds
<1>2. OwnerOK' /\ CancelDecides'
  BY <1>1, OwnersStep
<1>3. PatienceOK'
  BY <1>1, RequestsStay, StepPatience, StepEnforce DEF PatienceOK
<1>4. QED
  BY <1>1, <1>2, <1>3 DEF Owned

-----------------------------------------------------------------------------
(* The invariant, and what it gives. *)

IInv == Typed /\ LastInHand /\ ExactlyOnce /\ Slots /\ Owned

LEMMA Initially == Init => IInv
<1> SUFFICES ASSUME Init PROVE IInv
  OBVIOUS
<1>1. Typed
  BY TypedInit
<1>2. LastInHand
  BY DEF Init, LastInHand, Idle, Stage
<1>3. ExactlyOnce
  BY DEF Init, ExactlyOnce
<1>4. Slots
  BY FS_EmptySet, SlotAssumption DEF Init, Slots, Idle, Stage
<1>5. Owned
  BY Jobs DEF Init, Owned, OwnerOK, LeaseOK, CancelDecides, PatienceOK, Idle, Stage, Absent
<1>6. QED
  BY <1>1, <1>2, <1>3, <1>4, <1>5 DEF IInv

LEMMA Inductive == IInv /\ [Next]_vars => IInv'
<1> SUFFICES ASSUME IInv, [Next]_vars PROVE IInv'
  OBVIOUS
<1>1. Typed'
  BY TypedStep DEF IInv
<1>2. QED
  BY <1>1, LastInHandStep, ExactlyOnceStep, SlotsStep, OwnedStep DEF IInv

\* The invariant holds throughout; the theorems below are parts of it.
THEOREM Invariance == Spec => []IInv
BY Initially, Inductive, PTL DEF Spec

\* No message of a child is lost and none takes effect twice, whatever fails
\* after a commit, whichever process dies, and however large the queue is.
THEOREM MessagesOnce == Spec => []ExactlyOnce
BY Invariance, PTL DEF IInv

\* A Run ends as cancelled exactly if a cancel was accepted, even when the
\* worker read its status before the cancel.
THEOREM CancelCorrect == Spec => []CancelDecides
BY Invariance, PTL DEF IInv, Owned

\* The worker never has more children than slots, and knows all that run.
THEOREM SlotsCorrect == Spec => []SlotsHoldProcesses
<1>1. IInv => SlotsHoldProcesses
  BY DEF IInv, Slots, SlotsHoldProcesses
<1>2. QED
  BY <1>1, Invariance, PTL

-----------------------------------------------------------------------------
(* The worker implements RunProtocol: a step is one of its steps or none.   *)

LEMMA SameVocabulary ==
  /\ Protocol!Absent = Absent
  /\ Protocol!Status = Status
  /\ Protocol!ALLOWED_TRANSITIONS = ALLOWED_TRANSITIONS
BY DEF Protocol!Absent, Absent, Protocol!Status, Status,
       Protocol!ALLOWED_TRANSITIONS, ALLOWED_TRANSITIONS

\* The moves that leave the owner alone are among the allowed ones.
LEMMA MovesAllowed ==
  /\ "running" \in Protocol!Owned
  /\ "cancelling" \in Protocol!ALLOWED_TRANSITIONS["running"] \cap Protocol!Owned
  /\ {"queued", "waiting_input"} \subseteq Protocol!Unowned
  /\ "cancelled" \in Protocol!ALLOWED_TRANSITIONS["queued"] \cap Protocol!Unowned
  /\ "cancelled" \in Protocol!ALLOWED_TRANSITIONS["waiting_input"] \cap Protocol!Unowned
  /\ "queued" \in Protocol!ALLOWED_TRANSITIONS["waiting_input"] \cap Protocol!Unowned
BY DEF Protocol!Owned, Protocol!Unowned, Protocol!Status, Protocol!ALLOWED_TRANSITIONS

LEMMA StepRefines ==
  ASSUME IInv, [Next]_vars
  PROVE  [Protocol!Next]_<<status, current, claims>>
<1>1. Kinds
  BY StepKinds DEF IInv
<1>2. OwnerOK
  BY DEF IInv, Owned
<1>3. CASE Quiet
  BY <1>3 DEF Quiet
<1>4. ASSUME NEW r \in Run, Born(r)
      PROVE  Protocol!Next
  BY <1>4 DEF Born, Protocol!Next, Protocol!Create, Protocol!Absent, Absent
<1>5. ASSUME NEW r \in Run, Taken(r)
      PROVE  Protocol!Next
  BY <1>5 DEF Taken, Protocol!Next, Protocol!Start
<1>6. ASSUME NEW r \in Run, Asked(r)
      PROVE  Protocol!Next
  <2>1. CASE status[r] = "running"
    <3>1. Protocol!Advance(r)
      <4>1. current[r] # 0 /\ status' = [status EXCEPT ![r] = "cancelling"]
            /\ UNCHANGED <<current, claims>>
        BY <1>2, <1>6, <2>1 DEF Asked, OwnerOK
      <4>2. QED
        BY <2>1, <4>1, MovesAllowed DEF Protocol!Advance
    <3>2. QED
      BY <3>1 DEF Protocol!Next
  <2>2. CASE status[r] \in {"queued", "waiting_input"}
    <3>1. Protocol!Move(r)
      <4>1. current[r] = 0 /\ status' = [status EXCEPT ![r] = "cancelled"]
            /\ UNCHANGED <<current, claims>>
        BY <1>2, <1>6, <2>2 DEF Asked, OwnerOK
      <4>2. QED
        BY <2>2, <4>1, MovesAllowed DEF Protocol!Move
    <3>2. QED
      BY <3>1 DEF Protocol!Next
  <2>3. QED
    BY <1>6, <2>1, <2>2 DEF Asked
<1>7. ASSUME NEW r \in Run, Answered(r)
      PROVE  Protocol!Next
  <2>1. Protocol!Move(r)
    <3>1. current[r] = 0 /\ status[r] = "waiting_input"
          /\ status' = [status EXCEPT ![r] = "queued"] /\ UNCHANGED <<current, claims>>
      BY <1>2, <1>7 DEF Answered, OwnerOK
    <3>2. QED
      BY <3>1, MovesAllowed DEF Protocol!Move
  <2>2. QED
    BY <2>1 DEF Protocol!Next
<1>8. ASSUME NEW r \in Run, NEW s \in Status, Ended(r, s)
      PROVE  Protocol!Next
  <2>1. Protocol!Release(r)
    BY <1>2, <1>8, SameVocabulary
       DEF Ended, OwnerOK, Protocol!Release, Protocol!Owned, Protocol!Unowned, Status
  <2>2. QED
    BY <2>1 DEF Protocol!Next
<1>9. QED
  BY <1>1, <1>3, <1>4, <1>5, <1>6, <1>7, <1>8 DEF Kinds, EndedSomehow

\* Whatever the loop, its children and its disturbances do, a Run moves only
\* along the allowed transitions and has at most one owner, each with a
\* higher epoch than all before it.
THEOREM WorkerImplements == Spec => ImplementsProtocol
<1>1. Init => Protocol!Init
  BY DEF Init, Protocol!Init, Protocol!Absent, Absent
<1>2. IInv /\ [Next]_vars => [Protocol!Next]_(Protocol!vars)
  BY StepRefines DEF Protocol!vars
<1>3. QED
  BY <1>1, <1>2, Invariance, PTL DEF Spec, ImplementsProtocol, Protocol!Spec

-----------------------------------------------------------------------------
(* A child that has delivered its last message is not given up.  When the    *)
(* loop gets to the exit of a child that it found dead before, the queue has *)
(* been emptied since, hence the last message taken, hence stored, and then  *)
(* the loop would not have come back to this child.                          *)

\* The loop serves a child it has, which is not settled; one that it starts is
\* new to it.
Serving ==
  /\ at.step \notin {"idle", "start"} => at.job \in active /\ ~settled[at.job]
  /\ \A j \in active : j[2] <= claims[RunOf(j)]
  /\ at.step = "start" =>
       at.job \in Job \ active /\ at.job[2] <= claims[RunOf(at.job)]

\* The time since its exit runs for a child that is dead.
Buried == \A j \in Job : gone[j] # "unset" => j \in active /\ proc[j] # "running"

\* Nothing can be in the queue of a dead child that was drained.
Emptied ==
  at.step = "exit" /\ gone[at.job] # "unset" =>
    ~unsaved[at.job] /\ taken[at.job] = sent[at.job]

\* A last message that was taken and is not in hand has been stored.
LastStored ==
  \A j \in Job : last[j] # "none" /\ ~unsaved[j] /\ taken[j] = sent[j] => settled[j]

Patient == Serving /\ Buried /\ Emptied /\ LastStored

\* The loop is at its idle point, and has the children it had or fewer.
Retires ==
  /\ at' = Idle /\ active' \subseteq active /\ UNCHANGED claims

LEMMA RetiresServing ==
  ASSUME Typed, Serving, Retires
  PROVE  Serving'
BY DEF Serving, Retires, Idle, Stage

\* It goes on with the child it serves.
Stays ==
  /\ at'.job = at.job /\ at.step \notin {"idle", "start"}
  /\ at'.step \notin {"idle", "start"}
  /\ UNCHANGED <<active, claims>> /\ ~settled'[at.job]

LEMMA StaysServing ==
  ASSUME Typed, Serving, Stays
  PROVE  Serving'
BY DEF Serving, Stays

\* Nothing of that is touched.
LEMMA SameServing ==
  ASSUME Typed, Serving, UNCHANGED <<at, active, settled, claims>>
  PROVE  Serving'
BY DEF Serving

LEMMA PassServing ==
  ASSUME Typed, Serving, NEW j \in Job,
         BeginPass(j) \/ Renew(j) \/ PollAfterRenewal(j)
  PROVE  Serving'
<1>1. CASE RemoveChild(j) /\ UNCHANGED dbVars
  BY <1>1, RetiresServing DEF RemoveChild, Forget, Rest, Retires, dbVars
<1>2. CASE ~settled[j] /\ j \in active /\ (GoSeeing(j, "renew", lease[j]) \/ Poll(j))
           /\ UNCHANGED <<active, settled, claims>>
  <2>1. at'.job = j /\ at'.step \notin {"idle", "start"}
    BY <1>2 DEF GoSeeing, Poll, Go, GoDraining, Stage
  <2>2. QED
    BY <1>2, <2>1 DEF Serving
<1>3. CASE Renew(j) \/ PollAfterRenewal(j)
  BY <1>3, StaysServing, SameServing
     DEF Renew, PollAfterRenewal, Poll, Go, GoDraining, Stage, At, Stays, Serving, dbVars
<1>4. CASE BeginPass(j)
  BY <1>1, <1>2, <1>4 DEF BeginPass, Poll, dbVars, memoryVars
<1>5. QED
  BY <1>3, <1>4

LEMMA ServiceServing ==
  ASSUME Typed, Serving, NEW j \in Job, Service(j)
  PROVE  Serving'
<1>1. CASE StartChild(j)
  BY <1>1 DEF StartChild, At, Rest, Idle, Stage, Serving, dbVars, Typed, WorkerTypes
<1>2. CASE StartFails(j)
  BY <1>2, RetiresServing DEF StartFails, Rest, Retires, memoryVars
<1>3. CASE StartFailsLate(j) \/ PersistIllegal(j)
  BY <1>3, RetiresServing DEF StartFailsLate, PersistIllegal, Crashes, Ends, Forget,
     Rest, Retires, dbVars
<1>4. CASE BeginPass(j) \/ Renew(j) \/ PollAfterRenewal(j)
  BY <1>4, PassServing
<1>5. CASE ReadControls(j) \/ Consume(j) \/ ReadStatus(j)
  BY <1>5, StaysServing DEF ReadControls, Consume, ReadStatus, GoDraining, GoSeeing,
     Stage, At, Stays, Serving, dbVars, memoryVars
<1>6. CASE Take(j)
  BY <1>6, StaysServing DEF Take, At, Stays, Serving, dbVars, Typed, WorkerTypes, AtType
<1>7. CASE StopDraining(j)
  <2>1. UNCHANGED <<active, settled, claims>>
    BY <1>7 DEF StopDraining, dbVars
  <2>2. at' = Idle \/ (at'.job = j /\ at'.step \in {"enforce", "exit"})
    BY <1>7 DEF StopDraining, Go, Rest, Stage
  <2>3. at.job = j /\ at.step = "drain"
    BY <1>7 DEF StopDraining, At
  <2>4. QED
    BY <2>1, <2>2, <2>3, RetiresServing, StaysServing DEF Retires, Stays, Serving
<1>8. CASE PersistEvent(j)
  <2>1. UNCHANGED <<active, claims>> /\ ~settled'[j] /\ at.job = j /\ at.step = "persist"
    BY <1>8 DEF PersistEvent, Committed, At, dbVars, Typed, WorkerTypes
  <2>2. at' = Idle \/ (at'.job = j /\ at'.step = "drain")
    BY <1>8 DEF PersistEvent, GoDraining, CutShort, Rest, Stage
  <2>3. QED
    BY <2>1, <2>2, RetiresServing, StaysServing DEF Retires, Stays
<1>9. CASE PersistLast(j) \/ PersistFenced(j) \/ Enforce(j)
  BY <1>9, RetiresServing DEF PersistLast, PersistFenced, Enforce, RemoveChild, Forget,
     CutShort, Rest, Retires, dbVars
<1>10. CASE Exit(j)
  BY <1>10, RetiresServing DEF Exit, GiveUp, RemoveChild, Forget, Rest, Retires
<1>11. QED
  BY <1>1, <1>2, <1>3, <1>4, <1>5, <1>6, <1>7, <1>8, <1>9, <1>10 DEF Service

LEMMA ClaimServing ==
  ASSUME Typed, Serving, NEW r \in Run, Claim(r)
  PROVE  Serving'
<1> DEFINE n == claims[r] + 1
           j == <<r, n>>
<1>1. /\ claims[r] \in Nat /\ n \in Attempt /\ j \in Job /\ RunOf(j) = r
      /\ claims' = [claims EXCEPT ![r] = n] /\ claims \in [Run -> {0} \cup Attempt]
      /\ active' = active /\ at' = Stage(j, "start", "nothing", 0, {})
  BY Jobs DEF Claim, Go, Typed, DatabaseTypes, Attempt, memoryVars, Job, RunOf
<1>2. j \notin active
  BY <1>1 DEF Serving
<1>3. \A k \in active : k[2] <= claims'[RunOf(k)]
  <2>1. SUFFICES ASSUME NEW k \in active
                 PROVE  k[2] <= claims'[RunOf(k)]
    OBVIOUS
  <2>2. k \in Job /\ RunOf(k) \in Run /\ k[2] \in Nat /\ k[2] <= claims[RunOf(k)]
    BY Jobs DEF Typed, WorkerTypes, Serving
  <2>3. QED
    BY <1>1, <2>2
<1>4. at'.step = "start" /\ at'.job = j /\ j[2] = n
  BY <1>1 DEF Stage
<1>5. QED
  BY <1>1, <1>2, <1>3, <1>4 DEF Serving

LEMMA ServingStep ==
  ASSUME Typed, Serving, [Next]_vars
  PROVE  Serving'
<1>1. CASE \E r \in Run : Submit(r) \/ Cancel(r) \/ SteerRun(r) \/ Answer(r)
  BY <1>1, SameServing DEF Submit, Cancel, SteerRun, Answer, memoryVars
<1>2. CASE \E r \in Run : Claim(r)
  BY <1>2, ClaimServing
<1>3. CASE \E j \in Job : Service(j)
  BY <1>3, ServiceServing
<1>4. CASE \E j \in Job : Child(j) \/ PatienceEnds(j) \/ ExitGraceEnds(j)
                         \/ LeaseExpires(j) \/ Reap(j)
  BY <1>4, SameServing DEF Child, Emit, Conclude, ChildEnds, PatienceEnds, ExitGraceEnds,
     LeaseExpires, Reap, memoryVars, dbVars
<1>5. CASE (\E j \in Job : Busy(j)) \/ Stop
  BY <1>5, RetiresServing DEF Busy, CutShort, Stop, Ends, Forget, Rest, Retires,
     memoryVars, dbVars
<1>6. CASE Restart \/ UNCHANGED vars
  BY <1>6, SameServing DEF Restart, vars, memoryVars, dbVars
<1>7. QED
  BY <1>1, <1>2, <1>3, <1>4, <1>5, <1>6 DEF Next

\* What a step does to the grave of a child: the timer is reset, starts for a
\* dead child of the worker, or goes on.
GraveKept(k) ==
  \/ gone'[k] = "unset"
  \/ /\ gone[k] # "unset" /\ (k \in active => k \in active')
     /\ proc'[k] = "running" => proc[k] = "running"
  \/ k \in active /\ k \in active' /\ proc[k] # "running" /\ proc'[k] = proc[k]

LEMMA ForgetGraves ==
  ASSUME Typed, Buried, NEW J \in SUBSET Job, Forget(J),
         \A k \in Job \ J : proc'[k] = proc[k],
         NEW k \in Job
  PROVE  GraveKept(k)
BY DEF Forget, GraveKept, Typed, WorkerTypes

LEMMA RemoveGraves ==
  ASSUME Typed, Buried, NEW j \in Job, RemoveChild(j), NEW k \in Job
  PROVE  GraveKept(k)
<1>1. \A i \in Job \ {j} : proc'[i] = proc[i]
  BY DEF RemoveChild, Typed, ChildTypes
<1>2. QED
  BY <1>1, ForgetGraves DEF RemoveChild

LEMMA EndsGraves ==
  ASSUME Typed, Buried, Ends, NEW k \in Job
  PROVE  GraveKept(k)
<1>1. active \in SUBSET Job /\ \A i \in Job \ active : proc'[i] = proc[i]
  BY DEF Ends, Typed, WorkerTypes
<1>2. QED
  BY <1>1, ForgetGraves DEF Ends

LEMMA SameGraves ==
  ASSUME gone' = gone, active' = active, NEW k \in Job,
         proc'[k] = proc[k] \/ proc'[k] = "ended"
  PROVE  GraveKept(k)
BY DEF GraveKept

LEMMA ServiceGraves ==
  ASSUME Typed, Serving, Buried, NEW j \in Job, Service(j), NEW k \in Job
  PROVE  GraveKept(k)
<1>1. CASE StartChild(j)
  <2>1. j \notin active /\ gone' = gone /\ active' = active \cup {j}
        /\ \A i \in Job \ {j} : proc'[i] = proc[i]
    BY <1>1 DEF StartChild, At, Serving, Typed, ChildTypes
  <2>2. gone[j] = "unset"
    BY <2>1 DEF Buried
  <2>3. QED
    BY <2>1, <2>2 DEF GraveKept, Typed, WorkerTypes
<1>2. CASE StartFailsLate(j) \/ PersistIllegal(j)
  BY <1>2, EndsGraves DEF StartFailsLate, PersistIllegal, Crashes
<1>3. CASE StartFails(j) \/ Renew(j) \/ PollAfterRenewal(j) \/ ReadControls(j)
           \/ Consume(j) \/ ReadStatus(j) \/ Take(j)
  BY <1>3, SameGraves DEF StartFails, Renew, PollAfterRenewal, Poll, ReadControls,
     Consume, ReadStatus, Take, memoryVars, childVars
<1>4. CASE BeginPass(j)
  BY <1>4, RemoveGraves, SameGraves DEF BeginPass, Poll, memoryVars, childVars
<1>5. CASE StopDraining(j)
  <2>1. active' = active /\ (gone' = gone \/ gone' = [gone EXCEPT ![j] = "unset"])
        /\ (proc' = proc \/ proc' = [proc EXCEPT ![j] = "ended"])
    BY <1>5 DEF StopDraining, Terminate
  <2>2. QED
    BY <2>1 DEF GraveKept, Typed, WorkerTypes, ChildTypes
<1>6. CASE PersistEvent(j)
  BY <1>6, SameGraves DEF PersistEvent
<1>7. CASE PersistLast(j) \/ PersistFenced(j) \/ Enforce(j)
  BY <1>7, RemoveGraves, SameGraves DEF PersistLast, PersistFenced, Enforce
<1>8. CASE Exit(j)
  <2>1. CASE GiveUp(j)
    BY <2>1, RemoveGraves DEF GiveUp
  <2>2. CASE ~GiveUp(j)
    <3>1. /\ j \in active /\ active' = active /\ proc' = proc
          /\ gone' = [gone EXCEPT ![j] =
               IF proc[j] # "running" /\ @ = "unset" THEN "running" ELSE @]
      BY <1>8, <2>2 DEF Exit, At, Serving, childVars
    <3>2. QED
      BY <3>1 DEF GraveKept, Typed, WorkerTypes
  <2>3. QED
    BY <2>1, <2>2
<1>9. QED
  BY <1>1, <1>2, <1>3, <1>4, <1>5, <1>6, <1>7, <1>8 DEF Service

LEMMA BuriedStep ==
  ASSUME Typed, Serving, Buried, [Next]_vars
  PROVE  Buried'
<1> SUFFICES ASSUME NEW k \in Job
             PROVE  gone'[k] # "unset" => k \in active' /\ proc'[k] # "running"
  BY DEF Buried
<1>1. GraveKept(k)
  <2>1. CASE \E r \in Run : Submit(r) \/ Claim(r) \/ Cancel(r) \/ SteerRun(r) \/ Answer(r)
    BY <2>1, SameGraves DEF Submit, Claim, Cancel, SteerRun, Answer, memoryVars, childVars
  <2>2. CASE \E j \in Job : Service(j)
    BY <2>2, ServiceGraves
  <2>3. CASE \E j \in Job : Child(j) \/ PatienceEnds(j) \/ LeaseExpires(j) \/ Reap(j) \/ Busy(j)
    BY <2>3, SameGraves DEF Child, Emit, Conclude, ChildEnds, PatienceEnds, LeaseExpires,
       Reap, Busy, memoryVars, childVars, Typed, ChildTypes
  <2>4. ASSUME NEW j \in Job, ExitGraceEnds(j)
        PROVE  GraveKept(k)
    BY <2>4 DEF ExitGraceEnds, GraveKept, childVars, Typed, WorkerTypes
  <2>5. CASE Stop
    BY <2>5, EndsGraves DEF Stop
  <2>6. CASE Restart \/ UNCHANGED vars
    BY <2>6, SameGraves DEF Restart, vars, memoryVars, childVars
  <2>7. QED
    BY <2>1, <2>2, <2>3, <2>4, <2>5, <2>6 DEF Next
<1>2. QED
  BY <1>1 DEF GraveKept, Buried

-----------------------------------------------------------------------------
(* The last message.                                                         *)

\* What a step does to the queue of a child.
Queue(j) == <<sent[j], taken[j], unsaved[j], last[j], settled[j]>>

\* A message is emitted or taken, or one that is not the last is stored, or the
\* last one and the child is settled, or the job is forgotten.
LastKept(k) ==
  \/ Queue(k)' = Queue(k)
  \/ taken'[k] # sent'[k]
  \/ unsaved'[k]
  \/ last'[k] = "none"
  \/ settled'[k]

LEMMA ForgetLast ==
  ASSUME Typed, NEW J \in SUBSET Job, Forget(J), NEW k \in Job
  PROVE  LastKept(k)
BY DEF Forget, LastKept, Queue, Typed, WorkerTypes, ChildTypes

LEMMA RemoveLast ==
  ASSUME Typed, NEW j \in Job, RemoveChild(j), NEW k \in Job
  PROVE  LastKept(k)
BY ForgetLast DEF RemoveChild

LEMMA EndsLast ==
  ASSUME Typed, Ends, NEW k \in Job
  PROVE  LastKept(k)
<1>1. active \in SUBSET Job
  BY DEF Typed, WorkerTypes
<1>2. QED
  BY <1>1, ForgetLast DEF Ends

LEMMA SameLast ==
  ASSUME UNCHANGED <<sent, taken, unsaved, last, settled>>, NEW k \in Job
  PROVE  LastKept(k)
BY DEF LastKept, Queue

LEMMA ServiceLast ==
  ASSUME Typed, NEW j \in Job, Service(j), NEW k \in Job
  PROVE  LastKept(k)
<1>1. CASE StartChild(j) \/ StartFails(j) \/ Renew(j) \/ PollAfterRenewal(j)
           \/ ReadControls(j) \/ Consume(j) \/ ReadStatus(j) \/ StopDraining(j)
  BY <1>1, SameLast DEF StartChild, StartFails, Renew, PollAfterRenewal, Poll,
     ReadControls, Consume, ReadStatus, StopDraining, memoryVars, childVars
<1>2. CASE StartFailsLate(j) \/ PersistIllegal(j)
  BY <1>2, EndsLast DEF StartFailsLate, PersistIllegal, Crashes
<1>3. CASE BeginPass(j)
  BY <1>3, RemoveLast, SameLast DEF BeginPass, Poll, memoryVars, childVars
<1>4. CASE Take(j)
  BY <1>4 DEF Take, LastKept, Queue, Typed, WorkerTypes, ChildTypes
<1>5. CASE PersistEvent(j)
  <2>1. last[j] = "none" \/ taken[j] # sent[j]
    BY <1>5 DEF PersistEvent, Message, Typed, ChildTypes, Kind
  <2>2. /\ UNCHANGED <<sent, taken, last>>
        /\ unsaved' = [unsaved EXCEPT ![j] = FALSE]
        /\ settled' = [settled EXCEPT ![j] = FALSE]
    BY <1>5 DEF PersistEvent, Committed
  <2>3. QED
    BY <2>1, <2>2 DEF LastKept, Queue, Typed, WorkerTypes
<1>6. CASE PersistLast(j)
  <2>1. CASE RemoveChild(j)
    BY <2>1, RemoveLast
  <2>2. CASE Committed(j, TRUE) /\ UNCHANGED <<sent, taken, last>>
    BY <2>2 DEF Committed, LastKept, Queue, Typed, WorkerTypes
  <2>3. QED
    BY <1>6, <2>1, <2>2 DEF PersistLast
<1>7. CASE PersistFenced(j) \/ Enforce(j)
  BY <1>7, RemoveLast DEF PersistFenced, Enforce
<1>8. CASE Exit(j)
  BY <1>8, RemoveLast, SameLast DEF Exit, GiveUp, childVars
<1>9. QED
  BY <1>1, <1>2, <1>3, <1>4, <1>5, <1>6, <1>7, <1>8 DEF Service

LEMMA LastStoredStep ==
  ASSUME Typed, LastStored, [Next]_vars
  PROVE  LastStored'
<1> SUFFICES ASSUME NEW k \in Job
             PROVE  last'[k] # "none" /\ ~unsaved'[k] /\ taken'[k] = sent'[k] => settled'[k]
  BY DEF LastStored
<1>1. LastKept(k)
  <2>1. CASE \E r \in Run : Submit(r) \/ Claim(r) \/ Cancel(r) \/ SteerRun(r) \/ Answer(r)
    BY <2>1, SameLast DEF Submit, Claim, Cancel, SteerRun, Answer, memoryVars, childVars
  <2>2. CASE \E j \in Job : Service(j)
    BY <2>2, ServiceLast
  <2>3. CASE \E j \in Job : ChildEnds(j) \/ PatienceEnds(j) \/ ExitGraceEnds(j)
                           \/ LeaseExpires(j) \/ Reap(j) \/ Busy(j)
    BY <2>3, SameLast DEF ChildEnds, PatienceEnds, ExitGraceEnds, LeaseExpires,
       Reap, Busy, memoryVars, childVars
  <2>4. ASSUME NEW j \in Job, Emit(j) \/ \E kind \in Kind : Conclude(j, kind)
        PROVE  LastKept(k)
    <3>1. After(sent[j]) # taken[j] /\ sent' = [sent EXCEPT ![j] = After(sent[j])]
          /\ taken' = taken /\ unsaved' = unsaved /\ settled' = settled
          /\ \A i \in Job \ {j} : last'[i] = last[i]
      BY <2>4 DEF Emit, Conclude, memoryVars, Typed, ChildTypes
    <3>2. QED
      BY <3>1 DEF LastKept, Queue, Typed, ChildTypes
  <2>5. CASE Stop
    BY <2>5, EndsLast DEF Stop
  <2>6. CASE Restart \/ UNCHANGED vars
    BY <2>6, SameLast DEF Restart, vars, memoryVars, childVars
  <2>7. QED
    BY <2>1, <2>2, <2>3, <2>4, <2>5, <2>6 DEF Next, Child
<1>2. QED
  BY <1>1 DEF LastKept, Queue, LastStored

-----------------------------------------------------------------------------
(* The exit.                                                                 *)

\* The loop gets to the exit of a child only with its queue empty.
LEMMA EmptiedStep ==
  ASSUME Typed, Serving, Buried, Emptied, [Next]_vars
  PROVE  Emptied'
<1>1. CASE at'.step # "exit"
  BY <1>1 DEF Emptied
<1>2. CASE at' = Idle
  BY <1>1, <1>2 DEF Idle, Stage
<1>3. CASE at' = at /\ UNCHANGED <<gone, unsaved, taken, sent>>
  BY <1>3 DEF Emptied
<1>4. ASSUME NEW j \in Job, Service(j)
      PROVE  Emptied'
  <2>1. CASE StartChild(j) \/ StartFails(j) \/ StartFailsLate(j) \/ PersistFenced(j)
             \/ PersistLast(j) \/ PersistIllegal(j) \/ Enforce(j) \/ Exit(j)
    BY <2>1, <1>2 DEF StartChild, StartFails, StartFailsLate, PersistFenced, PersistLast,
       PersistIllegal, Enforce, Exit, GiveUp, Crashes, Ends, RemoveChild, Rest, CutShort
  <2>2. CASE BeginPass(j) \/ Renew(j) \/ PollAfterRenewal(j)
    BY <2>2, <1>1, <1>2 DEF BeginPass, Renew, PollAfterRenewal, Poll, RemoveChild, Rest,
       Go, GoSeeing, GoDraining, Stage
  <2>3. CASE ReadControls(j) \/ Consume(j) \/ ReadStatus(j)
    BY <2>3, <1>1 DEF ReadControls, Consume, ReadStatus, GoDraining, GoSeeing, Stage
  <2>4. CASE PersistEvent(j)
    BY <2>4, <1>1, <1>2 DEF PersistEvent, GoDraining, CutShort, Rest, Stage
  <2>5. CASE Take(j)
    BY <2>5, <1>1 DEF Take, Typed, WorkerTypes, AtType
  <2>6. CASE StopDraining(j)
    <3>1. UNCHANGED <<unsaved, taken, sent>>
      BY <2>6 DEF StopDraining
    <3>2. CASE at'.step = "exit"
      <4>1. at'.job = j /\ ~unsaved[j] /\ taken[j] = sent[j]
        BY <2>6, <3>2 DEF StopDraining, Go, Rest, Idle, Stage
      <4>2. QED
        BY <3>1, <4>1 DEF Emptied
    <3>3. QED
      BY <1>1, <3>2
  <2>7. QED
    BY <1>4, <2>1, <2>2, <2>3, <2>4, <2>5, <2>6 DEF Service
<1>5. ASSUME NEW j \in Job, Emit(j) \/ \E kind \in Kind : Conclude(j, kind)
      PROVE  Emptied'
  <2>1. /\ at' = at /\ gone' = gone /\ unsaved' = unsaved /\ taken' = taken
        /\ \A i \in Job \ {j} : sent'[i] = sent[i]
        /\ proc[j] = "running"
    BY <1>5 DEF Emit, Conclude, memoryVars, Typed, ChildTypes
  <2>2. gone[j] = "unset"
    BY <2>1 DEF Buried
  <2>3. SUFFICES ASSUME at.step = "exit", gone[at.job] # "unset"
                 PROVE  ~unsaved[at.job] /\ taken[at.job] = sent'[at.job]
    BY <2>1 DEF Emptied
  <2>4. at.job \in Job
    BY <2>3 DEF Serving, Typed, WorkerTypes
  <2>5. QED
    BY <2>1, <2>2, <2>3, <2>4 DEF Emptied
<1>6. ASSUME NEW j \in Job, ExitGraceEnds(j)
      PROVE  Emptied'
  <2>1. SUFFICES ASSUME at.step = "exit", gone'[at.job] # "unset"
                 PROVE  ~unsaved[at.job] /\ taken[at.job] = sent[at.job]
    BY <1>6 DEF Emptied, ExitGraceEnds, childVars
  <2>2. gone[at.job] # "unset"
    BY <1>6, <2>1 DEF ExitGraceEnds, Typed, WorkerTypes
  <2>3. QED
    BY <2>1, <2>2 DEF Emptied
<1>7. CASE \E r \in Run : Submit(r) \/ Cancel(r) \/ SteerRun(r) \/ Answer(r)
  BY <1>7, <1>3 DEF Submit, Cancel, SteerRun, Answer, memoryVars, childVars
<1>8. CASE \E r \in Run : Claim(r)
  BY <1>8, <1>1 DEF Claim, Go, Stage
<1>9. CASE \E j \in Job : ChildEnds(j) \/ PatienceEnds(j) \/ LeaseExpires(j) \/ Reap(j)
                         \/ Busy(j)
  BY <1>9, <1>2, <1>3 DEF ChildEnds, PatienceEnds, LeaseExpires, Reap, Busy, CutShort, Rest,
     memoryVars, childVars
<1>10. CASE Stop
  BY <1>10, <1>2 DEF Stop, Ends, Rest
<1>11. CASE Restart \/ UNCHANGED vars
  BY <1>11, <1>3 DEF Restart, vars, memoryVars, childVars
<1>12. QED
  BY <1>4, <1>5, <1>6, <1>7, <1>8, <1>9, <1>10, <1>11 DEF Next, Child

LEMMA PatientInit == Init => Patient
BY DEF Init, Patient, Serving, Buried, Emptied, LastStored, Idle, Stage

LEMMA PatientStep == Typed /\ Patient /\ [Next]_vars => Patient'
BY ServingStep, BuriedStep, EmptiedStep, LastStoredStep DEF Patient

\* At an exit only the attempt of the child there is failed by the loop, and
\* for a child that is dead and has left nothing in its queue.
LEMMA GivesUpRightly ==
  ASSUME Typed, Patient, [Next]_vars, NEW k \in Job,
         at.step = "exit", attempt[k] = "running", attempt'[k] = "failed"
  PROVE  last[k] = "none"
<1>1. CASE \E j \in Job : Exit(j)
  <2>1. PICK j \in Job : Exit(j)
    BY <1>1
  <2>2. at.job = j /\ at.step = "exit"
    BY <2>1 DEF Exit, At
  <2>3. CASE proc[j] # "running" /\ gone[j] = "over"
    <3>1. j = k
      BY <2>1, <2>3 DEF Exit, GiveUp, Close, Typed, DatabaseTypes
    <3>2. ~settled[j] /\ ~unsaved[j] /\ taken[j] = sent[j]
      BY <2>2, <2>3 DEF Patient, Serving, Emptied
    <3>3. QED
      BY <3>1, <3>2 DEF Patient, LastStored
  <2>4. CASE ~(proc[j] # "running" /\ gone[j] = "over")
    BY <2>1, <2>4 DEF Exit
  <2>5. QED
    BY <2>3, <2>4
<1>2. ASSUME NEW j \in Job, Service(j), ~Exit(j)
      PROVE  FALSE
  BY <1>2 DEF Service, StartChild, StartFails, StartFailsLate, BeginPass, Renew,
     PollAfterRenewal, ReadControls, Consume, Take, StopDraining, PersistEvent, ReadStatus,
     PersistFenced, PersistLast, PersistIllegal, Closing, Enforce, At
<1>3. ASSUME NEW j \in Job, Reap(j)
      PROVE  FALSE
  BY <1>3 DEF Reap, Close, Typed, DatabaseTypes
<1>4. CASE attempt' = attempt
  BY <1>4
<1>5. CASE \E r \in Run : Submit(r) \/ Claim(r) \/ Cancel(r) \/ SteerRun(r) \/ Answer(r)
  BY <1>4, <1>5 DEF Submit, Claim, Cancel, SteerRun, Answer
<1>6. CASE \E j \in Job : Child(j) \/ Busy(j) \/ PatienceEnds(j) \/ ExitGraceEnds(j)
                         \/ LeaseExpires(j)
  BY <1>4, <1>6 DEF Child, Emit, Conclude, ChildEnds, Busy, PatienceEnds, ExitGraceEnds,
     LeaseExpires, dbVars
<1>7. CASE Stop \/ Restart \/ UNCHANGED vars
  BY <1>4, <1>7 DEF Stop, Ends, Restart, vars, dbVars
<1>8. QED
  BY <1>1, <1>2, <1>3, <1>5, <1>6, <1>7 DEF Next

\* A child that delivered its last message before it exited is never declared
\* dead, however its exit and its message meet the looks of the loop.
THEOREM ExitsCorrect == Spec => NoEarlyGiveUp
<1>1. Typed /\ Patient /\ [Next]_vars =>
        [\A j \in Job :
           at.step = "exit" /\ attempt[j] = "running" /\ attempt'[j] = "failed" =>
             last[j] = "none"]_vars
  BY GivesUpRightly
<1>2. Spec => []Typed
  BY Invariance, PTL DEF IInv
<1>3. QED
  BY <1>1, <1>2, PatientInit, PatientStep, PTL DEF Spec, NoEarlyGiveUp

-----------------------------------------------------------------------------
(* The commands of users.  A command that is handed over is larger than all  *)
(* the process has, because none of those is larger than one that waits in   *)
(* the inbox, and only the one that was not marked consumed is not smaller.  *)

Increasing(s) == \A i \in DOMAIN s : \A k \in 1..(i - 1) : s[k] < s[i]

CommandTypes ==
  /\ handing \in [Job -> {0} \cup Steer]
  /\ given \in [Job -> Seq(Steer)]

\* The commands of a Run are numbered as they are accepted.
Arrived == \A r \in Run : \A d \in inbox[r] : d <= steers[r]

\* What the process of a job has, against what waits in the inbox.
Handed(j) ==
  /\ Increasing(given[j])
  /\ \A i \in DOMAIN given[j] : given[j][i] <= steers[RunOf(j)]
  /\ \A i \in DOMAIN given[j] : \A d \in inbox[RunOf(j)] :
       given[j][i] <= d /\ (given[j][i] = d => handing[j] = d)
  /\ handing[j] # 0 => \E i \in DOMAIN given[j] : given[j][i] = handing[j]

\* What the loop has read of the inbox of a job and not consumed yet.
Read(j) ==
  /\ at.todo # {} /\ at.todo \subseteq inbox[RunOf(j)]
  /\ \A e \in at.todo : \A d \in inbox[RunOf(j)] \ at.todo : e < d
  /\ handing[j] = Oldest(at.todo)

Consuming == at.step = "consume" => at.job \in Job /\ Read(at.job)

Commanded == CommandTypes /\ Arrived /\ (\A j \in Job : Handed(j)) /\ Consuming

\* Commands are numbers from 1 on.
LEMMA SteerNumbers == Steer \subseteq Nat \ {0}
BY VendorAssumption, CountAssumption DEF Steer

\* A set of numbers that is not empty has a least element.
LEMMA Least ==
  ASSUME NEW T \in SUBSET Nat, T # {}
  PROVE  \E m \in T : \A n \in T : m <= n
<1> DEFINE Below(n) == 0..(n - 1)
           R == StrictSubsetOrdering(Nat)
           F == FiniteSubsetsOf(Nat)
           B == {Below(n) : n \in T}
<1>1. B \subseteq F
  <2> SUFFICES ASSUME NEW n \in T PROVE Below(n) \in F  OBVIOUS
  <2>1. IsFiniteSet(Below(n))  BY FS_Interval
  <2> QED  BY <2>1 DEF FiniteSubsetsOf
<1>2. PICK b \in B : \A c \in B : ~(<<c, b>> \in R)
  <2>1. B # {}  OBVIOUS
  <2>2. IsWellFoundedOn(R, F)  BY FS_StrictSubsetOrderingWellFounded
  <2> HIDE DEF B, R, F
  <2> QED  BY <1>1, <2>1, <2>2, WFMin
<1>3. PICK m \in T : b = Below(m)  OBVIOUS
<1>4. ASSUME NEW n \in T, ~(m <= n) PROVE FALSE
  <2>1. Below(n) \subseteq Below(m) /\ n \in Below(m) /\ n \notin Below(n)  BY <1>4
  <2>2. <<Below(n), Below(m)>> \in R  BY <2>1 DEF StrictSubsetOrdering
  <2> QED  BY <1>2, <1>3, <2>2
<1> QED  BY <1>4

\* The oldest of some commands is one of them.
LEMMA OldestExists ==
  ASSUME NEW S \in SUBSET Steer, S # {}
  PROVE  Oldest(S) \in S /\ \A d \in S : Oldest(S) <= d
<1>1. S \in SUBSET Nat
  BY SteerNumbers
<1>2. \E c \in S : \A d \in S : c <= d
  BY <1>1, Least
<1>3. QED
  BY <1>2 DEF Oldest

\* A process that gets a later command has them in order.
LEMMA LaterCommand ==
  ASSUME NEW s \in Seq(Steer), NEW c \in Steer, Increasing(s),
         \A i \in DOMAIN s : s[i] < c
  PROVE  /\ Append(s, c) \in Seq(Steer) /\ Increasing(Append(s, c))
         /\ \A i \in DOMAIN Append(s, c) :
              Append(s, c)[i] = c \/ (i \in DOMAIN s /\ Append(s, c)[i] = s[i])
         /\ \E i \in DOMAIN Append(s, c) : Append(s, c)[i] = c
<1> DEFINE t == Append(s, c)
<1>1. t \in Seq(Steer) /\ DOMAIN t = 1..(Len(s) + 1) /\ DOMAIN s = 1..Len(s) /\ Len(s) \in Nat
  OBVIOUS
<1>2. t[Len(s) + 1] = c /\ \A i \in 1..Len(s) : t[i] = s[i]
  OBVIOUS
<1>3. \A i \in 1..(Len(s) + 1) : i = Len(s) + 1 \/ i \in 1..Len(s)
  BY <1>1
<1> HIDE DEF t
<1>4. ASSUME NEW i \in DOMAIN t, NEW k \in 1..(i - 1)
      PROVE  t[k] < t[i]
  <2>1. k \in 1..Len(s)
    BY <1>1
  <2>2. CASE i = Len(s) + 1
    BY <1>1, <1>2, <2>1, <2>2
  <2>3. CASE i \in 1..Len(s)
    BY <1>1, <1>2, <2>1, <2>3 DEF Increasing
  <2>4. QED
    BY <1>1, <1>3, <2>2, <2>3
<1>5. Increasing(t)
  BY <1>4 DEF Increasing
<1>6. \A i \in DOMAIN t : t[i] = c \/ (i \in DOMAIN s /\ t[i] = s[i])
  BY <1>1, <1>2, <1>3
<1>7. \E i \in DOMAIN t : t[i] = c
  BY <1>1, <1>2
<1>8. QED
  BY <1>1, <1>5, <1>6, <1>7 DEF t

\* Most steps leave the commands alone, or forget those of some processes.
Leaves ==
  /\ UNCHANGED <<inbox, steers>>
  /\ \/ at' = at /\ UNCHANGED <<given, handing>>
     \/ /\ at'.step # "consume"
        /\ UNCHANGED <<given, handing>> \/ \E J \in SUBSET Job : Forget(J)

LEMMA LeavesCommands ==
  ASSUME Typed, Commanded, Leaves
  PROVE  Commanded'
<1>1. Arrived'
  BY DEF Leaves, Commanded, Arrived
<1>2. Consuming'
  BY DEF Leaves, Commanded, Consuming, Read, Oldest
<1>3. CASE UNCHANGED <<given, handing>>
  <2>1. CommandTypes' /\ \A j \in Job : Handed(j)'
    BY <1>3 DEF Leaves, Commanded, CommandTypes, Handed, Increasing
  <2>2. QED
    BY <1>1, <1>2, <2>1 DEF Commanded
<1>4. ASSUME NEW J \in SUBSET Job, Forget(J)
      PROVE  Commanded'
  <2>1. \A k \in Job : \/ given'[k] = given[k] /\ handing'[k] = handing[k]
                       \/ given'[k] = <<>> /\ handing'[k] = 0
    BY <1>4 DEF Forget
  <2>2. CommandTypes'
    <3>1. <<>> \in Seq(Steer)  OBVIOUS
    <3>2. QED
      BY <1>4, <3>1 DEF Forget, Commanded, CommandTypes
  <2>3. ASSUME NEW k \in Job
        PROVE  Handed(k)'
    BY <2>1 DEF Leaves, Commanded, Handed, Increasing
  <2>4. QED
    BY <1>1, <1>2, <2>2, <2>3 DEF Commanded
<1>5. QED
  BY <1>3, <1>4 DEF Leaves

\* A command that was just accepted is later than all.
LEMMA SteerCommands ==
  ASSUME Typed, Commanded, NEW r \in Run, SteerRun(r)
  PROVE  Commanded'
<1>1. /\ steers \in [Run -> Nat] /\ inbox \in [Run -> SUBSET Steer]
      /\ steers' = [steers EXCEPT ![r] = steers[r] + 1]
      /\ inbox' = [inbox EXCEPT ![r] = inbox[r] \cup {steers[r] + 1}]
      /\ UNCHANGED <<at, given, handing>>
  BY DEF SteerRun, memoryVars, childVars, Typed, DatabaseTypes
<1>2. /\ \A q \in Run : steers[q] \in Nat /\ steers[q] <= steers'[q]
      /\ \A q \in Run : \A d \in inbox'[q] :
           d \in inbox[q] \/ (q = r /\ d = steers[q] + 1 /\ steers'[q] = d)
      /\ \A q \in Run : inbox[q] \subseteq Steer /\ inbox[q] \subseteq inbox'[q]
  BY <1>1
<1>3. CommandTypes'
  BY <1>1 DEF Commanded, CommandTypes
<1>4. Arrived'
  BY <1>2, SteerNumbers, <1>1 DEF Commanded, Arrived
<1>5. ASSUME NEW k \in Job
      PROVE  Handed(k)'
  <2>1. RunOf(k) \in Run  BY Jobs
  <2>2. Handed(k)  BY DEF Commanded
  <2>3. \A i \in DOMAIN given[k] : given[k][i] \in Nat
    <3>1. given[k] \in Seq(Steer)
      BY DEF Commanded, CommandTypes
    <3>2. \A i \in DOMAIN given[k] : given[k][i] \in Steer
      BY <3>1
    <3>3. QED
      BY <3>2, SteerNumbers
  <2>4. \A i \in DOMAIN given[k] : given[k][i] <= steers'[RunOf(k)]
    <3> SUFFICES ASSUME NEW i \in DOMAIN given[k]
                 PROVE  given[k][i] <= steers'[RunOf(k)]
      OBVIOUS
    <3>1. given[k][i] <= steers[RunOf(k)] /\ steers[RunOf(k)] <= steers'[RunOf(k)]
      BY <1>2, <2>1, <2>2 DEF Handed
    <3>2. steers[RunOf(k)] \in Nat /\ steers'[RunOf(k)] \in Nat
      BY <1>1, <2>1
    <3> QED
      BY <2>3, <3>1, <3>2
  <2>5. \A i \in DOMAIN given[k] : \A d \in inbox'[RunOf(k)] :
          given[k][i] <= d /\ (given[k][i] = d => handing[k] = d)
    <3> SUFFICES ASSUME NEW i \in DOMAIN given[k], NEW d \in inbox'[RunOf(k)]
                 PROVE  given[k][i] <= d /\ (given[k][i] = d => handing[k] = d)
      OBVIOUS
    <3>1. CASE d \in inbox[RunOf(k)]
      BY <2>2, <3>1 DEF Handed
    <3>2. CASE d = steers[RunOf(k)] + 1
      <4>1. given[k][i] <= steers[RunOf(k)] /\ steers[RunOf(k)] \in Nat
        BY <1>2, <2>1, <2>2 DEF Handed
      <4> QED
        BY <2>3, <3>2, <4>1
    <3> QED
      BY <1>2, <2>1, <3>1, <3>2
  <2> QED
    BY <1>1, <2>2, <2>4, <2>5 DEF Handed, Increasing
<1>6. Consuming'
  <2> SUFFICES ASSUME at.step = "consume"
               PROVE  at.job \in Job /\ Read(at.job)'
    BY <1>1 DEF Consuming
  <2>1. at.job \in Job /\ Read(at.job)
    BY DEF Commanded, Consuming
  <2>2. RunOf(at.job) \in Run
    BY <2>1, Jobs
  <2>3. ASSUME NEW e \in at.todo, NEW d \in inbox'[RunOf(at.job)] \ at.todo
        PROVE  e < d
    <3>1. CASE d \in inbox[RunOf(at.job)]
      BY <2>1, <3>1 DEF Read
    <3>2. CASE d = steers[RunOf(at.job)] + 1
      <4>1. e \in inbox[RunOf(at.job)] /\ e \in Nat /\ steers[RunOf(at.job)] \in Nat
        BY <1>2, <2>1, <2>2, SteerNumbers DEF Read
      <4>2. e <= steers[RunOf(at.job)]
        BY <2>2, <4>1 DEF Commanded, Arrived
      <4> QED
        BY <3>2, <4>1, <4>2
    <3> QED
      BY <1>2, <2>2, <3>1, <3>2
  <2>4. at.todo \subseteq inbox'[RunOf(at.job)]
    BY <1>2, <2>1, <2>2 DEF Read
  <2> QED
    BY <1>1, <2>1, <2>3, <2>4 DEF Read, Oldest
<1>7. QED
  BY <1>3, <1>4, <1>5, <1>6 DEF Commanded

\* One command that is later than all a process has is handed to it.
Hands(j, c) ==
  /\ c \in Steer /\ c <= steers[RunOf(j)]
  /\ \A i \in DOMAIN given[j] : given[j][i] < c
  /\ \A d \in inbox'[RunOf(j)] : c <= d
  /\ given' = [given EXCEPT ![j] = Append(given[j], c)]
  /\ handing' = [handing EXCEPT ![j] = c]

\* The numbers of the commands a process has.
LEMMA GivenNumbers ==
  ASSUME Commanded, NEW j \in Job
  PROVE  given[j] \in Seq(Steer) /\ \A i \in DOMAIN given[j] : given[j][i] \in Nat
<1>1. given[j] \in Seq(Steer)
  BY DEF Commanded, CommandTypes
<1>2. \A i \in DOMAIN given[j] : given[j][i] \in Steer
  BY <1>1
<1>3. QED
  BY <1>1, <1>2, SteerNumbers

LEMMA HandsCommand ==
  ASSUME Typed, Commanded, NEW j \in Job, NEW c, Hands(j, c), steers' = steers,
         inbox'[RunOf(j)] \subseteq inbox[RunOf(j)]
  PROVE  Handed(j)'
<1>1. given[j] \in Seq(Steer) /\ \A i \in DOMAIN given[j] : given[j][i] \in Nat
  BY GivenNumbers
<1>2. PICK t : t = Append(given[j], c)
  OBVIOUS
<1>3. given'[j] = t /\ handing'[j] = c
  BY <1>2 DEF Hands, Commanded, CommandTypes
<1>4. /\ Increasing(t) /\ t \in Seq(Steer)
      /\ \A i \in DOMAIN t : t[i] = c \/ (i \in DOMAIN given[j] /\ t[i] = given[j][i])
      /\ \E i \in DOMAIN t : t[i] = c
  <2>1. c \in Steer /\ Increasing(given[j]) /\ \A i \in DOMAIN given[j] : given[j][i] < c
    BY DEF Hands, Commanded, Handed
  <2>2. QED
    BY <1>1, <1>2, <2>1, LaterCommand
<1>5. RunOf(j) \in Run /\ inbox'[RunOf(j)] \subseteq Nat /\ c \in Nat
  BY Jobs, SteerNumbers DEF Hands, Typed, DatabaseTypes
<1>6. \A i \in DOMAIN t : t[i] <= steers[RunOf(j)]
  BY <1>4 DEF Hands, Commanded, Handed
<1>7. \A i \in DOMAIN t : \A d \in inbox'[RunOf(j)] : t[i] <= d /\ (t[i] = d => c = d)
  BY <1>1, <1>4, <1>5 DEF Hands
<1>8. QED
  BY <1>3, <1>4, <1>6, <1>7 DEF Handed

\* The other processes are not concerned.
LEMMA OthersHanded ==
  ASSUME Typed, Commanded, NEW k \in Job, steers' = steers,
         given'[k] = given[k], handing'[k] = handing[k],
         inbox'[RunOf(k)] \subseteq inbox[RunOf(k)]
  PROVE  Handed(k)'
BY DEF Commanded, Handed, Increasing

LEMMA ReadCommands ==
  ASSUME Typed, Commanded, NEW j \in Job, ReadControls(j), ~Leaves
  PROVE  Commanded'
<1> DEFINE todo == inbox[RunOf(j)]
           c == Oldest(todo)
<1>1. /\ at' = Stage(j, "consume", "nothing", 0, todo) /\ todo # {} /\ Hand(j, c)
      /\ UNCHANGED <<inbox, steers>>
  BY DEF ReadControls, Leaves, GoDraining, Stage, dbVars
<1>2. RunOf(j) \in Run /\ todo \in SUBSET Steer
  BY Jobs DEF Typed, DatabaseTypes
<1>3. c \in todo /\ c \in Steer /\ c \in Nat /\ \A d \in todo : c <= d
  BY <1>1, <1>2, OldestExists, SteerNumbers
<1>4. Arrived'
  BY <1>1 DEF Commanded, Arrived
<1> HIDE DEF c
<1>5. handing'[j] = c /\ CommandTypes' /\ \A k \in Job : Handed(k)'
  <2>1. CASE handing[j] = c
    <3>1. UNCHANGED <<given, handing>>
      BY <1>1, <2>1 DEF Hand
    <3>2. QED
      BY <1>1, <2>1, <3>1, OthersHanded DEF Commanded, CommandTypes
  <2>2. CASE handing[j] # c
    <3>1. /\ given' = [given EXCEPT ![j] = Append(given[j], c)]
          /\ handing' = [handing EXCEPT ![j] = c]
      BY <1>1, <2>2 DEF Hand
    <3>2. \A i \in DOMAIN given[j] : given[j][i] < c
      <4> SUFFICES ASSUME NEW i \in DOMAIN given[j] PROVE given[j][i] < c
        OBVIOUS
      <4>1. given[j][i] <= c /\ given[j][i] # c
        BY <1>3, <2>2 DEF Commanded, Handed
      <4>2. QED
        BY <1>3, <4>1, GivenNumbers
    <3>3. c <= steers[RunOf(j)]
      BY <1>2, <1>3 DEF Commanded, Arrived
    <3>4. Hands(j, c)
      BY <1>1, <1>3, <3>1, <3>2, <3>3 DEF Hands
    <3>5. CommandTypes'
      <4>1. Append(given[j], c) \in Seq(Steer)
        BY <1>3, GivenNumbers
      <4>2. QED
        BY <1>3, <3>1, <4>1 DEF Commanded, CommandTypes
    <3>6. ASSUME NEW k \in Job \ {j}
          PROVE  Handed(k)'
      BY <1>1, <3>1, OthersHanded DEF Commanded, CommandTypes
    <3>7. QED
      BY <1>1, <3>1, <3>4, <3>5, <3>6, HandsCommand DEF Commanded, CommandTypes
  <2>3. QED
    BY <2>1, <2>2
<1>6. Consuming'
  BY <1>1, <1>5 DEF Consuming, Read, Stage, Oldest, c
<1>7. QED
  BY <1>4, <1>5, <1>6 DEF Commanded

\* The command being consumed is the oldest of the inbox, and the process has it.
LEMMA OldestConsumed ==
  ASSUME Typed, Commanded, NEW j \in Job, At(j, "consume")
  PROVE  /\ RunOf(j) \in Run /\ at.todo # {} /\ at.todo \subseteq inbox[RunOf(j)]
         /\ Oldest(at.todo) \in at.todo /\ Oldest(at.todo) = handing[j]
         /\ \E i \in DOMAIN given[j] : given[j][i] = Oldest(at.todo)
         /\ \A e \in at.todo : \A d \in inbox[RunOf(j)] \ at.todo : e < d
<1>1. Read(j)
  BY DEF At, Commanded, Consuming
<1>2. RunOf(j) \in Run /\ inbox[RunOf(j)] \subseteq Steer
  BY Jobs DEF Typed, DatabaseTypes
<1>3. at.todo # {} /\ at.todo \in SUBSET Steer
  BY <1>1, <1>2 DEF Read
<1>4. Oldest(at.todo) \in at.todo /\ Oldest(at.todo) # 0
  BY <1>3, OldestExists, SteerNumbers
<1>5. QED
  BY <1>1, <1>2, <1>4 DEF Read, Commanded, Handed

LEMMA ConsumeCommands ==
  ASSUME Typed, Commanded, NEW j \in Job, Consume(j)
  PROVE  Commanded'
<1> DEFINE c == Oldest(at.todo)
           rest == at.todo \ {c}
           r == RunOf(j)
<1>1. /\ r \in Run /\ at.todo \subseteq inbox[r]
      /\ c \in at.todo /\ c = handing[j]
      /\ \A e \in at.todo : \A d \in inbox[r] \ at.todo : e < d
  BY OldestConsumed DEF Consume
<1>2. inbox \in [Run -> SUBSET Steer] /\ given \in [Job -> Seq(Steer)]
      /\ handing \in [Job -> {0} \cup Steer] /\ inbox[r] \subseteq Nat
  BY <1>1, SteerNumbers DEF Typed, DatabaseTypes, Commanded, CommandTypes
<1>3. inbox' = [inbox EXCEPT ![r] = @ \ {c}] /\ steers' = steers
  BY DEF Consume
<1>4. /\ inbox'[r] = inbox[r] \ {c}
      /\ \A q \in Run : inbox'[q] \subseteq inbox[q]
  BY <1>1, <1>2, <1>3
<1>5. Arrived'
  BY <1>3, <1>4 DEF Commanded, Arrived
<1>6. \A i \in DOMAIN given[j] : \A d \in inbox[r] : given[j][i] <= d /\ (given[j][i] = d => c = d)
  BY <1>1 DEF Commanded, Handed
<1> HIDE DEF c, r
<1>7. ASSUME NEW k \in Job \ {j}, given'[k] = given[k], handing'[k] = handing[k]
      PROVE  Handed(k)'
  <2>1. RunOf(k) \in Run
    BY Jobs
  <2>2. QED
    BY <1>3, <1>4, <1>7, <2>1, OthersHanded
<1>8. CASE rest = {}
  <2>1. /\ handing' = [handing EXCEPT ![j] = 0] /\ given' = given
        /\ at' = Stage(j, "drain", "nothing", Batch, {})
    BY <1>8 DEF Consume, GoDraining, c
  <2>2. CommandTypes'
    BY <1>2, <2>1 DEF CommandTypes
  <2>3. Handed(j)'
    <3>1. handing'[j] = 0 /\ given'[j] = given[j]
      BY <1>2, <2>1
    <3>2. \A i \in DOMAIN given[j] : \A d \in inbox'[r] : given[j][i] <= d /\ given[j][i] # d
      BY <1>4, <1>6
    <3>3. QED
      BY <1>3, <3>1, <3>2 DEF Commanded, Handed, Increasing, r
  <2>4. \A k \in Job : Handed(k)'
    BY <1>2, <1>7, <2>1, <2>3
  <2>5. Consuming'
    BY <2>1 DEF Consuming, Stage
  <2>6. QED
    BY <1>5, <2>2, <2>4, <2>5 DEF Commanded
<1>9. CASE rest # {}
  <2> DEFINE e == Oldest(rest)
  <2>1. /\ handing' = [handing EXCEPT ![j] = e]
        /\ given' = [given EXCEPT ![j] = Append(given[j], e)]
        /\ at' = Stage(j, "consume", "nothing", 0, rest)
    BY <1>9 DEF Consume, c
  <2>2. rest \in SUBSET Steer /\ rest \subseteq inbox'[r]
    BY <1>1, <1>2, <1>4
  <2>3. e \in rest /\ \A d \in rest : e <= d
    BY <1>9, <2>2, OldestExists
  <2>4. e \in Steer /\ e \in Nat /\ e \in inbox[r] /\ e # c /\ e \in at.todo
    BY <1>1, <2>2, <2>3, SteerNumbers
  <2> HIDE DEF e
  <2>5. \A i \in DOMAIN given[j] : given[j][i] < e
    <3> SUFFICES ASSUME NEW i \in DOMAIN given[j] PROVE given[j][i] < e
      OBVIOUS
    <3>1. given[j][i] <= e /\ given[j][i] # e
      BY <1>6, <2>4
    <3>2. QED
      BY <2>4, <3>1, GivenNumbers
  <2>6. \A d \in inbox'[r] : e <= d
    <3> SUFFICES ASSUME NEW d \in inbox'[r] PROVE e <= d
      OBVIOUS
    <3>1. d \in Nat /\ d \in inbox[r] /\ d # c
      BY <1>2, <1>4
    <3>2. CASE d \in at.todo
      BY <2>3, <3>1, <3>2
    <3>3. CASE d \notin at.todo
      <4>1. e < d
        BY <1>1, <2>4, <3>1, <3>3
      <4>2. QED
        BY <2>4, <3>1, <4>1
    <3>4. QED
      BY <3>2, <3>3
  <2>7. e <= steers[r]
    BY <1>1, <2>4 DEF Commanded, Arrived
  <2>8. Hands(j, e)
    BY <2>1, <2>4, <2>5, <2>6, <2>7 DEF Hands, r
  <2>9. Handed(j)'
    BY <1>1, <1>3, <1>4, <2>8, HandsCommand DEF r
  <2>10. \A k \in Job : Handed(k)'
    BY <1>2, <1>7, <2>1, <2>9
  <2>11. CommandTypes'
    <3>1. Append(given[j], e) \in Seq(Steer)
      BY <1>2, <2>4
    <3>2. QED
      BY <1>2, <2>1, <2>4, <3>1 DEF CommandTypes
  <2>12. Consuming'
    <3>1. at'.job = j /\ at'.todo = rest /\ handing'[j] = e
      BY <1>2, <2>1, <2>4 DEF Stage
    <3>2. \A x \in rest : \A d \in inbox'[r] \ rest : x < d
      BY <1>1, <1>4
    <3>3. QED
      BY <1>9, <2>2, <3>1, <3>2 DEF Consuming, Read, Oldest, e, r
  <2>13. QED
    BY <1>5, <2>10, <2>11, <2>12 DEF Commanded
<1>10. QED
  BY <1>8, <1>9

LEMMA ForgetLeaves ==
  ASSUME Typed, NEW J \in SUBSET Job, Forget(J), Rest, UNCHANGED <<inbox, steers>>
  PROVE  Leaves
BY DEF Leaves, Rest, Idle, Stage

LEMMA EndsLeaves ==
  ASSUME Typed, Ends
  PROVE  Leaves
BY ForgetLeaves DEF Ends, dbVars, Typed, WorkerTypes

LEMMA ServiceLeaves ==
  ASSUME Typed, NEW j \in Job, Service(j), ~ReadControls(j), ~Consume(j)
  PROVE  Leaves
<1>1. CASE StartChild(j) \/ StartFails(j)
  BY <1>1 DEF StartChild, StartFails, Rest, Idle, Stage, Leaves, dbVars, memoryVars, childVars
<1>2. CASE StartFailsLate(j) \/ PersistIllegal(j)
  BY <1>2, EndsLeaves DEF StartFailsLate, PersistIllegal, Crashes
<1>3. CASE RemoveChild(j) /\ UNCHANGED <<inbox, steers>>
  BY <1>3, ForgetLeaves DEF RemoveChild
<1>4. CASE BeginPass(j) \/ PollAfterRenewal(j) \/ Renew(j)
  <2>1. CASE Poll(j) \/ Renew(j)
    BY <2>1 DEF Poll, Renew, Go, GoDraining, Stage, Leaves, dbVars, childVars
  <2>2. CASE GoSeeing(j, "renew", lease[j]) /\ UNCHANGED <<dbVars, memoryVars, childVars>>
    BY <2>2 DEF GoSeeing, Stage, Leaves, dbVars, memoryVars, childVars
  <2>3. QED
    BY <1>3, <1>4, <2>1, <2>2 DEF BeginPass, PollAfterRenewal, dbVars
<1>5. CASE Take(j)
  BY <1>5 DEF Take, Leaves, Typed, WorkerTypes, AtType, dbVars
<1>6. CASE StopDraining(j)
  BY <1>6 DEF StopDraining, Go, Rest, Idle, Stage, Leaves, dbVars
<1>7. CASE PersistEvent(j)
  BY <1>7 DEF PersistEvent, GoDraining, CutShort, Rest, Idle, Stage, Leaves, dbVars
<1>8. CASE ReadStatus(j)
  BY <1>8 DEF ReadStatus, GoSeeing, Stage, Leaves, dbVars, memoryVars, childVars
<1>9. CASE PersistFenced(j) \/ Enforce(j)
  BY <1>3, <1>9 DEF PersistFenced, Enforce, dbVars
<1>10. CASE PersistLast(j)
  <2>1. UNCHANGED <<inbox, steers>>
    BY <1>10 DEF PersistLast
  <2>2. CASE Rest /\ UNCHANGED <<given, handing>>
    BY <2>1, <2>2 DEF Rest, Idle, Stage, Leaves
  <2>3. QED
    BY <1>3, <1>10, <2>1, <2>2 DEF PersistLast, CutShort
<1>11. CASE Exit(j)
  BY <1>3, <1>11 DEF Exit, GiveUp, Rest, Idle, Stage, Leaves, childVars
<1>12. QED
  BY <1>1, <1>2, <1>4, <1>5, <1>6, <1>7, <1>8, <1>9, <1>10, <1>11 DEF Service

\* Only three steps do anything to the commands.
LEMMA StepLeaves ==
  ASSUME Typed, [Next]_vars
  PROVE  \/ Leaves
         \/ \E r \in Run : SteerRun(r)
         \/ \E j \in Job : ReadControls(j) \/ Consume(j)
<1>1. CASE \E r \in Run : Submit(r) \/ Cancel(r) \/ Answer(r)
  BY <1>1 DEF Submit, Cancel, Answer, Leaves, memoryVars, childVars
<1>2. CASE \E r \in Run : Claim(r)
  BY <1>2 DEF Claim, Go, Stage, Leaves, memoryVars, childVars
<1>3. CASE \E j \in Job : Service(j)
  BY <1>3, ServiceLeaves
<1>4. CASE \E j \in Job : Child(j) \/ PatienceEnds(j) \/ ExitGraceEnds(j) \/ LeaseExpires(j)
                         \/ Reap(j)
  BY <1>4 DEF Child, Emit, Conclude, ChildEnds, PatienceEnds, ExitGraceEnds, LeaseExpires,
     Reap, Leaves, dbVars, memoryVars, childVars
<1>5. CASE \E j \in Job : Busy(j)
  BY <1>5 DEF Busy, CutShort, Rest, Idle, Stage, Leaves, dbVars, memoryVars, childVars
<1>6. CASE Stop
  BY <1>6, EndsLeaves DEF Stop
<1>7. CASE Restart \/ UNCHANGED vars
  BY <1>7 DEF Restart, vars, Leaves, dbVars, memoryVars, childVars
<1>8. QED
  BY <1>1, <1>2, <1>3, <1>4, <1>5, <1>6, <1>7 DEF Next

LEMMA CommandedInit == Init => Commanded
<1> SUFFICES ASSUME Init PROVE Commanded
  OBVIOUS
<1>1. <<>> \in Seq(Steer)
  OBVIOUS
<1>2. \A j \in Job : Handed(j)
  BY Jobs DEF Init, Handed, Increasing
<1>3. QED
  BY <1>1, <1>2 DEF Init, Commanded, CommandTypes, Arrived, Consuming, Idle, Stage

LEMMA CommandedStep == Typed /\ Commanded /\ [Next]_vars => Commanded'
BY StepLeaves, LeavesCommands, SteerCommands, ReadCommands, ConsumeCommands

\* What leaves the inbox is what the loop consumes, which the process has.
LEMMA ConsumedWasHanded ==
  ASSUME Typed, Commanded, [Next]_vars, NEW r \in Run, NEW c \in inbox[r] \ inbox'[r]
  PROVE  \E n \in Attempt : \E i \in DOMAIN given[<<r, n>>] : given[<<r, n>>][i] = c
<1>1. CASE Leaves
  BY <1>1 DEF Leaves
<1>2. ASSUME NEW q \in Run, SteerRun(q)
      PROVE  FALSE
  BY <1>2 DEF SteerRun, Typed, DatabaseTypes
<1>3. ASSUME NEW j \in Job, ReadControls(j)
      PROVE  FALSE
  BY <1>3 DEF ReadControls, dbVars
<1>4. ASSUME NEW j \in Job, Consume(j)
      PROVE  \E n \in Attempt : \E i \in DOMAIN given[<<r, n>>] : given[<<r, n>>][i] = c
  <2>1. r = RunOf(j) /\ c = Oldest(at.todo)
    BY <1>4, OldestConsumed DEF Consume, Typed, DatabaseTypes
  <2>2. j = <<r, j[2]>> /\ j[2] \in Attempt
    BY <2>1, Jobs
  <2>3. \E i \in DOMAIN given[j] : given[j][i] = c
    BY <1>4, <2>1, OldestConsumed DEF Consume
  <2>4. QED
    BY <2>2, <2>3
<1>5. QED
  BY <1>1, <1>2, <1>3, <1>4, StepLeaves

\* A process gets a command at most once and commands in their order, whatever
\* comes between handing one over and marking it consumed; and only a command
\* that was handed over is marked.
THEOREM ControlsCorrect == Spec => ControlsHandedOnce
<1> DEFINE A == \A j \in Job :
             /\ \A i \in DOMAIN given'[j] : \A k \in 1..(i - 1) : given'[j][k] < given'[j][i]
             /\ \A c \in inbox[RunOf(j)] \ inbox'[RunOf(j)] :
                  \E n \in Attempt : \E i \in DOMAIN given[<<RunOf(j), n>>] :
                    given[<<RunOf(j), n>>][i] = c
<1>1. Typed /\ Commanded /\ [Next]_vars => [A]_vars
  <2> SUFFICES ASSUME Typed, Commanded, [Next]_vars, NEW j \in Job
               PROVE  /\ Increasing(given'[j])
                      /\ \A c \in inbox[RunOf(j)] \ inbox'[RunOf(j)] :
                           \E n \in Attempt : \E i \in DOMAIN given[<<RunOf(j), n>>] :
                             given[<<RunOf(j), n>>][i] = c
    BY DEF Increasing
  <2>1. Increasing(given'[j])
    BY CommandedStep DEF Commanded, Handed, Increasing
  <2>2. QED
    BY <2>1, ConsumedWasHanded, Jobs
<1>2. Spec => []Typed
  BY Invariance, PTL DEF IInv
<1>3. QED
  BY <1>1, <1>2, CommandedInit, CommandedStep, PTL DEF Spec, ControlsHandedOnce

-----------------------------------------------------------------------------
(* Types, with the bounds.                                                   *)

\* The loop takes a message only while this pass may persist one more.
Bounded ==
  /\ mishaps \in 0..MaxMishaps
  /\ at.left \in 0..Batch
  /\ at.step = "persist" => at.left > 0
  /\ \A r \in Run : steers[r] <= MaxSteers[vendor]

\* How far a pass is, and how often the environment interfered.
LeftKept ==
  /\ mishaps' = mishaps \/ (mishaps' = mishaps + 1 /\ mishaps < MaxMishaps)
  /\ \/ at' = at
     \/ at'.left \in {0, Batch} /\ at'.step # "persist"
     \/ at'.left = at.left /\ at.left > 0
     \/ at'.left = at.left - 1 /\ at.step = "persist" /\ at'.step # "persist"

LEMMA BoundedNext ==
  ASSUME Typed, Bounded, LeftKept, UNCHANGED <<steers, vendor>>
  PROVE  Bounded'
<1>1. mishaps' \in 0..MaxMishaps
  BY CountAssumption DEF Bounded, LeftKept
<1>2. Batch \in Nat \ {0} /\ at.left \in 0..Batch
  BY RingAssumption DEF Bounded
<1>3. at'.left \in 0..Batch /\ (at'.step = "persist" => at'.left > 0)
  BY <1>2 DEF Bounded, LeftKept
<1>4. QED
  BY <1>1, <1>3 DEF Bounded

LEMMA ServiceLeft ==
  ASSUME Typed, Bounded, NEW j \in Job, Service(j)
  PROVE  LeftKept /\ UNCHANGED <<steers, vendor>>
<1>1. CASE StartChild(j) \/ StartFails(j)
  BY <1>1 DEF StartChild, StartFails, Mishap, Rest, Idle, Stage, LeftKept, dbVars
<1>2. CASE StartFailsLate(j) \/ PersistIllegal(j)
  BY <1>2 DEF StartFailsLate, PersistIllegal, Crashes, Ends, Rest, Idle, Stage, LeftKept, dbVars
<1>3. CASE RemoveChild(j) /\ UNCHANGED <<mishaps, steers, vendor>>
  BY <1>3 DEF RemoveChild, Rest, Idle, Stage, LeftKept
<1>4. CASE BeginPass(j) \/ PollAfterRenewal(j) \/ Renew(j)
  <2>1. CASE Poll(j) \/ Renew(j)
    BY <2>1 DEF Poll, Renew, Go, GoDraining, Stage, LeftKept, dbVars
  <2>2. CASE GoSeeing(j, "renew", lease[j]) /\ UNCHANGED <<dbVars, mishaps>>
    BY <2>2 DEF GoSeeing, Stage, LeftKept, dbVars
  <2>3. QED
    BY <1>3, <1>4, <2>1, <2>2 DEF BeginPass, PollAfterRenewal, dbVars
<1>5. CASE ReadControls(j) \/ Consume(j)
  BY <1>5 DEF ReadControls, Consume, GoDraining, Stage, LeftKept, dbVars
<1>6. CASE Take(j)
  <2>1. at'.left = at.left /\ at.left > 0
    BY <1>6 DEF Take, Typed, WorkerTypes, AtType
  <2>2. QED
    BY <1>6, <2>1 DEF Take, LeftKept, dbVars
<1>7. CASE StopDraining(j)
  BY <1>7 DEF StopDraining, Go, Rest, Idle, Stage, LeftKept, dbVars
<1>8. CASE PersistEvent(j)
  <2>1. CASE GoDraining(j, at.left - 1) /\ UNCHANGED mishaps
    BY <1>8, <2>1 DEF PersistEvent, At, GoDraining, Stage, LeftKept, dbVars
  <2>2. CASE CutShort
    BY <1>8, <2>2 DEF PersistEvent, CutShort, Mishap, Rest, Idle, Stage, LeftKept, dbVars
  <2>3. QED
    BY <1>8, <2>1, <2>2 DEF PersistEvent
<1>9. CASE ReadStatus(j)
  BY <1>9 DEF ReadStatus, GoSeeing, Stage, LeftKept, dbVars
<1>10. CASE PersistFenced(j) \/ Enforce(j)
  BY <1>3, <1>10 DEF PersistFenced, Enforce, dbVars
<1>11. CASE PersistLast(j)
  <2>1. CASE CutShort
    BY <1>11, <2>1 DEF PersistLast, CutShort, Mishap, Rest, Idle, Stage, LeftKept
  <2>2. QED
    BY <1>3, <1>11, <2>1 DEF PersistLast
<1>12. CASE Exit(j)
  BY <1>3, <1>12 DEF Exit, GiveUp, Rest, Idle, Stage, LeftKept
<1>13. QED
  BY <1>1, <1>2, <1>4, <1>5, <1>6, <1>7, <1>8, <1>9, <1>10, <1>11, <1>12 DEF Service

LEMMA BoundedStep == Typed /\ Bounded /\ [Next]_vars => Bounded'
<1> SUFFICES ASSUME Typed, Bounded, [Next]_vars
             PROVE  Bounded'
  OBVIOUS
<1>1. CASE \E r \in Run : Submit(r) \/ Cancel(r) \/ Answer(r)
  BY <1>1, BoundedNext DEF Submit, Cancel, Answer, LeftKept
<1>2. CASE \E r \in Run : Claim(r)
  BY <1>2, BoundedNext DEF Claim, Go, Stage, LeftKept
<1>3. ASSUME NEW r \in Run, SteerRun(r)
      PROVE  Bounded'
  <2>1. \A q \in Run : steers'[q] <= MaxSteers[vendor]
    <3>1. vendor \in {"sqlite", "postgresql"} /\ MaxSteers[vendor] \in Nat
      BY VendorAssumption, CountAssumption DEF Typed, DatabaseTypes
    <3>2. steers \in [Run -> Nat] /\ steers[r] < MaxSteers[vendor]
          /\ steers' = [steers EXCEPT ![r] = @ + 1]
      BY <1>3 DEF SteerRun, Typed, DatabaseTypes
    <3>3. QED
      BY <3>1, <3>2 DEF Bounded
  <2>2. QED
    BY <1>3, <2>1 DEF SteerRun, Bounded
<1>4. CASE \E j \in Job : Service(j)
  BY <1>4, ServiceLeft, BoundedNext
<1>5. CASE \E j \in Job : Child(j) \/ PatienceEnds(j) \/ ExitGraceEnds(j) \/ LeaseExpires(j)
                         \/ Reap(j)
  <2>1. LeftKept /\ UNCHANGED <<steers, vendor>>
    BY <1>5 DEF Child, Emit, Conclude, ChildEnds, PatienceEnds, ExitGraceEnds, LeaseExpires,
       Reap, Mishap, LeftKept, dbVars
  <2>2. QED
    BY <2>1, BoundedNext
<1>6. CASE \E j \in Job : Busy(j)
  BY <1>6, BoundedNext DEF Busy, CutShort, Mishap, Rest, Idle, Stage, LeftKept, dbVars
<1>7. CASE Stop
  BY <1>7, BoundedNext DEF Stop, Ends, Mishap, Rest, Idle, Stage, LeftKept, dbVars
<1>8. CASE Restart \/ UNCHANGED vars
  BY <1>8, BoundedNext DEF Restart, vars, LeftKept, dbVars
<1>9. QED
  BY <1>1, <1>2, <1>3, <1>4, <1>5, <1>6, <1>7, <1>8 DEF Next

LEMMA BoundedInit == Init => Bounded
<1> SUFFICES ASSUME Init PROVE Bounded
  OBVIOUS
<1>1. vendor \in {"sqlite", "postgresql"} /\ MaxSteers[vendor] \in Nat
  BY VendorAssumption, CountAssumption DEF Init
<1>2. QED
  BY <1>1, CountAssumption, RingAssumption DEF Init, Bounded, Idle, Stage

\* Every variable of the worker stays within its type, the number of commands,
\* of messages of a pass and of mishaps within its bound.
THEOREM TypeCorrect == Spec => []TypeOK
<1>1. IInv /\ Commanded /\ Bounded => TypeOK
  <2> SUFFICES ASSUME IInv, Commanded, Bounded PROVE TypeOK
    OBVIOUS
  <2>1. Typed
    BY DEF IInv
  <2>2. {0} \cup Attempt = 0..MaxAttempts
    BY CountAssumption DEF Attempt
  <2>3. steers \in [Run -> {0} \cup Steer]
    <3> SUFFICES ASSUME NEW r \in Run PROVE steers[r] \in {0} \cup Steer
      BY <2>1 DEF Typed, DatabaseTypes
    <3>1. steers[r] \in Nat /\ steers[r] <= MaxSteers[vendor] /\ vendor \in Vendors
      BY <2>1 DEF Typed, DatabaseTypes, Bounded
    <3>2. MaxSteers[vendor] \in Nat
      BY <3>1, VendorAssumption, CountAssumption
    <3>3. steers[r] = 0 \/ steers[r] \in 1..MaxSteers[vendor]
      BY <3>1, <3>2
    <3>4. QED
      BY <3>1, <3>3 DEF Steer
  <2>4. at \in [job : Job \cup {NoJob}, step : Step,
                saw : {"nothing", Absent} \cup LeaseState \cup Status,
                left : 0..Batch, todo : SUBSET Steer]
    BY <2>1 DEF Typed, WorkerTypes, AtType, Bounded
  <2>5. QED
    BY <2>1, <2>2, <2>3, <2>4 DEF Typed, DatabaseTypes, WorkerTypes, ChildTypes,
       Commanded, CommandTypes, Bounded, TypeOK
<1>2. Spec => []IInv
  BY Invariance
<1>3. IInv => Typed
  BY DEF IInv
<1>4. QED
  BY <1>1, <1>2, <1>3, CommandedInit, CommandedStep, BoundedInit, BoundedStep, PTL DEF Spec
=============================================================================
