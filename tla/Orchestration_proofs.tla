------------------------ MODULE Orchestration_proofs ------------------------
(***************************************************************************)
(* Proofs about Orchestration, for every workflow and team, every plan a   *)
(* planner may come up with, and any number of attempts and losses.        *)
(*                                                                         *)
(* Each pass over the actions is for one part of the invariant: a lemma    *)
(* AStep says that action A keeps the part its section is about (what is   *)
(* due, what is approved), BoundA that it keeps BoundInv, AnnouncedA that  *)
(* it keeps AnnouncedInv.  Lemmas XStay say what a step that leaves the    *)
(* variables of X alone keeps.                                             *)
(***************************************************************************)
EXTENDS Orchestration, FiniteSetTheorems, SequenceTheorems, TLAPS

USE BoundsAssumption, NodesAssumption, WorkflowAssumption, SupervisorAssumption

\* The attempts of the root, the newest of which may be open.
Attempts ==
  /\ executor \in Executor
  /\ attempt \in 0..MaxAttempts[executor]
  /\ leased <=> status \in {"running", "cancelling"}
  /\ leased => attempt >= 1
  /\ child \in [Node -> ChildStatus]
  /\ work \in [Node -> Target \cup {None}]

\* Every attempt has a process from its claim on.
Begun == \A a \in Attempt : proc[a] # None <=> a <= attempt

\* Node keys of tasks, whatever the version.
TaskKey == Nat \X Task

LEMMA Nodes ==
  /\ Node = Step \cup TaskNode
  /\ TaskNode \subseteq TaskKey
  /\ Step \cap TaskKey = {}
BY DEF Node, TaskNode, TaskKey, Version

LEMMA NewestAttempt ==
  ASSUME Attempts
  PROVE  /\ leased => attempt \in Attempt
         /\ attempt < MaxAttempts[executor] => attempt + 1 \in Attempt
<1>1. MaxAttempts[executor] \in Nat /\ executor \in Executor  BY DEF Attempts
<1>2. \A n \in 1..MaxAttempts[executor] : n \in Attempt  BY <1>1 DEF Attempt
<1> QED  BY <1>1, <1>2 DEF Attempts

\* What a process puts into its queue is there, or lost.
LEMMA PutMessages ==
  ASSUME NEW M, outbox \in [Attempt -> Seq(M)], NEW a \in Attempt,
         NEW messages \in Seq(M), Puts(a, messages)
  PROVE  outbox' \in [Attempt -> Seq(M)]
BY DEF Puts

\* What the coordinator leaves in the queues.
LEMMA TakeMessage ==
  ASSUME NEW M, outbox \in [Attempt -> Seq(M)], NEW a \in Attempt, outbox[a] # <<>>
  PROVE  /\ Head(outbox[a]) \in M
         /\ [outbox EXCEPT ![a] = Tail(@)] \in [Attempt -> Seq(M)]
         /\ \A first \in Seq(M) :
              [outbox EXCEPT ![a] = first \o Tail(@)] \in [Attempt -> Seq(M)]
BY DEF Attempt

LEMMA MessagesStay ==
  ASSUME NEW M, NEW N, M \subseteq N, NEW f \in [Attempt -> Seq(M)]
  PROVE  f \in [Attempt -> Seq(N)]
<1>1. \A s \in Seq(M) : s \in Seq(N)  OBVIOUS
<1> QED  BY <1>1

LEMMA EventMessages ==
  ASSUME NEW M, NEW of, NEW nodes,
         [kind |-> "events", of |-> of, nodes |-> nodes] \in M
  PROVE  Events(of, nodes) \in Seq(M)
BY DEF Events

-----------------------------------------------------------------------------
(* Attempts and child Runs.  A child that has succeeded stays so; one is     *)
(* created by the process of an attempt only.                               *)

\* No child Run is created, and none that has succeeded changes.
OnlyMoves ==
  /\ child' \in [Node -> ChildStatus]
  /\ \A n \in Node :
       /\ child[n] = "absent" => child'[n] = "absent"
       /\ child[n] = "succeeded" => child'[n] = "succeeded"

LEMMA KeptChildren ==
  ASSUME Attempts, UNCHANGED child
  PROVE  OnlyMoves
BY DEF Attempts, OnlyMoves

LEMMA ForwardMoves ==
  ASSUME Attempts, NEW n, Forward(n)
  PROVE  OnlyMoves
BY DEF Attempts, OnlyMoves, Forward, ChildStatus

LEMMA EnvironmentAttempts ==
  ASSUME Attempts, Environment
  PROVE  Attempts' /\ OnlyMoves /\ UNCHANGED work
<1>1. CASE Lose
  BY <1>1, KeptChildren DEF Lose, Ended, Attempts
<1>2. CASE PersistEvent
  BY <1>2, KeptChildren DEF PersistEvent, rootVars, Attempts
<1>3. CASE PersistSuspension
  BY <1>3, KeptChildren DEF PersistSuspension, Attempts
<1>4. CASE PersistSuccess
  BY <1>4, KeptChildren DEF PersistSuccess, Attempts
<1>5. CASE PersistFailure
  BY <1>5, KeptChildren DEF PersistFailure, Ended, Attempts
<1>6. CASE PersistCancelled
  BY <1>6, KeptChildren DEF PersistCancelled, Attempts
<1>7. CASE Cancel
  BY <1>7, KeptChildren DEF Cancel, rest, RootOver, Attempts
<1>8. ASSUME NEW n \in Node, ChildMoves(n)
      PROVE  Attempts' /\ OnlyMoves /\ UNCHANGED work
  <2>1. UNCHANGED <<executor, attempt, leased, status, work>>
    BY <1>8 DEF ChildMoves, rootVars
  <2>2. PICK next : /\ child' = [child EXCEPT ![n] = next]
                    /\ child[n] \in {"active", "waiting"}
                    /\ next \in ChildStatus
    <3>1. child[n] \in ChildStatus  BY DEF Attempts
    <3>2. CASE child[n] = "active"
      BY <1>8, <3>2 DEF ChildMoves, ChildStatus, Unsuccessful
    <3>3. CASE child[n] = "waiting"
      BY <1>8, <3>3 DEF ChildMoves, ChildStatus, Unsuccessful
    <3>4. CASE child[n] \notin {"active", "waiting"}
      BY <1>8, <3>4 DEF ChildMoves
    <3> QED  BY <3>2, <3>3, <3>4
  <2>3. OnlyMoves  BY <2>2 DEF Attempts, OnlyMoves
  <2> QED  BY <2>1, <2>3 DEF Attempts, OnlyMoves
<1>9. CASE Wake
  BY <1>9, KeptChildren DEF Wake, rest, Attempts
<1> QED
  BY <1>1, <1>2, <1>3, <1>4, <1>5, <1>6, <1>7, <1>8, <1>9 DEF Environment

\* An attempt is claimed only when none is open.
LEMMA ClaimAttempts ==
  ASSUME Attempts, NEW p, Claim(p)
  PROVE  Attempts' /\ OnlyMoves /\ UNCHANGED work
BY KeptChildren DEF Claim, Attempts

LEMMA AnswerAttempts ==
  ASSUME Attempts, NEW c, Answer(c)
  PROVE  Attempts' /\ OnlyMoves /\ UNCHANGED work
BY KeptChildren DEF Answer, rest, Attempts

\* A process goes on, or that of the next attempt begins.
GoesOn(a) ==
  \/ proc[a] # None /\ UNCHANGED attempt
  \/ a = attempt + 1 /\ attempt' = a

LEMMA NewProcess ==
  ASSUME Attempts, Begun, NEW a \in Attempt, proc'[a] # None,
         \A b \in Attempt : b # a => proc'[b] = proc[b], GoesOn(a)
  PROVE  Begun'
<1>1. Attempt \subseteq Nat /\ attempt \in Nat  BY DEF Attempt, Attempts
<1>2. CASE UNCHANGED attempt /\ proc[a] # None
  BY <1>2 DEF Begun
<1>3. CASE a = attempt + 1 /\ attempt' = a
  BY <1>1, <1>3 DEF Begun
<1> QED  BY <1>2, <1>3 DEF GoesOn

\* A process leaves the root alone.
LEMMA StepAttempts ==
  ASSUME Attempts, UNCHANGED rootVars, child' \in [Node -> ChildStatus],
         work' \in [Node -> Target \cup {None}]
  PROVE  Attempts'
BY DEF rootVars, Attempts

\* The child Run that is created or loaded.
LEMMA Created ==
  ASSUME Attempts, NEW n, NEW target \in Target \cup {None}, CreateOrLoad(n, target)
  PROVE  /\ child' \in [Node -> ChildStatus]
         /\ work' \in [Node -> Target \cup {None}]
         /\ \A m \in Node :
              /\ child[m] # "absent" \/ m # n => child'[m] = child[m]
              /\ m # n => work'[m] = work[m]
              /\ work'[m] = work[m] \/ (m = n /\ child[n] = "absent" /\ work'[m] = target)
BY DEF Attempts, CreateOrLoad, ChildStatus

-----------------------------------------------------------------------------
(* Workflows: what the events and the messages on their way say was skipped *)
(* has an unmet condition, what a process holds for a result is one, the    *)
(* steps that are reused among them, and the steps it is about to create    *)
(* are due.                                                                 *)

Settled(s) == child[s] = "succeeded" \/ s \in unmet \cup reused
AllSettled(steps) == \A s \in steps : Settled(s)
Due(s)     == s \notin unmet \cup reused /\ \A d \in DependsOn[s] : Settled(d)

WorkflowMessage ==
  [kind : {"events"}, of : {"completed", "failed"}, nodes : SUBSET Step]
    \cup [kind : {"events"}, of : {"skipped"}, nodes : SUBSET unmet]
    \cup [kind : {"suspend"}, save : Step]
    \cup [kind : {"wait"}, nodes : SUBSET Step, save : {None}]
    \cup [kind : {"succeeded"}, reported : {steps \in SUBSET Step : AllSettled(steps)}]
    \cup [kind : {"failed", "cancelled"}]

Honest(p) ==
  /\ \A s \in p.results : Settled(s)
  /\ \A s \in p.got : Settled(s)
  /\ \A s \in p.todo : Due(s)
  /\ p.pc # "over" => reused \subseteq p.results
  /\ p.pc \in {"forward", "read"} => p.results \subseteq reused

WorkflowRows ==
  /\ unmet \in SUBSET Step /\ reused \in SUBSET Step
  /\ checkpoint \in Step \cup {None}
  /\ stored \in [Outcome -> Nat]
  /\ \A n \in Node : stored[[of |-> "skipped", node |-> n]] > 0 => n \in unmet
  /\ outbox \in [Attempt -> Seq(WorkflowMessage)]

WorkflowProcesses ==
  /\ proc \in [Attempt -> WorkflowProcess \cup {None}]
  /\ \A a \in Attempt : proc[a] # None => Honest(proc[a])
  /\ Begun

DueChildren ==
  /\ \A n \in TaskNode : child[n] = "absent"
  /\ \A s \in Step : child[s] # "absent" => Due(s)

WorkflowInv ==
  Attempts /\ (executor = "workflow-dag" =>
                 WorkflowRows /\ WorkflowProcesses /\ DueChildren)

\* What has succeeded has succeeded.
LEMMA DueStays ==
  ASSUME UNCHANGED <<unmet, reused>>, \A n \in Node : child[n] = "succeeded" => child'[n] = "succeeded"
  PROVE  /\ \A s \in Step : Settled(s) => Settled(s)'
         /\ \A s \in Step : Due(s) => Due(s)'
BY Nodes DEF Settled, Due

LEMMA ReportsStay ==
  ASSUME UNCHANGED <<unmet, reused>>, \A n \in Node : child[n] = "succeeded" => child'[n] = "succeeded"
  PROVE  WorkflowMessage \subseteq WorkflowMessage'
<1>1. \A steps \in SUBSET Step : AllSettled(steps) => AllSettled(steps)'
  BY DueStays DEF AllSettled
<1>2. {steps \in SUBSET Step : AllSettled(steps)} \subseteq {steps \in SUBSET Step : AllSettled(steps)'}
  BY <1>1
<1> QED  BY <1>2 DEF WorkflowMessage

LEMMA ProcessesStay ==
  ASSUME WorkflowProcesses, UNCHANGED <<unmet, reused, proc, attempt>>,
         \A n \in Node : child[n] = "succeeded" => child'[n] = "succeeded"
  PROVE  WorkflowProcesses'
<1> SUFFICES ASSUME NEW a \in Attempt, proc[a] # None
             PROVE  Honest(proc[a])'
  BY DEF WorkflowProcesses, Begun
<1>1. proc[a] \in WorkflowProcess /\ Honest(proc[a])  BY DEF WorkflowProcesses
<1>2. proc[a].results \subseteq Step /\ proc[a].got \subseteq Step /\ proc[a].todo \subseteq Step
  BY <1>1 DEF WorkflowProcess
<1> QED  BY <1>1, <1>2, DueStays DEF Honest

LEMMA ChildrenStay ==
  ASSUME Attempts, DueChildren, UNCHANGED <<unmet, reused>>, OnlyMoves
  PROVE  DueChildren'
BY DueStays, Nodes DEF OnlyMoves, DueChildren

\* The message a coordinator reads, and what each kind leads to.
LEMMA EnvironmentRows ==
  ASSUME Attempts, WorkflowRows, Environment, UNCHANGED <<unmet, reused>>
  PROVE  WorkflowRows' /\ UNCHANGED <<proc, attempt>>
<1> DEFINE M == WorkflowMessage
           m == Head(outbox[attempt])
<1>1. /\ outbox \in [Attempt -> Seq(M)] /\ <<>> \in Seq(M)
  BY DEF WorkflowRows
<1>2. ASSUME outbox' \in [Attempt -> Seq(M)], checkpoint' \in Step \cup {None},
             stored' \in [Outcome -> Nat],
             \A n \in Node : stored'[[of |-> "skipped", node |-> n]] > 0 => n \in unmet
      PROVE  WorkflowRows'
  <2>1. outbox' \in [Attempt -> Seq(M')]
    BY <1>2, EnvironmentAttempts, ReportsStay, MessagesStay DEF OnlyMoves
  <2> QED  BY <1>2, <2>1 DEF WorkflowRows
<1>3. ASSUME leased, outbox[attempt] # <<>>
      PROVE  /\ attempt \in Attempt /\ m \in M
             /\ [outbox EXCEPT ![attempt] = Tail(@)] \in [Attempt -> Seq(M)]
             /\ \A first \in Seq(M) :
                  [outbox EXCEPT ![attempt] = first \o Tail(@)] \in [Attempt -> Seq(M)]
  BY <1>1, <1>3, NewestAttempt, TakeMessage
<1>4. CASE Lose
  BY <1>2, <1>1, <1>4, NewestAttempt DEF Lose, WorkflowRows
<1>5. CASE PersistEvent
  <2>1. leased /\ outbox[attempt] # <<>> /\ m.kind = "events"
    BY <1>5 DEF PersistEvent, Persists
  <2>2. PICK n \in m.nodes :
          /\ stored' = [stored EXCEPT ![[of |-> m.of, node |-> n]] = @ + 1]
          /\ outbox' = [outbox EXCEPT ![attempt] = Events(m.of, m.nodes \ {n}) \o Tail(@)]
    BY <1>5 DEF PersistEvent
  <2>3. /\ m.of \in {"completed", "failed", "skipped"} /\ n \in Step
        /\ m.of = "skipped" => n \in unmet
        /\ [kind |-> "events", of |-> m.of, nodes |-> m.nodes \ {n}] \in M
    BY <1>3, <2>1, <2>2 DEF WorkflowMessage, WorkflowRows
  <2>4. outbox' \in [Attempt -> Seq(M)]
    BY <1>3, <2>1, <2>2, <2>3, EventMessages
  <2>5. /\ stored' \in [Outcome -> Nat]
        /\ \A k \in Node : stored'[[of |-> "skipped", node |-> k]] > 0 => k \in unmet
    <3> DEFINE o == [of |-> m.of, node |-> n]
    <3>1. o \in Outcome  BY <2>3, Nodes DEF Outcome
    <3>2. stored' = [stored EXCEPT ![o] = stored[o] + 1] /\ stored \in [Outcome -> Nat]
      BY <2>2 DEF WorkflowRows
    <3>3. stored' \in [Outcome -> Nat]  BY <3>1, <3>2
    <3>4. ASSUME NEW k \in Node, stored'[[of |-> "skipped", node |-> k]] > 0
          PROVE  k \in unmet
      <4>1. [of |-> "skipped", node |-> k] \in Outcome  BY DEF Outcome
      <4>2. CASE [of |-> "skipped", node |-> k] = o  BY <2>3, <4>2
      <4>3. CASE [of |-> "skipped", node |-> k] # o
        BY <3>1, <3>2, <3>4, <4>1, <4>3 DEF WorkflowRows
      <4> QED  BY <4>2, <4>3
    <3> QED  BY <3>3, <3>4
  <2>6. UNCHANGED <<checkpoint, proc, attempt>>  BY <1>5 DEF PersistEvent, rootVars
  <2> QED  BY <1>2, <2>4, <2>5, <2>6 DEF WorkflowRows
<1>6. CASE PersistSuspension
  <2>1. leased /\ outbox[attempt] # <<>> /\ m.kind \in {"suspend", "wait"}
    BY <1>6 DEF PersistSuspension, Persists
  <2>2. m.save \in Step \cup {None}  BY <1>3, <2>1 DEF WorkflowMessage
  <2> QED  BY <1>2, <1>3, <1>6, <2>1, <2>2 DEF PersistSuspension, Pop, WorkflowRows
<1>7. CASE PersistSuccess \/ PersistFailure \/ PersistCancelled
  <2>1. leased /\ outbox[attempt] # <<>> /\ Pop
    BY <1>7 DEF PersistSuccess, PersistFailure, PersistCancelled, Persists
  <2>2. outbox' \in [Attempt -> Seq(M)]  BY <1>3, <2>1 DEF Pop
  <2>3. UNCHANGED <<checkpoint, stored, proc, attempt>>
    BY <1>7 DEF PersistSuccess, PersistFailure, PersistCancelled
  <2> QED  BY <1>2, <2>2, <2>3 DEF WorkflowRows
<1>8. CASE UNCHANGED <<checkpoint, stored, outbox, proc, attempt>>
  BY <1>2, <1>8 DEF WorkflowRows
<1>9. CASE Cancel \/ Wake
  BY <1>8, <1>9 DEF Cancel, Wake, rest
<1>20. CASE \E n \in Node : ChildMoves(n)
  BY <1>8, <1>20 DEF ChildMoves, rootVars
<1> QED
  BY <1>4, <1>5, <1>6, <1>7, <1>9, <1>20 DEF Environment

\* A process that goes on, with children as they were or moved.
LEMMA ProcessGoesOn ==
  ASSUME Attempts, WorkflowProcesses, UNCHANGED <<unmet, reused>>,
         \A n \in Node : child[n] = "succeeded" => child'[n] = "succeeded",
         NEW a \in Attempt, NEW p \in WorkflowProcess, Becomes(a, p), Honest(p)',
         GoesOn(a)
  PROVE  WorkflowProcesses'
<1>1. /\ proc' \in [Attempt -> WorkflowProcess \cup {None}]
      /\ proc'[a] = p
      /\ \A b \in Attempt : b # a => proc'[b] = proc[b]
  BY DEF Becomes, WorkflowProcesses
<1>2. ASSUME NEW b \in Attempt, NEW q, q = proc'[b], q # None
      PROVE  Honest(q)'
  <2>1. CASE b = a  BY <1>1, <1>2, <2>1
  <2>2. CASE b # a
    <3>1. q \in WorkflowProcess /\ Honest(q)
      BY <1>1, <1>2, <2>2 DEF WorkflowProcesses
    <3>2. q.results \subseteq Step /\ q.got \subseteq Step /\ q.todo \subseteq Step
      BY <3>1 DEF WorkflowProcess
    <3> QED  BY <3>1, <3>2, DueStays DEF Honest
  <2> QED  BY <2>1, <2>2
<1>3. ASSUME NEW b \in Attempt, proc'[b] # None
      PROVE  Honest(proc[b])'
  <2>1. PICK q : q = proc'[b]  OBVIOUS
  <2>2. Honest(q)'  BY <1>2, <1>3, <2>1
  <2> QED  BY <2>1, <2>2 DEF Honest
<1>4. Begun'
  BY <1>1, NewProcess, NoWorkflowAssumption DEF WorkflowProcesses
<1> QED  BY <1>1, <1>3, <1>4 DEF WorkflowProcesses

LEMMA EndedWorkflow ==
  /\ WorkflowAt("over", None, FALSE) \in WorkflowProcess
  /\ Honest(WorkflowAt("over", None, FALSE))'
BY DEF WorkflowAt, WorkflowProcess, Honest

LEMMA WorkflowEnding ==
  ASSUME Attempts, WorkflowProcesses, UNCHANGED <<unmet, reused>>, OnlyMoves,
         NEW a \in Attempt, proc[a] # None, UNCHANGED rootVars, WorkflowEnds(a)
  PROVE  WorkflowProcesses'
BY EndedWorkflow, ProcessGoesOn DEF WorkflowEnds, OnlyMoves, GoesOn, rootVars

\* What a workflow's process puts into its queue.
LEMMA WorkflowMessages ==
  ASSUME WorkflowRows
  PROVE  /\ \A of \in {"completed", "failed"}, nodes \in SUBSET Step :
              Events(of, nodes) \in Seq(WorkflowMessage)
         /\ \A nodes \in SUBSET (Step \cap unmet) :
              Events("skipped", nodes) \in Seq(WorkflowMessage)
         /\ \A s \in Step : Suspend(s) \in Seq(WorkflowMessage)
         /\ \A nodes \in SUBSET Step : Wait(nodes, None) \in Seq(WorkflowMessage)
         /\ \A nodes \in SUBSET Step :
              AllSettled(nodes) => Succeed(nodes) \in Seq(WorkflowMessage)
         /\ Fail \in Seq(WorkflowMessage)
         /\ Stopped \in Seq(WorkflowMessage)
         /\ \A u, v \in Seq(WorkflowMessage) : u \o v \in Seq(WorkflowMessage)
<1> DEFINE M == WorkflowMessage
<1>1. ASSUME NEW of \in {"completed", "failed"}, NEW nodes \in SUBSET Step
      PROVE  Events(of, nodes) \in Seq(M)
  <2>1. [kind |-> "events", of |-> of, nodes |-> nodes] \in M  BY DEF WorkflowMessage
  <2> QED  BY <2>1, EventMessages
<1>2. ASSUME NEW nodes \in SUBSET (Step \cap unmet)
      PROVE  Events("skipped", nodes) \in Seq(M)
  <2>1. [kind |-> "events", of |-> "skipped", nodes |-> nodes] \in M  BY DEF WorkflowMessage
  <2> QED  BY <2>1, EventMessages
<1>3. ASSUME NEW s \in Step PROVE Suspend(s) \in Seq(M)
  <2>1. [kind |-> "suspend", save |-> s] \in M  BY DEF WorkflowMessage
  <2> HIDE DEF M
  <2> QED  BY <2>1 DEF Suspend
<1>4. ASSUME NEW nodes \in SUBSET Step PROVE Wait(nodes, None) \in Seq(M)
  <2>1. [kind |-> "wait", nodes |-> nodes, save |-> None] \in M  BY DEF WorkflowMessage
  <2> HIDE DEF M
  <2> QED  BY <2>1 DEF Wait
<1>5. ASSUME NEW nodes \in SUBSET Step, AllSettled(nodes) PROVE Succeed(nodes) \in Seq(M)
  <2>1. [kind |-> "succeeded", reported |-> nodes] \in M  BY <1>5 DEF WorkflowMessage
  <2> HIDE DEF M
  <2> QED  BY <2>1 DEF Succeed
<1>6. Fail \in Seq(M) /\ Stopped \in Seq(M)
  <2>1. [kind |-> "failed"] \in M /\ [kind |-> "cancelled"] \in M  BY DEF WorkflowMessage
  <2> QED  BY <2>1 DEF Fail, Stopped
<1>7. \A u, v \in Seq(M) : u \o v \in Seq(M)  OBVIOUS
<1> HIDE DEF M
<1> QED  BY <1>1, <1>2, <1>3, <1>4, <1>5, <1>6, <1>7 DEF M

LEMMA WorkflowRowsStay ==
  ASSUME WorkflowRows, UNCHANGED <<rootVars, stored, unmet, reused>>,
         \A n \in Node : child[n] = "succeeded" => child'[n] = "succeeded",
         \/ UNCHANGED outbox
         \/ \E a \in Attempt : \E messages \in Seq(WorkflowMessage) : Puts(a, messages)
  PROVE  WorkflowRows'
<1>1. outbox \in [Attempt -> Seq(WorkflowMessage)]  BY DEF WorkflowRows
<1>2. outbox' \in [Attempt -> Seq(WorkflowMessage)]  BY <1>1, PutMessages
<1>3. outbox' \in [Attempt -> Seq(WorkflowMessage')]  BY <1>2, ReportsStay, MessagesStay
<1> QED  BY <1>3 DEF WorkflowRows, rootVars

\* What a step of a workflow's process starts from, and what it has to keep.
LEMMA ProcessFacts ==
  ASSUME WorkflowInv, executor = "workflow-dag", NEW a \in Attempt, proc[a] # None
  PROVE  /\ Attempts /\ WorkflowRows /\ WorkflowProcesses /\ DueChildren
         /\ proc[a] \in WorkflowProcess /\ Honest(proc[a])
         /\ proc[a].results \subseteq Step /\ proc[a].got \subseteq Step
         /\ proc[a].todo \subseteq Step /\ proc[a].layer \subseteq Step
         /\ proc[a].active \subseteq Step /\ proc[a].saved \in Step \cup {None}
BY DEF WorkflowInv, WorkflowProcesses, WorkflowProcess

\* Steps that leave the children alone or move them.
LEMMA MovingStep ==
  ASSUME Attempts, WorkflowRows, DueChildren, OnlyMoves,
         UNCHANGED <<rootVars, work, stored, unmet, reused>>, WorkflowProcesses',
         \/ UNCHANGED outbox
         \/ \E a \in Attempt : \E messages \in Seq(WorkflowMessage) : Puts(a, messages)
  PROVE  WorkflowInv'
<1>1. Attempts'  BY StepAttempts DEF OnlyMoves, Attempts
<1>2. WorkflowRows'  BY WorkflowRowsStay DEF OnlyMoves
<1>3. DueChildren'  BY ChildrenStay
<1> QED  BY <1>1, <1>2, <1>3 DEF WorkflowInv

LEMMA ForwardResumeStep ==
  ASSUME WorkflowInv, executor = "workflow-dag", NEW a \in Attempt, proc[a] # None,
         ForwardResume(a)
  PROVE  WorkflowInv'
<1>1. /\ Attempts /\ WorkflowRows /\ WorkflowProcesses /\ DueChildren
      /\ proc[a] \in WorkflowProcess /\ Honest(proc[a])
  BY ProcessFacts
<1>2. OnlyMoves
  BY <1>1, ForwardMoves, KeptChildren DEF ForwardResume
<1>3. PICK q : q = [proc[a] EXCEPT !.pc = "read"]  OBVIOUS
<1>4. q \in WorkflowProcess /\ Honest(q)
  BY <1>1, <1>3 DEF WorkflowProcess, Honest, ForwardResume
<1>5. UNCHANGED <<rootVars, work, stored, outbox, unmet, reused>> /\ Becomes(a, q)
  BY <1>3 DEF ForwardResume
<1>6. Honest(q)'
  <2>1. q.results \subseteq Step /\ q.got \subseteq Step /\ q.todo \subseteq Step
    BY <1>4 DEF WorkflowProcess
  <2> QED  BY <1>2, <1>4, <1>5, <2>1, DueStays DEF Honest, OnlyMoves
<1>7. WorkflowProcesses'  BY <1>1, <1>2, <1>4, <1>5, <1>6, ProcessGoesOn DEF OnlyMoves, GoesOn, rootVars
<1> QED  BY <1>1, <1>2, <1>5, <1>7, MovingStep

LEMMA ReadRunsStep ==
  ASSUME WorkflowInv, executor = "workflow-dag", NEW a \in Attempt, proc[a] # None,
         ReadRuns(a)
  PROVE  WorkflowInv'
<1>1. /\ Attempts /\ WorkflowRows /\ WorkflowProcesses /\ DueChildren
      /\ proc[a] \in WorkflowProcess /\ Honest(proc[a])
  BY ProcessFacts
<1>2. UNCHANGED <<rootVars, child, work, stored, unmet, reused>> /\ OnlyMoves
  BY <1>1, KeptChildren DEF ReadRuns
<1> DEFINE done == Children(Step, {"succeeded"})
           known == done \cup proc[a].results
<1>3. /\ done \subseteq Step /\ Unannounced(done) \subseteq Step /\ Unannounced(known) \subseteq Step
      /\ proc[a].pc = "read"
  BY <1>1 DEF Unannounced, Children, WorkflowProcess, ReadRuns
<1>4. CASE Children(Step, Unsuccessful) # {}
  <2>1. PICK n \in Children(Step, Unsuccessful), before \in SUBSET Unannounced(done) :
          Puts(a, Events("completed", before) \o Events("failed", {n}) \o Fail)
    BY <1>4 DEF ReadRuns
  <2>2. n \in Step /\ before \in SUBSET Step  BY <1>3 DEF Children
  <2>3. Events("completed", before) \o Events("failed", {n}) \o Fail \in Seq(WorkflowMessage)
    BY <1>1, <2>2, WorkflowMessages
  <2>4. WorkflowProcesses'
    BY <1>1, <1>2, <1>4, WorkflowEnding DEF ReadRuns
  <2> QED  BY <1>1, <1>2, <2>1, <2>3, <2>4, MovingStep
<1>5. CASE Children(Step, Unsuccessful) = {}
  <2>1. Puts(a, Events("completed", Unannounced(known)))  BY <1>5 DEF ReadRuns
  <2>2. Events("completed", Unannounced(known)) \in Seq(WorkflowMessage)
    BY <1>1, <1>3, WorkflowMessages
  <2> DEFINE found == proc[a].results \cup done \cup Emitted("skipped", Step)
  <2>3. PICK q : q = [proc[a] EXCEPT !.pc = "layer", !.results = found]  OBVIOUS
  <2>4. /\ found \subseteq Step /\ \A s \in found : Settled(s)
        /\ reused \subseteq found
    BY <1>1, <1>3, Nodes DEF Children, Emitted, WorkflowRows, WorkflowProcess, Honest, Settled
  <2> HIDE DEF found
  <2>5. q \in WorkflowProcess /\ Honest(q)
    BY <1>1, <2>3, <2>4 DEF WorkflowProcess, Honest
  <2>6. Becomes(a, q)  BY <1>5, <2>3 DEF ReadRuns, found
  <2>7. Honest(q)'  BY <1>2, <2>5 DEF Honest, Settled, Due
  <2>8. WorkflowProcesses'
    BY <1>1, <1>2, <2>5, <2>6, <2>7, ProcessGoesOn DEF GoesOn, rootVars
  <2> QED  BY <1>1, <1>2, <2>1, <2>2, <2>8, MovingStep
<1> QED  BY <1>4, <1>5

LEMMA LayerStep ==
  ASSUME WorkflowInv, executor = "workflow-dag", NEW a \in Attempt, proc[a] # None,
         Layer(a)
  PROVE  WorkflowInv'
<1> DEFINE p == proc[a]
           skipped == Ready(p.results) \cap unmet
           run == FirstOf(Ready(p.results) \ unmet, Parallelism)
<1>1. /\ Attempts /\ WorkflowRows /\ WorkflowProcesses /\ DueChildren
      /\ p \in WorkflowProcess /\ Honest(p) /\ p.results \subseteq Step
      /\ reused \subseteq p.results
  BY ProcessFacts DEF Layer, Honest
<1>2. UNCHANGED <<rootVars, child, work, stored, unmet, reused>> /\ OnlyMoves
  BY <1>1, KeptChildren DEF Layer
<1>3. CASE p.results = Step
  <2>1. Puts(a, Succeed(p.results)) /\ WorkflowEnds(a)  BY <1>3 DEF Layer
  <2>2. Succeed(p.results) \in Seq(WorkflowMessage)
    BY <1>1, WorkflowMessages DEF Honest, AllSettled
  <2> QED  BY <1>1, <1>2, <2>1, <2>2, WorkflowEnding, MovingStep
<1>4. CASE p.results # Step /\ Ready(p.results) = {}
  <2>1. Puts(a, Fail) /\ WorkflowEnds(a)  BY <1>4 DEF Layer
  <2>2. Fail \in Seq(WorkflowMessage)  BY <1>1, WorkflowMessages
  <2> QED  BY <1>1, <1>2, <2>1, <2>2, WorkflowEnding, MovingStep
<1>5. CASE p.results # Step /\ Ready(p.results) # {}
  <2>1. Puts(a, Events("skipped", skipped))  BY <1>5 DEF Layer
  <2>2. skipped \subseteq Step \cap unmet  BY DEF Ready
  <2>3. Events("skipped", skipped) \in Seq(WorkflowMessage)
    BY <1>1, <2>2, WorkflowMessages
  <2>4. PICK q : q = [p EXCEPT !.pc = "run", !.results = p.results \cup skipped,
                               !.todo = run, !.layer = run, !.got = {}, !.active = {}]
    OBVIOUS
  <2>5. run \subseteq Step /\ \A s \in run : Due(s)
    BY <1>1 DEF FirstOf, Ready, Honest, Due
  <2>6. p.results \cup skipped \subseteq Step /\ \A s \in p.results \cup skipped : Settled(s)
    BY <1>1, <2>2 DEF Honest, Settled
  <2>7. Becomes(a, q)  BY <1>5, <2>4 DEF Layer
  <2> HIDE DEF run, skipped
  <2>8. q \in WorkflowProcess /\ Honest(q)
    BY <1>1, <2>4, <2>5, <2>6 DEF WorkflowProcess, Honest
  <2>9. Honest(q)'  BY <1>2, <2>8 DEF Honest, Settled, Due
  <2>10. WorkflowProcesses'
    BY <1>1, <1>2, <2>7, <2>8, <2>9, ProcessGoesOn DEF GoesOn, rootVars
  <2> QED  BY <1>1, <1>2, <2>1, <2>3, <2>10, MovingStep
<1> QED  BY <1>3, <1>4, <1>5

\* The child Run of a step is created when the step is due.
LEMMA CreateStepStep ==
  ASSUME WorkflowInv, executor = "workflow-dag", NEW a \in Attempt, proc[a] # None,
         CreateStep(a)
  PROVE  WorkflowInv'
<1> DEFINE p == proc[a]
<1>1. /\ Attempts /\ WorkflowRows /\ WorkflowProcesses /\ DueChildren
      /\ p \in WorkflowProcess /\ Honest(p) /\ p.todo \subseteq Step
  BY ProcessFacts
<1>2. PICK s \in p.todo : CreateOrLoad(s, None) /\ Becomes(a, [p EXCEPT !.todo = @ \ {s}])
  BY DEF CreateStep
<1>3. UNCHANGED <<rootVars, stored, outbox, unmet, reused>>  BY DEF CreateStep
<1>4. s \in Step /\ s \in Node /\ Due(s)  BY <1>1, <1>2, Nodes DEF Honest
<1>5. /\ child' \in [Node -> ChildStatus]
      /\ work' \in [Node -> Target \cup {None}]
      /\ \A m \in Node : child[m] # "absent" \/ m # s => child'[m] = child[m]
  BY <1>1, <1>2, Created
<1>6. \A n \in Node : child[n] = "succeeded" => child'[n] = "succeeded"  BY <1>5
<1>7. Attempts'  BY <1>1, <1>3, <1>5, StepAttempts
<1>8. WorkflowRows'  BY <1>1, <1>3, <1>6, WorkflowRowsStay
<1>9. DueChildren'
  <2>1. \A n \in TaskNode : child'[n] = "absent"
    <3>1. \A n \in TaskNode : n \in Node /\ n # s  BY <1>4, Nodes
    <3> QED  BY <1>1, <1>5, <3>1 DEF DueChildren
  <2>2. ASSUME NEW t \in Step, child'[t] # "absent" PROVE Due(t)'
    <3>1. Due(t)
      <4>1. CASE t = s  BY <1>4, <4>1
      <4>2. CASE t # s  BY <1>1, <1>5, <2>2, <4>2, Nodes DEF DueChildren
      <4> QED  BY <4>1, <4>2
    <3> QED  BY <1>3, <1>6, <3>1, DueStays
  <2> QED  BY <2>1, <2>2 DEF DueChildren
<1>10. WorkflowProcesses'
  <2>1. PICK q : q = [p EXCEPT !.todo = @ \ {s}]  OBVIOUS
  <2>2. q \in WorkflowProcess /\ Honest(q)
    BY <1>1, <2>1 DEF WorkflowProcess, Honest, CreateStep
  <2>3. q.results \subseteq Step /\ q.got \subseteq Step /\ q.todo \subseteq Step
    BY <2>2 DEF WorkflowProcess
  <2>4. Honest(q)'  BY <1>3, <1>6, <2>2, <2>3, DueStays DEF Honest
  <2> QED  BY <1>1, <1>2, <1>3, <1>6, <2>1, <2>2, <2>4, ProcessGoesOn DEF GoesOn, rootVars
<1> QED  BY <1>7, <1>8, <1>9, <1>10 DEF WorkflowInv

LEMMA StopWaitingStep ==
  ASSUME WorkflowInv, executor = "workflow-dag", NEW a \in Attempt, proc[a] # None,
         StopWaiting(a)
  PROVE  WorkflowInv'
<1>1. Attempts /\ WorkflowRows /\ WorkflowProcesses /\ DueChildren  BY ProcessFacts
<1>2. /\ UNCHANGED <<rootVars, work, stored, unmet, reused>>
      /\ Puts(a, Stopped) /\ WorkflowEnds(a)
  BY DEF StopWaiting
<1>3. OnlyMoves
  <2>1. CASE UNCHANGED child  BY <1>1, <2>1, KeptChildren
  <2>2. ASSUME NEW stops \in SUBSET Children(Step, {"active"}),
               child' = [n \in Node |->
                  IF n \in stops \cup Children(Step, {"waiting"}) THEN "cancelled"
                                                                 ELSE child[n]]
        PROVE  OnlyMoves
    BY <1>1, <2>2 DEF Children, OnlyMoves, Attempts, ChildStatus
  <2> QED  BY <2>1, <2>2 DEF StopWaiting
<1>4. Stopped \in Seq(WorkflowMessage)  BY <1>1, WorkflowMessages
<1> QED  BY <1>1, <1>2, <1>3, <1>4, WorkflowEnding, MovingStep

LEMMA CollectStep ==
  ASSUME WorkflowInv, executor = "workflow-dag", NEW a \in Attempt, proc[a] # None,
         Collect(a)
  PROVE  WorkflowInv'
<1> DEFINE p == proc[a]
<1>1. /\ Attempts /\ WorkflowRows /\ WorkflowProcesses /\ DueChildren
      /\ p \in WorkflowProcess /\ Honest(p) /\ p.layer \subseteq Step
      /\ reused \subseteq p.results
  BY ProcessFacts DEF Collect, Collecting, Honest
<1>2. UNCHANGED <<rootVars, child, work, stored, unmet, reused>> /\ OnlyMoves
  BY <1>1, KeptChildren DEF Collect
<1> DEFINE later(s) == [p EXCEPT !.pc = "collect", !.layer = @ \ {s}]
<1>3. PICK s \in p.layer :
        \/ /\ \/ Puts(a, Suspend(s))
              \/ Puts(a, Events("failed", {s}) \o Fail)
           /\ WorkflowEnds(a)
        \/ /\ child[s] = "succeeded" /\ UNCHANGED outbox
           /\ Becomes(a, [later(s) EXCEPT !.got = @ \cup {s}])
        \/ /\ UNCHANGED outbox
           /\ Becomes(a, [later(s) EXCEPT !.active = @ \cup {s}])
  BY DEF Collect
<1>4. CASE WorkflowEnds(a) /\ (Puts(a, Suspend(s)) \/ Puts(a, Events("failed", {s}) \o Fail))
  <2>1. Suspend(s) \in Seq(WorkflowMessage) /\ Events("failed", {s}) \o Fail \in Seq(WorkflowMessage)
    BY <1>1, WorkflowMessages
  <2> QED  BY <1>1, <1>2, <1>4, <2>1, WorkflowEnding, MovingStep
<1>5. ASSUME NEW q \in WorkflowProcess, Becomes(a, q), Honest(q), UNCHANGED outbox
      PROVE  WorkflowInv'
  <2>1. Honest(q)'  BY <1>2, <1>5 DEF Honest, Settled, Due
  <2>2. WorkflowProcesses'
    BY <1>1, <1>2, <1>5, <2>1, ProcessGoesOn DEF GoesOn, rootVars
  <2> QED  BY <1>1, <1>2, <1>5, <2>2, MovingStep
<1>6. CASE child[s] = "succeeded" /\ UNCHANGED outbox
           /\ Becomes(a, [later(s) EXCEPT !.got = @ \cup {s}])
  <2>0. PICK r : r = later(s)  OBVIOUS
  <2>1. PICK q : q = [r EXCEPT !.got = @ \cup {s}]  OBVIOUS
  <2>3. /\ r \in WorkflowProcess /\ s \in Step
        /\ r.results = p.results /\ r.got = p.got /\ r.todo = p.todo /\ r.pc = "collect"
    BY <1>1, <2>0 DEF WorkflowProcess
  <2>2. q \in WorkflowProcess /\ Honest(q)
    BY <1>1, <1>6, <2>1, <2>3 DEF WorkflowProcess, Honest, Settled
  <2> QED  BY <1>5, <1>6, <2>0, <2>1, <2>2
<1>7. CASE UNCHANGED outbox /\ Becomes(a, [later(s) EXCEPT !.active = @ \cup {s}])
  <2>0. PICK r : r = later(s)  OBVIOUS
  <2>1. PICK q : q = [r EXCEPT !.active = @ \cup {s}]  OBVIOUS
  <2>3. /\ r \in WorkflowProcess /\ s \in Step
        /\ r.results = p.results /\ r.got = p.got /\ r.todo = p.todo /\ r.pc = "collect"
    BY <1>1, <2>0 DEF WorkflowProcess
  <2>2. q \in WorkflowProcess /\ Honest(q)
    BY <1>1, <2>1, <2>3 DEF WorkflowProcess, Honest
  <2> QED  BY <1>5, <1>7, <2>0, <2>1, <2>2
<1> QED  BY <1>3, <1>4, <1>6, <1>7

LEMMA EndLayerStep ==
  ASSUME WorkflowInv, executor = "workflow-dag", NEW a \in Attempt, proc[a] # None,
         EndLayer(a)
  PROVE  WorkflowInv'
<1> DEFINE p == proc[a]
<1>1. /\ Attempts /\ WorkflowRows /\ WorkflowProcesses /\ DueChildren
      /\ p \in WorkflowProcess /\ Honest(p)
      /\ p.results \subseteq Step /\ p.got \subseteq Step /\ p.active \subseteq Step
      /\ reused \subseteq p.results
  BY ProcessFacts DEF EndLayer, Collecting, Honest
<1>2. UNCHANGED <<rootVars, child, work, stored, unmet, reused>> /\ OnlyMoves
  BY <1>1, KeptChildren DEF EndLayer
<1>3. CASE p.active # {}
  <2>1. Puts(a, Wait(p.active, None)) /\ WorkflowEnds(a)  BY <1>3 DEF EndLayer
  <2>2. Wait(p.active, None) \in Seq(WorkflowMessage)  BY <1>1, WorkflowMessages
  <2> QED  BY <1>1, <1>2, <2>1, <2>2, WorkflowEnding, MovingStep
<1>4. CASE p.active = {}
  <2>1. Puts(a, Events("completed", p.got))  BY <1>4 DEF EndLayer
  <2>2. Events("completed", p.got) \in Seq(WorkflowMessage)  BY <1>1, WorkflowMessages
  <2>3. PICK q : q = [p EXCEPT !.pc = "layer", !.results = @ \cup p.got]  OBVIOUS
  <2>4. Becomes(a, q)  BY <1>4, <2>3 DEF EndLayer
  <2>5. q \in WorkflowProcess /\ Honest(q)
    BY <1>1, <2>3 DEF WorkflowProcess, Honest
  <2>6. Honest(q)'  BY <1>2, <2>5 DEF Honest, Settled, Due
  <2>7. WorkflowProcesses'
    BY <1>1, <1>2, <2>4, <2>5, <2>6, ProcessGoesOn DEF GoesOn, rootVars
  <2> QED  BY <1>1, <1>2, <2>1, <2>2, <2>7, MovingStep
<1> QED  BY <1>3, <1>4

LEMMA WorkflowClaim ==
  ASSUME WorkflowInv, executor = "workflow-dag", UNCHANGED <<unmet, reused>>, Claim(WorkflowBegins)
  PROVE  WorkflowInv'
<1>1. /\ Attempts /\ WorkflowRows /\ WorkflowProcesses /\ DueChildren
      /\ attempt + 1 \in Attempt
  BY NewestAttempt DEF WorkflowInv, Claim
<1>2. Attempts' /\ OnlyMoves  BY <1>1, ClaimAttempts
<1>3. WorkflowRows'
  <2>1. UNCHANGED outbox /\ outbox \in [Attempt -> Seq(WorkflowMessage)]
    BY <1>1 DEF Claim, WorkflowRows
  <2>2. outbox' \in [Attempt -> Seq(WorkflowMessage')]
    BY <1>2, <2>1, ReportsStay, MessagesStay DEF OnlyMoves
  <2> QED  BY <1>1, <2>2 DEF Claim, WorkflowRows
<1>4. PICK q : q = WorkflowBegins  OBVIOUS
<1>5. q \in WorkflowProcess /\ Honest(q)'
  <2>1. checkpoint \in Step \cup {None} /\ (command # None) \in BOOLEAN /\ reused \in SUBSET Step
    BY <1>1 DEF WorkflowRows
  <2>2. q \in WorkflowProcess /\ q.results = reused /\ q.got = {} /\ q.todo = {}
    BY <1>4, <2>1 DEF WorkflowBegins, WorkflowAt, WorkflowProcess
  <2> QED  BY <2>2 DEF Honest, Settled
<1>6. Becomes(attempt + 1, q)  BY <1>4 DEF Claim, Becomes
<1>7. WorkflowProcesses'
  BY <1>1, <1>2, <1>5, <1>6, ProcessGoesOn DEF OnlyMoves, Claim, GoesOn
<1>8. DueChildren'  BY <1>1, <1>2, ChildrenStay
<1> QED  BY <1>2, <1>3, <1>7, <1>8 DEF WorkflowInv

LEMMA WorkflowAnswer ==
  ASSUME WorkflowInv, executor = "workflow-dag", UNCHANGED <<unmet, reused>>, NEW c, Answer(c)
  PROVE  WorkflowInv'
<1>1. Attempts /\ WorkflowRows /\ WorkflowProcesses /\ DueChildren  BY DEF WorkflowInv
<1>2. Attempts' /\ OnlyMoves  BY <1>1, AnswerAttempts
<1>3. WorkflowRows' /\ UNCHANGED <<proc, attempt>>
  <2>1. UNCHANGED outbox /\ outbox \in [Attempt -> Seq(WorkflowMessage)]
    BY <1>1 DEF Answer, rest, WorkflowRows
  <2>2. outbox' \in [Attempt -> Seq(WorkflowMessage')]
    BY <1>2, <2>1, ReportsStay, MessagesStay DEF OnlyMoves
  <2> QED  BY <1>1, <2>2 DEF Answer, rest, WorkflowRows
<1>4. WorkflowProcesses' /\ DueChildren'
  BY <1>1, <1>2, <1>3, ProcessesStay, ChildrenStay DEF OnlyMoves
<1> QED  BY <1>2, <1>3, <1>4 DEF WorkflowInv

LEMMA WorkflowInvStep ==
  ASSUME WorkflowInv, [Next]_vars
  PROVE  executor # "supervisor" => WorkflowInv'
<1> SUFFICES ASSUME executor # "supervisor" PROVE WorkflowInv'
  OBVIOUS
<1>1. executor = "workflow-dag" /\ Attempts  BY DEF WorkflowInv, Attempts, Executor
<1>2. CASE NextWorkflow
  BY <1>1, <1>2, ForwardResumeStep, ReadRunsStep, LayerStep, CreateStepStep,
     StopWaitingStep, CollectStep, EndLayerStep, WorkflowClaim, WorkflowAnswer
     DEF NextWorkflow, WorkflowStep
<1>3. CASE Environment /\ UNCHANGED <<unmet, reused>>
  <2>1. WorkflowRows /\ WorkflowProcesses /\ DueChildren  BY <1>1 DEF WorkflowInv
  <2>2. Attempts' /\ OnlyMoves  BY <1>1, <1>3, EnvironmentAttempts
  <2>3. WorkflowRows' /\ UNCHANGED <<proc, attempt>>  BY <1>1, <1>3, <2>1, EnvironmentRows
  <2>4. WorkflowProcesses' /\ DueChildren'
    BY <1>1, <1>3, <2>1, <2>2, <2>3, ProcessesStay, ChildrenStay DEF OnlyMoves
  <2> QED  BY <2>2, <2>3, <2>4 DEF WorkflowInv
<1>4. CASE UNCHANGED vars
  <2>1. WorkflowRows /\ WorkflowProcesses /\ DueChildren  BY <1>1 DEF WorkflowInv
  <2>2. UNCHANGED <<rootVars, rest, unmet, reused>>  BY <1>4 DEF vars
  <2>3. OnlyMoves /\ Attempts'
    BY <1>1, <2>2, KeptChildren DEF rest, rootVars, Attempts
  <2>4. WorkflowRows' /\ WorkflowProcesses' /\ DueChildren'
    BY <1>1, <2>1, <2>2, <2>3, WorkflowRowsStay, ProcessesStay, ChildrenStay
       DEF rest, rootVars, OnlyMoves
  <2> QED  BY <2>3, <2>4 DEF WorkflowInv
<1> QED  BY <1>1, <1>2, <1>3, <1>4 DEF Next, NextSupervisor

-----------------------------------------------------------------------------
(* Supervisors: what a process may run without asking, what a checkpoint    *)
(* allows the next attempt, and what the messages on their way will make of *)
(* it are within what the user has approved.                                *)

PlanShape == [version : Nat, tasks : Assignment]
SaveShape == [plan : PlanShape, replans : Nat, targets : SUBSET Target,
              asker : TaskKey \cup {None}]
ProcessShape ==
  [pc : {"begin", "forward", "read", "ask", "decide", "create", "over"},
   save : SaveShape \cup {None}, told : Commands \cup {None},
   plan : PlanShape \cup {None}, replans : Nat, targets : SUBSET Target,
   done : SUBSET Task, failed : SUBSET Task,
   todo : SUBSET Task, active : SUBSET TaskKey]

Allowed(targets) == ignored \/ targets \subseteq approved
Approved(plan)   == Allowed(Members(plan))

\* A question of a child comes from a plan that is carried out.
GoodSave(s) ==
  /\ Allowed(s.targets)
  /\ s.asker # None => Approved(s.plan)

SupervisorMessage ==
  [kind : {"events"}, of : {"completed", "failed"}, nodes : SUBSET TaskKey]
    \cup [kind : {"suspend"}, save : {s \in SaveShape : GoodSave(s)}]
    \cup [kind : {"wait"}, nodes : SUBSET TaskKey,
          save : {s \in SaveShape : GoodSave(s) /\ Approved(s.plan)}]
    \cup [kind : {"succeeded"}, reported : SUBSET TaskKey]
    \cup [kind : {"failed"}]

Entitled(p) ==
  /\ Allowed(p.targets)
  /\ p.pc \notin {"begin", "over"} => p.plan \in PlanShape /\ Approved(p.plan)
  /\ p.pc = "begin" /\ p.plan # None /\ p.told # "revise_plan" => Approved(p.plan)
  /\ p.pc = "create" => p.todo \subseteq DOMAIN p.plan.tasks

SupervisorRows ==
  /\ ignored \in BOOLEAN
  /\ checkpoint \in SaveShape \cup {None}
  /\ checkpoint # None => GoodSave(checkpoint)
  /\ command \in Commands \cup {None}
  /\ outbox \in [Attempt -> Seq(SupervisorMessage)]

SupervisorProcesses ==
  /\ proc \in [Attempt -> ProcessShape \cup {None}]
  /\ \A a \in Attempt : proc[a] # None => Entitled(proc[a])

\* An attempt that begins with the checkpoint may carry its plan out, unless it
\* is told to revise it.
Heeded ==
  (/\ status \in {"queued", "running", "waiting_children"}
   /\ checkpoint # None /\ command # "revise_plan"
   /\ ~(leased /\ proc[attempt].told = "revise_plan"))
  => Approved(checkpoint.plan)

ApprovedChildren ==
  /\ \A s \in Step : child[s] = "absent"
  /\ \A n \in TaskNode : child[n] # "absent" => ignored \/ work[n] \in approved

SupervisorInv ==
  Attempts /\ (executor = "supervisor" =>
                 SupervisorRows /\ SupervisorProcesses /\ Heeded /\ ApprovedChildren)

\* What has been approved stays approved.
Grows == approved \subseteq approved' /\ (ignored => ignored')

LEMMA ApprovalStays ==
  ASSUME Grows
  PROVE  /\ \A plan : Approved(plan) => Approved(plan)'
         /\ \A s : GoodSave(s) => GoodSave(s)'
         /\ \A p : Entitled(p) => Entitled(p)'
         /\ SupervisorMessage \subseteq SupervisorMessage'
<1>1. \A plan : Approved(plan) => Approved(plan)'  BY DEF Grows, Allowed, Approved, Members
<1>2. \A s : GoodSave(s) => GoodSave(s)'  BY <1>1 DEF Grows, GoodSave, Allowed
<1>3. \A p : Entitled(p) => Entitled(p)'  BY <1>1 DEF Grows, Entitled, Allowed
<1>4. SupervisorMessage \subseteq SupervisorMessage'
  <2>1. {s \in SaveShape : GoodSave(s)} \subseteq {s \in SaveShape : GoodSave(s)'}
    BY <1>2
  <2>2. {s \in SaveShape : GoodSave(s) /\ Approved(s.plan)}
          \subseteq {s \in SaveShape : GoodSave(s)' /\ Approved(s.plan)'}
    BY <1>1, <1>2
  <2> QED  BY <2>1, <2>2 DEF SupervisorMessage
<1> QED  BY <1>1, <1>2, <1>3, <1>4

LEMMA EntitledStay ==
  ASSUME SupervisorProcesses, UNCHANGED proc, Grows
  PROVE  SupervisorProcesses'
<1> SUFFICES ASSUME NEW a \in Attempt, proc[a] # None
             PROVE  Entitled(proc[a])'
  BY DEF SupervisorProcesses
<1>1. PICK p : p = proc[a]  OBVIOUS
<1>2. Entitled(p)'  BY <1>1, ApprovalStays DEF SupervisorProcesses
<1>3. proc'[a] = p  BY <1>1
<1> QED  BY <1>2, <1>3 DEF Entitled, Allowed

LEMMA ApprovedStay ==
  ASSUME Attempts, ApprovedChildren, OnlyMoves, UNCHANGED work, Grows
  PROVE  ApprovedChildren'
BY Nodes DEF OnlyMoves, ApprovedChildren, Grows

\* A coordinator reads a message; an attempt that ends without one that counts
\* has made no revision.
LEMMA SupervisorEnvironment ==
  ASSUME SupervisorInv, executor = "supervisor", Environment, UNCHANGED approved, Forgets
  PROVE  SupervisorInv'
<1> DEFINE M == SupervisorMessage
           m == Head(outbox[attempt])
           told == proc[attempt].told
<1>1. /\ Attempts /\ SupervisorRows /\ SupervisorProcesses /\ Heeded /\ ApprovedChildren
      /\ outbox \in [Attempt -> Seq(M)] /\ <<>> \in Seq(M)
  BY DEF SupervisorInv, SupervisorRows
<1>2. Attempts' /\ OnlyMoves /\ UNCHANGED work  BY <1>1, EnvironmentAttempts
<1>3. /\ Grows /\ ignored' \in BOOLEAN
      /\ leased /\ ~leased' /\ told = "revise_plan" /\ checkpoint' = checkpoint => ignored'
  BY <1>1 DEF Forgets, Grows, SupervisorRows
<1>4. UNCHANGED proc
  BY DEF Environment, Lose, PersistEvent, PersistSuspension, PersistSuccess,
         PersistFailure, PersistCancelled, Cancel, ChildMoves, Wake, rest
<1>5. SupervisorProcesses' /\ ApprovedChildren'
  BY <1>1, <1>2, <1>3, <1>4, EntitledStay, ApprovedStay
<1>6. ASSUME outbox' \in [Attempt -> Seq(M)], checkpoint' = checkpoint, command' = command
      PROVE  SupervisorRows'
  <2>1. outbox' \in [Attempt -> Seq(M')]
    BY <1>3, <1>6, ApprovalStays, MessagesStay
  <2> QED  BY <1>1, <1>3, <1>6, <2>1, ApprovalStays DEF SupervisorRows, GoodSave, Allowed, Approved, Members, Grows
<1>7. ASSUME leased, outbox[attempt] # <<>>
      PROVE  /\ attempt \in Attempt /\ m \in M
             /\ [outbox EXCEPT ![attempt] = Tail(@)] \in [Attempt -> Seq(M)]
             /\ \A first \in Seq(M) :
                  [outbox EXCEPT ![attempt] = first \o Tail(@)] \in [Attempt -> Seq(M)]
  BY <1>1, <1>7, NewestAttempt, TakeMessage
\* An attempt that ends otherwise than by a suspension.
<1>8. ASSUME leased, ~leased', UNCHANGED <<checkpoint, command>>
      PROVE  Heeded'
  <2>1. CASE told = "revise_plan"  BY <1>3, <1>8, <2>1 DEF Heeded, Allowed, Approved
  <2>2. CASE told # "revise_plan" /\ status = "running"
    BY <1>1, <1>3, <1>8, <2>2 DEF Heeded, Allowed, Approved, Members, Grows
  <2>3. CASE status # "running"
    <3>1. status = "cancelling"  BY <1>1, <1>8, <2>3 DEF Attempts
    <3>2. status' \notin {"queued", "running", "waiting_children"}
      BY <1>8, <3>1 DEF Environment, Lose, Ended, PersistEvent, PersistSuspension,
         PersistSuccess, PersistFailure, PersistCancelled, Cancel, ChildMoves, Wake,
         rootVars
    <3> QED  BY <3>2 DEF Heeded
  <2> QED  BY <2>1, <2>2, <2>3
<1>9. CASE Lose
  <2>1. outbox' \in [Attempt -> Seq(M)]  BY <1>1, <1>9, NewestAttempt DEF Lose
  <2>2. leased /\ ~leased' /\ UNCHANGED <<checkpoint, command>>  BY <1>9 DEF Lose
  <2> QED  BY <1>2, <1>5, <1>6, <1>8, <2>1, <2>2 DEF SupervisorInv
<1>10. CASE PersistSuccess \/ PersistFailure \/ PersistCancelled
  <2>1. /\ leased /\ ~leased' /\ outbox[attempt] # <<>> /\ Pop
        /\ UNCHANGED <<checkpoint, command>>
    BY <1>10 DEF PersistSuccess, PersistFailure, PersistCancelled, Persists
  <2>2. outbox' \in [Attempt -> Seq(M)]  BY <1>7, <2>1 DEF Pop
  <2> QED  BY <1>2, <1>5, <1>6, <1>8, <2>1, <2>2 DEF SupervisorInv
<1>11. CASE PersistEvent
  <2>1. leased /\ outbox[attempt] # <<>> /\ m.kind = "events"
    BY <1>11 DEF PersistEvent, Persists
  <2>2. PICK n \in m.nodes :
          outbox' = [outbox EXCEPT ![attempt] = Events(m.of, m.nodes \ {n}) \o Tail(@)]
    BY <1>11 DEF PersistEvent
  <2>3. [kind |-> "events", of |-> m.of, nodes |-> m.nodes \ {n}] \in M
    BY <1>7, <2>1 DEF SupervisorMessage
  <2>4. outbox' \in [Attempt -> Seq(M)]  BY <1>7, <2>1, <2>2, <2>3, EventMessages
  <2>5. UNCHANGED rootVars  BY <1>11 DEF PersistEvent
  <2>6. Heeded'
    BY <1>1, <1>3, <1>4, <2>5 DEF rootVars, Heeded, Allowed, Approved, Members, Grows
  <2> QED  BY <1>2, <1>5, <1>6, <2>4, <2>5, <2>6 DEF SupervisorInv, rootVars
<1>12. CASE PersistSuspension
  <2>1. /\ leased /\ outbox[attempt] # <<>> /\ m.kind \in {"suspend", "wait"}
        /\ checkpoint' = m.save /\ command' = command
        /\ m.kind = "suspend" => status' = "waiting_input"
        /\ outbox' = [outbox EXCEPT ![attempt] = Tail(@)]
    BY <1>12 DEF PersistSuspension, Persists, Pop
  <2>2. /\ m.save \in SaveShape /\ GoodSave(m.save)
        /\ m.kind = "wait" => Approved(m.save.plan)
    BY <1>7, <2>1 DEF SupervisorMessage
  <2>3. PICK save : save = m.save  OBVIOUS
  <2>4. GoodSave(save)' /\ (m.kind = "wait" => Approved(save.plan)')
    BY <1>3, <2>2, <2>3, ApprovalStays
  <2>5. outbox' \in [Attempt -> Seq(M')]
    BY <1>3, <1>7, <2>1, ApprovalStays, MessagesStay
  <2>6. SupervisorRows'
    <3>1. checkpoint' = save /\ save \in SaveShape  BY <2>1, <2>2, <2>3
    <3>2. GoodSave(checkpoint)'
      BY <2>4, <3>1 DEF GoodSave, Allowed, Approved, Members
    <3> QED  BY <1>1, <1>3, <2>1, <2>5, <3>1, <3>2 DEF SupervisorRows
  <2>7. Heeded'
    <3>1. CASE m.kind = "suspend"  BY <2>1, <3>1 DEF Heeded
    <3>2. CASE m.kind = "wait"
      BY <2>1, <2>3, <2>4, <3>2 DEF Heeded, Allowed, Approved, Members
    <3> QED  BY <2>1, <3>1, <3>2
  <2> QED  BY <1>2, <1>5, <2>6, <2>7 DEF SupervisorInv
<1>13. CASE Cancel \/ Wake \/ \E n \in Node : ChildMoves(n)
  <2>1. /\ UNCHANGED <<outbox, checkpoint, command, leased, attempt>>
        /\ \/ status' \in {"cancelling", "cancelled"}
           \/ status = "waiting_children"
           \/ status' = status
    BY <1>13 DEF Cancel, Wake, ChildMoves, rest, rootVars
  <2>2. Heeded'
    BY <1>1, <1>3, <1>4, <2>1 DEF Heeded, Allowed, Approved, Members, Grows
  <2> QED  BY <1>1, <1>2, <1>5, <1>6, <2>1, <2>2 DEF SupervisorInv
<1> QED
  BY <1>9, <1>10, <1>11, <1>12, <1>13 DEF Environment

\* A supervisor's process goes on or ends, and puts messages or none.
LEMMA SupervisorGoesOn ==
  ASSUME SupervisorInv, executor = "supervisor", NEW a \in Attempt, proc[a] # None,
         NEW q \in ProcessShape, Entitled(q), q.told = proc[a].told, Becomes(a, q),
         UNCHANGED <<rootVars, approved, ignored>>,
         \/ UNCHANGED outbox
         \/ \E messages \in Seq(SupervisorMessage) : Puts(a, messages),
         Attempts', ApprovedChildren'
  PROVE  SupervisorInv'
<1>1. Attempts /\ SupervisorRows /\ SupervisorProcesses /\ Heeded  BY DEF SupervisorInv
<1>2. SupervisorMessage' = SupervisorMessage
  BY DEF SupervisorMessage, GoodSave, Allowed, Approved, Members
<1>3. outbox' \in [Attempt -> Seq(SupervisorMessage)]
  <2>1. outbox \in [Attempt -> Seq(SupervisorMessage)]  BY <1>1 DEF SupervisorRows
  <2> QED  BY <2>1, PutMessages
<1>4. SupervisorRows'
  BY <1>1, <1>2, <1>3 DEF SupervisorRows, rootVars, GoodSave, Allowed, Approved, Members
<1>5. /\ proc' \in [Attempt -> ProcessShape \cup {None}]
      /\ proc'[a] = q
      /\ \A b \in Attempt : b # a => proc'[b] = proc[b]
  BY <1>1 DEF Becomes, SupervisorProcesses
<1>6. SupervisorProcesses'
  <2> SUFFICES ASSUME NEW b \in Attempt, proc'[b] # None PROVE Entitled(proc[b])'
    BY <1>5 DEF SupervisorProcesses
  <2>1. PICK p : p = proc'[b]  OBVIOUS
  <2>2. Entitled(p)  BY <1>1, <1>5, <2>1 DEF SupervisorProcesses
  <2> QED  BY <2>1, <2>2 DEF Entitled, Allowed, Approved, Members
<1>7. Heeded'
  <2>1. leased => attempt \in Attempt  BY <1>1, NewestAttempt
  <2>2. leased => proc'[attempt].told = proc[attempt].told  BY <1>5, <2>1
  <2> QED  BY <1>1, <2>2 DEF Heeded, rootVars, Allowed, Approved, Members
<1> QED  BY <1>4, <1>6, <1>7 DEF SupervisorInv

LEMMA SupervisorFacts ==
  ASSUME SupervisorInv, executor = "supervisor", NEW a \in Attempt, proc[a] # None
  PROVE  /\ Attempts /\ SupervisorRows /\ SupervisorProcesses /\ ApprovedChildren
         /\ proc[a] \in ProcessShape /\ Entitled(proc[a])
BY DEF SupervisorInv, SupervisorProcesses

\* Steps that create no child.
LEMMA SupervisorMoves ==
  ASSUME SupervisorInv, executor = "supervisor", NEW a \in Attempt, proc[a] # None,
         NEW q \in ProcessShape, Entitled(q), q.told = proc[a].told, Becomes(a, q),
         UNCHANGED <<rootVars, work, approved, ignored>>, OnlyMoves,
         \/ UNCHANGED outbox
         \/ \E messages \in Seq(SupervisorMessage) : Puts(a, messages)
  PROVE  SupervisorInv'
<1>1. Attempts /\ ApprovedChildren  BY DEF SupervisorInv
<1>2. Attempts'  BY <1>1, StepAttempts DEF OnlyMoves, Attempts
<1>3. ApprovedChildren'  BY <1>1, ApprovedStay DEF Grows
<1> QED  BY <1>2, <1>3, SupervisorGoesOn

LEMMA SupervisorMessages ==
  /\ \A of \in {"completed", "failed"}, nodes \in SUBSET TaskKey :
       Events(of, nodes) \in Seq(SupervisorMessage)
  /\ \A s \in SaveShape : GoodSave(s) => Suspend(s) \in Seq(SupervisorMessage)
  /\ \A nodes \in SUBSET TaskKey, s \in SaveShape :
       GoodSave(s) /\ Approved(s.plan) => Wait(nodes, s) \in Seq(SupervisorMessage)
  /\ \A nodes \in SUBSET TaskKey : Succeed(nodes) \in Seq(SupervisorMessage)
  /\ Fail \in Seq(SupervisorMessage)
  /\ \A u, v \in Seq(SupervisorMessage) : u \o v \in Seq(SupervisorMessage)
<1> DEFINE M == SupervisorMessage
<1>1. ASSUME NEW of \in {"completed", "failed"}, NEW nodes \in SUBSET TaskKey
      PROVE  Events(of, nodes) \in Seq(M)
  <2>1. [kind |-> "events", of |-> of, nodes |-> nodes] \in M  BY DEF SupervisorMessage
  <2> QED  BY <2>1, EventMessages
<1>2. ASSUME NEW s \in SaveShape, GoodSave(s) PROVE Suspend(s) \in Seq(M)
  <2>1. [kind |-> "suspend", save |-> s] \in M  BY <1>2 DEF SupervisorMessage
  <2> HIDE DEF M
  <2> QED  BY <2>1 DEF Suspend
<1>3. ASSUME NEW nodes \in SUBSET TaskKey, NEW s \in SaveShape, GoodSave(s), Approved(s.plan)
      PROVE  Wait(nodes, s) \in Seq(M)
  <2>1. [kind |-> "wait", nodes |-> nodes, save |-> s] \in M  BY <1>3 DEF SupervisorMessage
  <2> HIDE DEF M
  <2> QED  BY <2>1 DEF Wait
<1>4. ASSUME NEW nodes \in SUBSET TaskKey PROVE Succeed(nodes) \in Seq(M)
  <2>1. [kind |-> "succeeded", reported |-> nodes] \in M  BY DEF SupervisorMessage
  <2> HIDE DEF M
  <2> QED  BY <2>1 DEF Succeed
<1>5. Fail \in Seq(M)
  <2>1. [kind |-> "failed"] \in M  BY DEF SupervisorMessage
  <2> HIDE DEF M
  <2> QED  BY <2>1 DEF Fail
<1>6. \A u, v \in Seq(M) : u \o v \in Seq(M)  OBVIOUS
<1> HIDE DEF M
<1> QED  BY <1>1, <1>2, <1>3, <1>4, <1>5, <1>6 DEF M

\* The end of a process.
LEMMA Ending ==
  ASSUME SupervisorInv, executor = "supervisor", NEW a \in Attempt, proc[a] # None,
         SupervisorEnds(a), UNCHANGED <<rootVars, work, approved, ignored>>, OnlyMoves,
         NEW messages \in Seq(SupervisorMessage), Puts(a, messages)
  PROVE  SupervisorInv'
<1>1. proc[a] \in ProcessShape /\ Attempts  BY SupervisorFacts
<1>2. PICK q : q = SupervisorAt("over", None, proc[a].told)  OBVIOUS
<1>3. q \in ProcessShape /\ Entitled(q) /\ q.told = proc[a].told
  BY <1>1, <1>2 DEF SupervisorAt, ProcessShape, Entitled, Allowed
<1>4. Becomes(a, q)  BY <1>2 DEF SupervisorEnds
<1> QED  BY <1>3, <1>4, SupervisorMoves

LEMMA Raising ==
  ASSUME SupervisorInv, executor = "supervisor", NEW a \in Attempt, proc[a] # None,
         Raise(a), UNCHANGED <<rootVars, work, approved, ignored>>, OnlyMoves
  PROVE  SupervisorInv'
BY Ending, SupervisorMessages DEF Raise

\* A plan may be proposed whatever it is.
LEMMA Proposing ==
  ASSUME SupervisorInv, executor = "supervisor", NEW a \in Attempt, proc[a] # None,
         NEW plan \in PlanShape, NEW replans \in Nat, Propose(a, proc[a], plan, replans),
         UNCHANGED <<rootVars, work, approved, ignored>>, OnlyMoves
  PROVE  SupervisorInv'
<1>1. proc[a] \in ProcessShape /\ Entitled(proc[a])  BY SupervisorFacts
<1>2. PICK s : s = Saved(proc[a], plan, replans, None)  OBVIOUS
<1>3. s \in SaveShape /\ GoodSave(s)
  BY <1>1, <1>2 DEF Saved, SaveShape, GoodSave, Allowed, Entitled, ProcessShape
<1>4. Puts(a, Suspend(s)) /\ SupervisorEnds(a)  BY <1>2 DEF Propose
<1> QED  BY <1>3, <1>4, Ending, SupervisorMessages

\* Shapes of what the planner proposes.
LEMMA ProposedPlans ==
  ASSUME NEW version \in Nat, NEW budget, NEW plan \in Proposals(version, budget)
  PROVE  plan \in PlanShape
BY DEF Proposals, PlanShape

LEMMA MakePlanStep ==
  ASSUME SupervisorInv, executor = "supervisor", NEW a \in Attempt, proc[a] # None,
         MakePlan(a)
  PROVE  SupervisorInv'
<1> DEFINE p == proc[a]
           version == IF p.plan = None THEN 1 ELSE p.plan.version + 1
<1>1. /\ p \in ProcessShape /\ Attempts
      /\ UNCHANGED <<rootVars, work, approved, ignored>> /\ OnlyMoves
  BY SupervisorFacts, KeptChildren DEF MakePlan, historyVars
<1>2. version \in Nat /\ p.replans \in Nat  BY <1>1 DEF ProcessShape, PlanShape
<1>3. ASSUME NEW plan \in Proposals(version, TaskBudget), Propose(a, p, plan, p.replans)
      PROVE  SupervisorInv'
  <2>1. plan \in PlanShape  BY <1>2, ProposedPlans
  <2> QED  BY <1>1, <1>2, <1>3, <2>1, Proposing
<1>4. CASE Raise(a)  BY <1>1, <1>4, Raising
<1> QED  BY <1>3, <1>4 DEF MakePlan

LEMMA TakeCommandStep ==
  ASSUME SupervisorInv, executor = "supervisor", NEW a \in Attempt, proc[a] # None,
         TakeCommand(a)
  PROVE  SupervisorInv'
<1>1. /\ proc[a] \in ProcessShape /\ Entitled(proc[a]) /\ Attempts
      /\ UNCHANGED <<rootVars, work, approved, ignored, outbox>> /\ OnlyMoves
  BY SupervisorFacts, KeptChildren DEF TakeCommand, historyVars
<1>2. PICK p : p = proc[a]  OBVIOUS
<1>3. p.pc = "begin" /\ p.plan # None /\ p.told # "revise_plan"
  BY <1>2 DEF TakeCommand
<1>4. p \in ProcessShape /\ Allowed(p.targets) /\ p.plan \in PlanShape /\ Approved(p.plan)
  BY <1>1, <1>2, <1>3 DEF Entitled, ProcessShape
<1>5. PICK targets : targets = IF p.told = "approve_plan" THEN Members(p.plan) ELSE p.targets
  OBVIOUS
<1>6. targets \in SUBSET Target /\ Allowed(targets)
  <2>1. Members(p.plan) \in SUBSET Target
    BY <1>4 DEF PlanShape, Members
  <2> QED  BY <1>4, <1>5, <2>1 DEF Approved, ProcessShape
<1>7. PICK q : q = [p EXCEPT !.pc = "forward", !.targets = targets]  OBVIOUS
<1>8. Becomes(a, q)  BY <1>2, <1>5, <1>7 DEF TakeCommand
<1>9. q \in ProcessShape /\ q.told = p.told /\ Entitled(q)
  BY <1>4, <1>6, <1>7 DEF ProcessShape, Entitled
<1> QED  BY <1>1, <1>2, <1>8, <1>9, SupervisorMoves

LEMMA ForwardCommandStep ==
  ASSUME SupervisorInv, executor = "supervisor", NEW a \in Attempt, proc[a] # None,
         ForwardCommand(a)
  PROVE  SupervisorInv'
<1>1. /\ proc[a] \in ProcessShape /\ Entitled(proc[a]) /\ Attempts
      /\ UNCHANGED <<rootVars, work, approved, ignored>>
  BY SupervisorFacts DEF ForwardCommand, historyVars
<1>2. CASE Raise(a) /\ UNCHANGED child
  BY <1>1, <1>2, KeptChildren, Raising
<1>3. CASE Becomes(a, [proc[a] EXCEPT !.pc = "read"]) /\ UNCHANGED outbox
          /\ (Forward(proc[a].save.asker) \/ UNCHANGED child)
  <2>1. OnlyMoves  BY <1>1, <1>3, KeptChildren, ForwardMoves
  <2>2. PICK q : q = [proc[a] EXCEPT !.pc = "read"]  OBVIOUS
  <2>3. q \in ProcessShape /\ q.told = proc[a].told /\ Entitled(q)
    BY <1>1, <2>2 DEF ForwardCommand, ProcessShape, Entitled
  <2> QED  BY <1>1, <1>3, <2>1, <2>2, <2>3, SupervisorMoves
<1> QED  BY <1>2, <1>3 DEF ForwardCommand

\* A process that carries a plan out, which the following steps do.
LEMMA CarryingOut ==
  ASSUME SupervisorInv, executor = "supervisor", NEW a \in Attempt, NEW p, p = proc[a], p # None,
         p.pc \notin {"begin", "over"}
  PROVE  /\ p \in ProcessShape /\ Attempts /\ Allowed(p.targets)
         /\ p.plan \in PlanShape /\ Approved(p.plan)
         /\ \A statuses : \A nodes \in SUBSET TaskKey :
              Children(nodes, statuses) \in SUBSET TaskKey
         /\ NodesOf(p.plan.version) \in SUBSET TaskKey
         /\ \A nodes \in SUBSET TaskKey : Keys(nodes) \in SUBSET Task
<1>1. p \in ProcessShape /\ Attempts /\ Entitled(p)  BY SupervisorFacts
<1>2. p.plan \in PlanShape /\ Approved(p.plan) /\ Allowed(p.targets)
  BY <1>1 DEF Entitled
<1>3. NodesOf(p.plan.version) \in SUBSET TaskKey
  BY <1>2 DEF NodesOf, TaskKey, PlanShape
<1>4. \A statuses : \A nodes \in SUBSET TaskKey : Children(nodes, statuses) \in SUBSET TaskKey
  BY DEF Children
<1>5. \A nodes \in SUBSET TaskKey : Keys(nodes) \in SUBSET Task
  BY DEF Keys, TaskKey
<1> QED  BY <1>1, <1>2, <1>3, <1>4, <1>5

\* What it saves when it stops for its children.
LEMMA Saving ==
  ASSUME NEW p \in ProcessShape, Allowed(p.targets), p.plan \in PlanShape, Approved(p.plan),
         NEW asker \in TaskKey \cup {None}
  PROVE  LET s == Saved(p, p.plan, p.replans, asker)
         IN s \in SaveShape /\ GoodSave(s) /\ Approved(s.plan)
BY DEF Saved, SaveShape, GoodSave, ProcessShape

LEMMA ReadResultsStep ==
  ASSUME SupervisorInv, executor = "supervisor", NEW a \in Attempt, proc[a] # None,
         ReadResults(a)
  PROVE  SupervisorInv'
<1>1. PICK p : p = proc[a]  OBVIOUS
<1>2. p.pc = "read"  BY <1>1 DEF ReadResults
<1>3. /\ p \in ProcessShape /\ Attempts /\ Allowed(p.targets)
      /\ p.plan \in PlanShape /\ Approved(p.plan)
      /\ \A statuses : \A nodes \in SUBSET TaskKey : Children(nodes, statuses) \in SUBSET TaskKey
      /\ NodesOf(p.plan.version) \in SUBSET TaskKey
      /\ \A nodes \in SUBSET TaskKey : Keys(nodes) \in SUBSET Task
  BY <1>1, <1>2, CarryingOut
<1>4. PICK nodes, done : /\ nodes = NodesOf(p.plan.version)
                         /\ done = Children(nodes, {"succeeded"})
  OBVIOUS
<1>5. /\ done \in SUBSET TaskKey /\ NewFailures(nodes) \in SUBSET TaskKey
      /\ Keys(done) \in SUBSET Task /\ Keys(Children(nodes, Unsuccessful)) \in SUBSET Task
  BY <1>3, <1>4 DEF NewFailures
<1>6. PICK messages : messages = Events("completed", done \ Emitted("completed", nodes))
                                   \o Events("failed", NewFailures(nodes))
  OBVIOUS
<1>7. messages \in Seq(SupervisorMessage)
  <2>1. done \ Emitted("completed", nodes) \in SUBSET TaskKey  BY <1>5
  <2>2. Events("completed", done \ Emitted("completed", nodes)) \in Seq(SupervisorMessage)
    BY <2>1, SupervisorMessages
  <2>3. Events("failed", NewFailures(nodes)) \in Seq(SupervisorMessage)
    BY <1>5, SupervisorMessages
  <2> QED  BY <1>6, <2>2, <2>3, SupervisorMessages
<1>8. PICK q : q = [p EXCEPT !.pc = "ask", !.done = Keys(done),
                             !.failed = Keys(Children(nodes, Unsuccessful))]
  OBVIOUS
<1>9. q \in ProcessShape /\ q.told = p.told /\ Entitled(q)
  BY <1>3, <1>5, <1>8 DEF ProcessShape, Entitled
<1>10. Puts(a, messages) /\ Becomes(a, q)
  BY <1>1, <1>4, <1>6, <1>8 DEF ReadResults
<1>11. UNCHANGED <<rootVars, work, approved, ignored>> /\ OnlyMoves
  BY <1>3, KeptChildren DEF ReadResults, historyVars
<1> QED  BY <1>1, <1>7, <1>9, <1>10, <1>11, SupervisorMoves

LEMMA AskForChildStep ==
  ASSUME SupervisorInv, executor = "supervisor", NEW a \in Attempt, proc[a] # None,
         AskForChild(a)
  PROVE  SupervisorInv'
<1>1. PICK p : p = proc[a]  OBVIOUS
<1>2. p.pc = "ask"  BY <1>1 DEF AskForChild
<1>3. /\ p \in ProcessShape /\ Attempts /\ Allowed(p.targets)
      /\ p.plan \in PlanShape /\ Approved(p.plan)
      /\ \A statuses : \A nodes \in SUBSET TaskKey : Children(nodes, statuses) \in SUBSET TaskKey
      /\ NodesOf(p.plan.version) \in SUBSET TaskKey
  BY <1>1, <1>2, CarryingOut
<1>4. UNCHANGED <<rootVars, work, approved, ignored>> /\ OnlyMoves
  BY <1>3, KeptChildren DEF AskForChild, historyVars
<1>5. ASSUME NEW n \in Children(NodesOf(p.plan.version), {"waiting"}),
             Puts(a, Suspend(Saved(p, p.plan, p.replans, n))), SupervisorEnds(a)
      PROVE  SupervisorInv'
  <2>1. n \in TaskKey  BY <1>3
  <2>2. PICK s : s = Saved(p, p.plan, p.replans, n)  OBVIOUS
  <2>3. s \in SaveShape /\ GoodSave(s)  BY <1>3, <2>1, <2>2, Saving
  <2>4. Suspend(s) \in Seq(SupervisorMessage)  BY <2>3, SupervisorMessages
  <2> QED  BY <1>1, <1>4, <1>5, <2>2, <2>4, Ending
<1>6. CASE Becomes(a, [p EXCEPT !.pc = "decide"]) /\ UNCHANGED outbox
  <2>1. PICK q : q = [p EXCEPT !.pc = "decide"]  OBVIOUS
  <2>2. q \in ProcessShape /\ q.told = p.told /\ Entitled(q)
    BY <1>3, <2>1 DEF ProcessShape, Entitled
  <2> QED  BY <1>1, <1>4, <1>6, <2>1, <2>2, SupervisorMoves
<1> QED  BY <1>1, <1>5, <1>6 DEF AskForChild

LEMMA ReplanStep ==
  ASSUME SupervisorInv, executor = "supervisor", NEW a \in Attempt, proc[a] # None,
         Replan(a)
  PROVE  SupervisorInv'
<1>1. PICK p : p = proc[a]  OBVIOUS
<1>2. p.pc = "decide"  BY <1>1 DEF Replan
<1>3. /\ p \in ProcessShape /\ Attempts /\ Allowed(p.targets)
      /\ p.plan \in PlanShape /\ Approved(p.plan)
  BY <1>1, <1>2, CarryingOut
<1>4. UNCHANGED <<rootVars, work, approved, ignored>> /\ OnlyMoves
  BY <1>3, KeptChildren DEF Replan, historyVars
<1>5. p.replans + 1 \in Nat /\ p.plan.version + 1 \in Nat
  BY <1>3 DEF ProcessShape, PlanShape
<1>6. CASE Raise(a)  BY <1>4, <1>6, Raising
<1>7. ASSUME NEW plan \in Proposals(p.plan.version + 1, Remaining),
             IF MayApply(p, plan)
               THEN /\ Becomes(a, [p EXCEPT !.plan = plan, !.replans = @ + 1,
                                            !.done = {}, !.failed = {}])
                    /\ UNCHANGED outbox
               ELSE Propose(a, p, plan, p.replans + 1)
      PROVE  SupervisorInv'
  <2>1. plan \in PlanShape  BY <1>5, ProposedPlans
  <2>2. CASE MayApply(p, plan)
    <3>1. PICK q : q = [p EXCEPT !.plan = plan, !.replans = @ + 1,
                                 !.done = {}, !.failed = {}]
      OBVIOUS
    <3>2. Approved(plan)  BY <1>3, <2>2 DEF MayApply, Approved, Allowed
    <3>3. q \in ProcessShape /\ q.told = p.told /\ Entitled(q)
      BY <1>2, <1>3, <1>5, <2>1, <3>1, <3>2 DEF ProcessShape, Entitled
    <3> QED  BY <1>1, <1>4, <1>7, <2>2, <3>1, <3>3, SupervisorMoves
  <2>3. CASE ~MayApply(p, plan)
    BY <1>1, <1>4, <1>5, <1>7, <2>1, <2>3, Proposing
  <2> QED  BY <2>2, <2>3
<1> QED  BY <1>1, <1>6, <1>7 DEF Replan

LEMMA ProceedStep ==
  ASSUME SupervisorInv, executor = "supervisor", NEW a \in Attempt, proc[a] # None,
         Proceed(a)
  PROVE  SupervisorInv'
<1>1. PICK p : p = proc[a]  OBVIOUS
<1>2. p.pc = "decide"  BY <1>1 DEF Proceed
<1>3. /\ p \in ProcessShape /\ Attempts /\ Allowed(p.targets)
      /\ p.plan \in PlanShape /\ Approved(p.plan)
  BY <1>1, <1>2, CarryingOut
<1>4. UNCHANGED <<rootVars, work, approved, ignored>> /\ OnlyMoves
  BY <1>3, KeptChildren DEF Proceed, historyVars
<1>5. DOMAIN p.plan.tasks \subseteq Task  BY <1>3 DEF PlanShape
<1>6. CASE Raise(a)  BY <1>4, <1>6, Raising
<1>7. PICK nodes : nodes = {<<p.plan.version, k>> : k \in DOMAIN p.plan.tasks}
  OBVIOUS
<1>8. CASE Puts(a, Succeed(nodes)) /\ SupervisorEnds(a)
  <2>1. nodes \in SUBSET TaskKey  BY <1>3, <1>5, <1>7 DEF TaskKey, PlanShape
  <2>2. Succeed(nodes) \in Seq(SupervisorMessage)  BY <2>1, SupervisorMessages
  <2> QED  BY <1>4, <1>8, <2>2, Ending
<1>9. ASSUME NEW next \in SUBSET ReadyTasks(p),
             Becomes(a, [p EXCEPT !.pc = "create", !.todo = next, !.active = {}]),
             UNCHANGED outbox
      PROVE  SupervisorInv'
  <2>1. next \subseteq DOMAIN p.plan.tasks  BY DEF ReadyTasks
  <2>2. PICK q : q = [p EXCEPT !.pc = "create", !.todo = next, !.active = {}]
    OBVIOUS
  <2>3. q \in ProcessShape /\ q.told = p.told /\ Entitled(q)
    BY <1>3, <1>5, <2>1, <2>2 DEF ProcessShape, Entitled
  <2> QED  BY <1>1, <1>4, <1>9, <2>2, <2>3, SupervisorMoves
<1>10. nodes = {<<proc[a].plan.version, k>> : k \in DOMAIN proc[a].plan.tasks}
  BY <1>1, <1>7
<1> QED  BY <1>1, <1>6, <1>8, <1>9, <1>10 DEF Proceed

LEMMA CreateTaskStep ==
  ASSUME SupervisorInv, executor = "supervisor", NEW a \in Attempt, proc[a] # None,
         CreateTask(a)
  PROVE  SupervisorInv'
<1>1. PICK p : p = proc[a]  OBVIOUS
<1>2. p.pc = "create"  BY <1>1 DEF CreateTask
<1>3. /\ p \in ProcessShape /\ Attempts /\ Allowed(p.targets)
      /\ p.plan \in PlanShape /\ Approved(p.plan)
  BY <1>1, <1>2, CarryingOut
<1>4. /\ p.todo \subseteq DOMAIN p.plan.tasks /\ ApprovedChildren /\ SupervisorRows
      /\ p.active \in SUBSET TaskKey
  BY <1>1, <1>2, <1>3, SupervisorFacts DEF Entitled, ProcessShape
<1>5. UNCHANGED <<rootVars, approved, ignored>>
  BY DEF CreateTask, historyVars
<1>6. ASSUME NEW k \in p.todo, CreateOrLoad(<<p.plan.version, k>>, p.plan.tasks[k]),
             Becomes(a, [p EXCEPT !.todo = @ \ {k},
                                  !.active = @ \cup {<<p.plan.version, k>>}]),
             UNCHANGED outbox
      PROVE  SupervisorInv'
  <2>1. PICK n, target : n = <<p.plan.version, k>> /\ target = p.plan.tasks[k]
    OBVIOUS
  <2>2. /\ n \in TaskKey /\ target \in Target
        /\ ignored \/ target \in approved
    BY <1>3, <1>4, <2>1 DEF PlanShape, TaskKey, Approved, Allowed, Members
  <2>3. /\ child' \in [Node -> ChildStatus]
        /\ work' \in [Node -> Target \cup {None}]
        /\ \A m \in Node :
             /\ child[m] # "absent" \/ m # n => child'[m] = child[m]
             /\ m # n => work'[m] = work[m]
             /\ work'[m] = work[m] \/ (m = n /\ child[n] = "absent" /\ work'[m] = target)
    BY <1>3, <1>6, <2>1, <2>2, Created
  <2>4. Attempts'  BY <1>3, <1>5, <2>3, StepAttempts
  <2>5. ApprovedChildren'
    <3>1. ASSUME NEW s \in Step PROVE child'[s] = "absent"
      BY <1>4, <2>2, <2>3, Nodes DEF ApprovedChildren
    <3>2. ASSUME NEW m \in TaskNode, child'[m] # "absent"
          PROVE  ignored \/ work'[m] \in approved
      <4>1. CASE child[m] # "absent"
        BY <1>4, <2>2, <2>3, <4>1, Nodes DEF ApprovedChildren
      <4>2. CASE child[m] = "absent"
        <5>1. m = n  BY <2>3, <3>2, <4>2, Nodes
        <5>2. work'[n] = target
          BY <1>3, <1>6, <2>1, <4>2, <5>1, Nodes DEF CreateOrLoad, Attempts
        <5> QED  BY <2>2, <5>1, <5>2
      <4> QED  BY <4>1, <4>2
    <3> QED  BY <1>5, <3>1, <3>2 DEF ApprovedChildren
  <2>6. PICK todo, active : todo = p.todo \ {k} /\ active = p.active \cup {n}
    OBVIOUS
  <2>7. PICK q : q = [p EXCEPT !.todo = todo, !.active = active]  OBVIOUS
  <2>8. Becomes(a, q)  BY <1>6, <2>1, <2>6, <2>7
  <2>9. q \in ProcessShape /\ q.told = p.told /\ Entitled(q)
    BY <1>2, <1>3, <1>4, <2>2, <2>6, <2>7 DEF ProcessShape, Entitled
  <2> QED  BY <1>1, <1>5, <1>6, <2>4, <2>5, <2>8, <2>9, SupervisorGoesOn
<1>7. CASE /\ Puts(a, Wait(p.active, Saved(p, p.plan, p.replans, None)))
           /\ SupervisorEnds(a) /\ UNCHANGED <<child, work>>
  <2>1. PICK s : s = Saved(p, p.plan, p.replans, None)  OBVIOUS
  <2>2. s \in SaveShape /\ GoodSave(s) /\ Approved(s.plan)
    BY <1>3, <2>1, Saving
  <2>3. Wait(p.active, s) \in Seq(SupervisorMessage)
    BY <1>4, <2>2, SupervisorMessages
  <2>4. OnlyMoves  BY <1>3, <1>7, KeptChildren
  <2> QED  BY <1>1, <1>5, <1>7, <2>1, <2>3, <2>4, Ending
<1> QED  BY <1>1, <1>6, <1>7 DEF CreateTask

\* An attempt begins with what the newest suspension has left.
LEMMA SupervisorClaim ==
  ASSUME SupervisorInv, executor = "supervisor", Claim(SupervisorBegins),
         UNCHANGED historyVars
  PROVE  SupervisorInv'
<1>1. /\ Attempts /\ SupervisorRows /\ SupervisorProcesses /\ Heeded /\ ApprovedChildren
      /\ attempt + 1 \in Attempt
  BY NewestAttempt DEF SupervisorInv, Claim
<1>2. Attempts' /\ OnlyMoves /\ UNCHANGED work  BY <1>1, ClaimAttempts
<1>3. UNCHANGED <<approved, ignored>>  BY DEF historyVars
<1>4. SupervisorMessage' = SupervisorMessage
  BY <1>3 DEF SupervisorMessage, GoodSave, Allowed, Approved, Members
<1>5. SupervisorRows'
  BY <1>1, <1>3, <1>4 DEF Claim, SupervisorRows, GoodSave, Allowed, Approved, Members
<1>6. PICK q : q = SupervisorBegins  OBVIOUS
<1>7. ~leased /\ status = "queued"  BY <1>1 DEF Attempts, Claim
<1>8. checkpoint # None /\ command # "revise_plan" => Approved(checkpoint.plan)
  BY <1>1, <1>7 DEF Heeded
<1>9. /\ q \in ProcessShape /\ q.told = command
      /\ Entitled(q)
  BY <1>1, <1>6, <1>8
     DEF SupervisorBegins, SupervisorAt, ProcessShape, SaveShape, PlanShape, Entitled,
         SupervisorRows, GoodSave, Allowed
<1>10. /\ proc' \in [Attempt -> ProcessShape \cup {None}]
       /\ proc'[attempt + 1] = q
       /\ \A b \in Attempt : b # attempt + 1 => proc'[b] = proc[b]
  BY <1>1, <1>6, <1>9 DEF Claim, SupervisorProcesses
<1>11. SupervisorProcesses'
  <2> SUFFICES ASSUME NEW b \in Attempt, proc'[b] # None PROVE Entitled(proc[b])'
    BY <1>10 DEF SupervisorProcesses
  <2>1. PICK p : p = proc'[b]  OBVIOUS
  <2>2. Entitled(p)  BY <1>1, <1>9, <1>10, <2>1 DEF SupervisorProcesses
  <2> QED  BY <1>3, <2>1, <2>2 DEF Entitled, Allowed, Approved, Members
<1>12. Heeded'
  <2>1. /\ checkpoint' = checkpoint /\ attempt' = attempt + 1 /\ leased' = TRUE
        /\ proc'[attempt'].told = command
    BY <1>9, <1>10 DEF Claim
  <2>2. Approved(checkpoint.plan) => Approved(checkpoint.plan)'
    BY <1>3, <2>1 DEF Approved, Allowed, Members
  <2> QED  BY <1>8, <2>1, <2>2 DEF Heeded
<1>13. ApprovedChildren'  BY <1>1, <1>2, <1>3, ApprovedStay DEF Grows
<1> QED  BY <1>2, <1>5, <1>11, <1>12, <1>13 DEF SupervisorInv

\* The user answers a child, approves the plan of the checkpoint, or has it
\* revised.
LEMMA SupervisorReply ==
  ASSUME SupervisorInv, executor = "supervisor", Reply
  PROVE  SupervisorInv'
<1>1. /\ Attempts /\ SupervisorRows /\ SupervisorProcesses /\ ApprovedChildren
  BY DEF SupervisorInv
<1>2. PICK c \in Commands :
        /\ Answer(c)
        /\ c = "answer" => checkpoint.asker # None
        /\ c = "approve_plan" => approved' = approved \cup Members(checkpoint.plan)
        /\ approved \subseteq approved' /\ ignored' = ignored
  BY DEF Reply, historyVars, Commands
<1>3. /\ Attempts' /\ OnlyMoves /\ UNCHANGED <<work, proc, outbox, checkpoint, leased, attempt>>
      /\ command' = c /\ status = "waiting_input"
  BY <1>1, <1>2, AnswerAttempts DEF Answer, rest
<1>4. Grows  BY <1>2 DEF Grows
<1>5. PICK save : save = checkpoint  OBVIOUS
<1>6. checkpoint' = save /\ (save # None => save \in SaveShape /\ GoodSave(save) /\ GoodSave(save)')
  BY <1>1, <1>3, <1>4, <1>5, ApprovalStays DEF SupervisorRows
<1>7. SupervisorRows'
  <2>1. outbox' \in [Attempt -> Seq(SupervisorMessage')]
    <3>1. outbox \in [Attempt -> Seq(SupervisorMessage)]  BY <1>1 DEF SupervisorRows
    <3> QED  BY <1>3, <1>4, <3>1, ApprovalStays, MessagesStay
  <2>2. checkpoint' # None => GoodSave(checkpoint)'
    BY <1>6 DEF GoodSave, Allowed, Approved, Members
  <2> QED  BY <1>1, <1>2, <1>3, <1>6, <2>1, <2>2 DEF SupervisorRows
<1>8. SupervisorProcesses' /\ ApprovedChildren'
  BY <1>1, <1>3, <1>4, EntitledStay, ApprovedStay
<1>9. Heeded'
  <2> SUFFICES ASSUME save # None, c # "revise_plan"
               PROVE  Approved(checkpoint.plan)'
    BY <1>3, <1>6 DEF Heeded
  <2>1. CASE c = "answer"
    <3>1. Approved(save.plan)  BY <1>2, <1>5, <1>6, <2>1 DEF GoodSave
    <3>2. Approved(save.plan)'  BY <1>4, <3>1, ApprovalStays
    <3> QED  BY <1>6, <3>2 DEF Approved, Allowed, Members
  <2>2. CASE c = "approve_plan"
    <3>1. Members(save.plan) \subseteq approved'  BY <1>2, <1>5, <2>2
    <3> QED  BY <1>6, <3>1 DEF Approved, Allowed, Members
  <2> QED  BY <2>1, <2>2 DEF Commands
<1> QED  BY <1>3, <1>7, <1>8, <1>9 DEF SupervisorInv

LEMMA SupervisorInvStep ==
  ASSUME SupervisorInv, [Next]_vars
  PROVE  executor = "supervisor" => SupervisorInv'
<1> SUFFICES ASSUME executor = "supervisor" PROVE SupervisorInv'
  OBVIOUS
<1>1. CASE NextSupervisor
  BY <1>1, MakePlanStep, TakeCommandStep, ForwardCommandStep, ReadResultsStep,
     AskForChildStep, ReplanStep, ProceedStep, CreateTaskStep, SupervisorClaim,
     SupervisorReply
     DEF NextSupervisor, SupervisorStep
<1>2. CASE Environment /\ UNCHANGED <<revisions, approved>> /\ Forgets
  BY <1>2, SupervisorEnvironment
<1>3. CASE UNCHANGED vars
  <2>1. /\ Attempts /\ SupervisorRows /\ SupervisorProcesses /\ Heeded /\ ApprovedChildren
    BY DEF SupervisorInv
  <2>2. UNCHANGED <<rootVars, rest, approved, ignored>>  BY <1>3 DEF vars, historyVars
  <2>3. Attempts' /\ OnlyMoves /\ Grows
    BY <2>1, <2>2, KeptChildren DEF rest, rootVars, Attempts, Grows
  <2>4. SupervisorProcesses' /\ ApprovedChildren'
    BY <2>1, <2>2, <2>3, EntitledStay, ApprovedStay DEF rest
  <2>5. SupervisorMessage' = SupervisorMessage
    BY <2>2 DEF SupervisorMessage, GoodSave, Allowed, Approved, Members
  <2>6. SupervisorRows'
    BY <2>1, <2>2, <2>5 DEF rootVars, rest, SupervisorRows, GoodSave, Allowed, Approved, Members
  <2>7. Heeded'
    BY <2>1, <2>2 DEF rootVars, rest, Heeded, Allowed, Approved, Members
  <2> QED  BY <2>3, <2>4, <2>6, <2>7 DEF SupervisorInv
<1> QED  BY <1>1, <1>2, <1>3 DEF Next, NextWorkflow

-----------------------------------------------------------------------------
Inv == WorkflowInv /\ SupervisorInv

LEMMA InitInv ==
  ASSUME Init
  PROVE  Inv
<1>1. Attempts
  BY DEF Init, InitRoot, InitWorkflow, InitSupervisor, Attempts, Executor, ChildStatus
<1>2. /\ outbox = [a \in Attempt |-> <<>>] /\ proc = [a \in Attempt |-> None]
      /\ child = [n \in Node |-> "absent"] /\ checkpoint = None /\ command = None
      /\ stored = [o \in Outcome |-> 0]
  BY DEF Init, InitRoot
<1>3. \A M : outbox \in [Attempt -> Seq(M)]  BY <1>2
<1>4. ASSUME executor = "workflow-dag"
      PROVE  WorkflowRows /\ WorkflowProcesses /\ DueChildren
  <2>1. unmet \in SUBSET Step /\ reused \in SUBSET Step
    BY <1>4, WorkflowAssumption DEF Init, InitWorkflow, InitReused, InitSupervisor
  <2>2. WorkflowRows  BY <1>2, <1>3, <2>1 DEF WorkflowRows, Outcome
  <2>3. WorkflowProcesses
    <3>1. attempt = 0 /\ \A a \in Attempt : a \in Nat /\ a > 0
      BY DEF Init, InitRoot, Attempt
    <3> QED  BY <1>2, <3>1 DEF WorkflowProcesses, Begun
  <2>4. DueChildren  BY <1>2, Nodes DEF DueChildren
  <2> QED  BY <2>2, <2>3, <2>4
<1>5. ASSUME executor = "supervisor"
      PROVE  SupervisorRows /\ SupervisorProcesses /\ Heeded /\ ApprovedChildren
  <2>1. ignored = FALSE
    BY DEF Init, InitSupervisor
  <2>2. SupervisorRows  BY <1>2, <1>3, <2>1 DEF SupervisorRows
  <2>3. SupervisorProcesses  BY <1>2 DEF SupervisorProcesses
  <2>4. Heeded /\ ApprovedChildren  BY <1>2, Nodes DEF Heeded, ApprovedChildren
  <2> QED  BY <2>2, <2>3, <2>4
<1> QED  BY <1>1, <1>4, <1>5 DEF Inv, WorkflowInv, SupervisorInv

\* The executor of a root is fixed, so that each step concerns one of the two
\* parts and leaves the other vacuous.
LEMMA SameExecutor ==
  ASSUME Inv, [Next]_vars
  PROVE  UNCHANGED executor
BY DEF Inv, WorkflowInv, Attempts, Next, vars, rootVars, Environment, Lose, PersistEvent,
       PersistSuspension, PersistSuccess, PersistFailure, PersistCancelled, Cancel,
       ChildMoves, Wake, NextWorkflow, WorkflowStep, ForwardResume, ReadRuns, Layer,
       CreateStep, StopWaiting, Collect, EndLayer, NextSupervisor, Claim, Answer, Reply,
       SupervisorStep, MakePlan, TakeCommand, ForwardCommand, ReadResults, AskForChild,
       Replan, Proceed, CreateTask

LEMMA InvStep ==
  ASSUME Inv, [Next]_vars
  PROVE  Inv'
<1>1. WorkflowInv /\ SupervisorInv /\ UNCHANGED executor /\ executor \in Executor
  BY SameExecutor DEF Inv, WorkflowInv, Attempts
<1>2. CASE executor = "supervisor"
  <2>1. SupervisorInv'  BY <1>1, <1>2, SupervisorInvStep
  <2> QED  BY <1>1, <1>2, <2>1 DEF Inv, SupervisorInv, WorkflowInv
<1>3. CASE executor = "workflow-dag"
  <2>1. WorkflowInv'  BY <1>1, <1>3, WorkflowInvStep
  <2> QED  BY <1>1, <1>3, <2>1 DEF Inv, SupervisorInv, WorkflowInv
<1> QED  BY <1>1, <1>2, <1>3 DEF Executor

\* The inductive invariant holds for whatever the executor of the root is.
THEOREM Invariance == Spec => []Inv
<1>1. Init => Inv  BY InitInv
<1>2. Inv /\ [Next]_vars => Inv'  BY InvStep
<1> QED  BY <1>1, <1>2, PTL DEF Spec

LEMMA InvOnlyDueWork ==
  ASSUME Inv
  PROVE  OnlyDueWork
<1>1. Attempts /\ executor \in Executor  BY DEF Inv, WorkflowInv, Attempts
<1>2. CASE executor = "workflow-dag"
  <2>1. DueChildren  BY <1>2 DEF Inv, WorkflowInv
  <2> QED  BY <2>1 DEF DueChildren, Due, Settled, OnlyDueWork
<1>3. CASE executor = "supervisor"
  <2>1. ApprovedChildren  BY <1>3 DEF Inv, SupervisorInv
  <2> QED  BY <2>1 DEF ApprovedChildren, OnlyDueWork
<1> QED  BY <1>1, <1>2, <1>3 DEF Executor

\* For every workflow, team and planner, and however many attempts are lost
\* while their processes go on: no step has a child Run before what it depends
\* on has ended well, and no child Run works for a target that the user has
\* not approved, unless a revision was forgotten (_execute_workflow_durable,
\* execute_supervisor).
THEOREM OnlyDueWorkIsDone == Spec => []OnlyDueWork
BY Invariance, InvOnlyDueWork, PTL

\* A child that has ended stays so, and none goes away.
ChildrenGoOn ==
  /\ child' \in [Node -> ChildStatus]
  /\ \A n \in Node :
       /\ child[n] \in {"succeeded"} \cup Unsuccessful => child'[n] = child[n]
       /\ child[n] # "absent" => child'[n] # "absent"

LEMMA KeptGoOn ==
  ASSUME Attempts, UNCHANGED child
  PROVE  ChildrenGoOn
BY DEF Attempts, ChildrenGoOn

LEMMA ForwardGoOn ==
  ASSUME Attempts, NEW n, Forward(n)
  PROVE  ChildrenGoOn
BY DEF Attempts, ChildrenGoOn, Forward, ChildStatus, Unsuccessful

LEMMA CreateGoOn ==
  ASSUME Attempts, NEW n, NEW target, CreateOrLoad(n, target)
  PROVE  ChildrenGoOn
BY DEF Attempts, ChildrenGoOn, CreateOrLoad, ChildStatus, Unsuccessful

\* What a step does to child Runs, whoever takes it.
LEMMA StepGoesOn ==
  ASSUME Inv, [Next]_vars
  PROVE  ChildrenGoOn
<1>1. Attempts  BY DEF Inv, WorkflowInv
<1>2. CASE UNCHANGED child
  BY <1>1, <1>2, KeptGoOn
<1>3. ASSUME NEW n \in Node, ChildMoves(n) PROVE ChildrenGoOn
  <2>1. PICK next : /\ child' = [child EXCEPT ![n] = next]
                    /\ child[n] \in {"active", "waiting"}
                    /\ next \in ChildStatus \ {"absent"}
    <3>1. child[n] \in ChildStatus  BY <1>1 DEF Attempts
    <3>2. CASE child[n] = "active"
      BY <1>3, <3>2 DEF ChildMoves, ChildStatus, Unsuccessful
    <3>3. CASE child[n] = "waiting"
      BY <1>3, <3>3 DEF ChildMoves, ChildStatus, Unsuccessful
    <3>4. CASE child[n] \notin {"active", "waiting"}
      BY <1>3, <3>4 DEF ChildMoves
    <3> QED  BY <3>2, <3>3, <3>4
  <2> QED  BY <1>1, <2>1 DEF Attempts, ChildrenGoOn, Unsuccessful
<1>4. CASE Environment
  <2>1. UNCHANGED child \/ \E n \in Node : ChildMoves(n)
    BY <1>4 DEF Environment, Lose, PersistEvent, PersistSuspension, PersistSuccess,
         PersistFailure, PersistCancelled, Cancel, Wake, rest
  <2> QED  BY <2>1, <1>2, <1>3
<1>5. ASSUME NEW a \in Attempt, WorkflowStep(a) PROVE ChildrenGoOn
  <2>1. CASE StopWaiting(a)
    <3>1. UNCHANGED child \/ \E stops \in SUBSET Children(Step, {"active"}) :
                 child' = [n \in Node |->
                   IF n \in stops \cup Children(Step, {"waiting"})
                     THEN "cancelled" ELSE child[n]]
      BY <2>1 DEF StopWaiting
    <3>2. ASSUME NEW stops \in SUBSET Children(Step, {"active"}),
                 child' = [n \in Node |->
                   IF n \in stops \cup Children(Step, {"waiting"})
                     THEN "cancelled" ELSE child[n]]
          PROVE  ChildrenGoOn
      <4>1. \A n \in stops \cup Children(Step, {"waiting"}) : child[n] \in {"active", "waiting"}
        BY DEF Children
      <4>2. child \in [Node -> ChildStatus]  BY <1>1 DEF Attempts
      <4> QED  BY <3>2, <4>1, <4>2 DEF ChildrenGoOn, ChildStatus, Unsuccessful
    <3> QED  BY <1>2, <3>1, <3>2
  <2>2. CASE ~StopWaiting(a)
    <3>1. \/ UNCHANGED child
          \/ \E n : Forward(n)
          \/ \E n, target : CreateOrLoad(n, target)
      BY <1>5, <2>2 DEF WorkflowStep, ForwardResume, ReadRuns, Layer, CreateStep, Collect, EndLayer
    <3> QED  BY <1>1, <1>2, <3>1, ForwardGoOn, CreateGoOn
  <2> QED  BY <2>1, <2>2
<1>6. ASSUME NEW a \in Attempt, SupervisorStep(a) PROVE ChildrenGoOn
  <2>1. \/ UNCHANGED child
        \/ \E n : Forward(n)
        \/ \E n, target : CreateOrLoad(n, target)
    BY <1>6 DEF SupervisorStep, MakePlan, TakeCommand, ForwardCommand, ReadResults,
         AskForChild, Replan, Proceed, CreateTask
  <2> QED  BY <1>1, <1>2, <2>1, ForwardGoOn, CreateGoOn
<1>7. CASE \/ \E p : Claim(p)
           \/ \E c : Answer(c)
           \/ UNCHANGED vars
  BY <1>2, <1>7 DEF Claim, Answer, vars, rest
<1> QED
  BY <1>4, <1>5, <1>6, <1>7 DEF Next, NextWorkflow, NextSupervisor, Reply

-----------------------------------------------------------------------------
(* Supervisors: versions count the revisions and the replans, so that they   *)
(* stay within their bound, and what a process holds for done is done.       *)

BoundSave == {s \in Save : s.plan.version <= 1 + s.replans + revisions}

\* All of a set is done, as far as plans of one version can be told apart.
Reported(nodes) ==
  \A n \in nodes : child[n] = "succeeded" \/ Strays(n[1], Keys(nodes))

BoundMessage ==
  [kind : {"events"}, of : {"completed", "failed"}, nodes : SUBSET TaskNode]
    \cup [kind : {"suspend"}, save : BoundSave]
    \cup [kind : {"wait"}, nodes : SUBSET TaskNode, save : BoundSave]
    \cup [kind : {"succeeded"}, reported : {nodes \in SUBSET TaskNode : Reported(nodes)}]
    \cup [kind : {"failed"}]

\* The plan a process works on, and the one it is about to revise.
Sound(p) ==
  /\ p.save \in BoundSave \cup {None}
  /\ p.pc \notin {"begin", "over"} =>
       p.plan \in Plan /\ p.plan.version <= 1 + p.replans + revisions
  /\ p.pc = "begin" /\ p.plan # None =>
       p.plan.version + (IF p.told = "revise_plan" THEN 1 ELSE 0) <= 1 + p.replans + revisions
  /\ p.pc \in {"begin", "over"} => p.done = {}
  /\ \A k \in p.done : child[<<p.plan.version, k>>] = "succeeded"

BoundRows ==
  /\ revisions \in 0..MaxRevisions
  /\ checkpoint \in BoundSave \cup {None}
  /\ status = "waiting_input" => checkpoint \in BoundSave
  /\ command = "revise_plan" /\ checkpoint # None =>
       checkpoint.plan.version + 1 <= 1 + checkpoint.replans + revisions
  /\ leased => command = None
  /\ outbox \in [Attempt -> Seq(BoundMessage)]

BoundProcesses ==
  /\ proc \in [Attempt -> SupervisorProcess \cup {None}]
  /\ \A a \in Attempt : proc[a] # None => Sound(proc[a])
  /\ Begun

BoundInv == executor = "supervisor" => BoundRows /\ BoundProcesses

\* What has been reported stays so.
LEMMA ReportedGrows ==
  ASSUME ChildrenGoOn, NEW nodes \in SUBSET TaskNode, Reported(nodes)
  PROVE  Reported(nodes)'
<1> SUFFICES ASSUME NEW n \in nodes, child'[n] # "succeeded"
             PROVE  Strays(n[1], Keys(nodes))'
  BY DEF Reported
<1>1. n \in Node  BY DEF Node
<1>2. Strays(n[1], Keys(nodes))
  BY <1>1 DEF Reported, ChildrenGoOn
<1>3. n[1] \in Version  BY DEF TaskNode
<1> QED  BY <1>2, <1>3 DEF Strays, Keys, ChildrenGoOn, Node, TaskNode

\* Revisions and children only go on, and so does what relies on them.
LEMMA BoundsGrow ==
  ASSUME ChildrenGoOn, revisions \in Nat, revisions' \in Nat, revisions <= revisions'
  PROVE  /\ BoundSave \subseteq BoundSave'
         /\ \A p \in SupervisorProcess : Sound(p) => Sound(p)'
         /\ BoundMessage \subseteq BoundMessage'
<1>1. BoundSave \subseteq BoundSave'
  <2> SUFFICES ASSUME NEW s \in BoundSave PROVE s.plan.version <= 1 + s.replans + revisions'
    BY DEF BoundSave
  <2>1. /\ s.plan.version \in Nat /\ s.replans \in Nat
        /\ s.plan.version <= 1 + s.replans + revisions
    BY DEF BoundSave, Save, Plan, Version
  <2> QED  BY <2>1
<1>2. ASSUME NEW p \in SupervisorProcess, Sound(p) PROVE Sound(p)'
  <2>1. p.save \in BoundSave' \cup {None}  BY <1>1, <1>2 DEF Sound
  <2>2. p.replans \in Nat /\ p.plan \in Plan \cup {None} /\ p.done \subseteq Task
    BY DEF SupervisorProcess
  <2>3. p.plan \in Plan => p.plan.version \in Nat /\ p.plan.version \in Version
    BY DEF Plan, Version
  <2>4. ASSUME p.pc \notin {"begin", "over"}
        PROVE  p.plan \in Plan /\ p.plan.version <= 1 + p.replans + revisions'
    BY <1>2, <2>2, <2>3, <2>4 DEF Sound
  <2>5. ASSUME p.pc = "begin", p.plan # None
        PROVE  p.plan.version + (IF p.told = "revise_plan" THEN 1 ELSE 0)
                 <= 1 + p.replans + revisions'
    BY <1>2, <2>2, <2>3, <2>5 DEF Sound
  <2>6. ASSUME NEW k \in p.done PROVE child'[<<p.plan.version, k>>] = "succeeded"
    <3>1. p.pc \notin {"begin", "over"}  BY <1>2, <2>6 DEF Sound
    <3>2. <<p.plan.version, k>> \in Node
      BY <2>2, <2>3, <2>4, <2>6, <3>1 DEF Node, TaskNode
    <3>3. child[<<p.plan.version, k>>] = "succeeded"  BY <1>2 DEF Sound
    <3> QED  BY <3>2, <3>3 DEF ChildrenGoOn
  <2> QED  BY <1>2, <2>1, <2>4, <2>5, <2>6 DEF Sound
<1>3. \A nodes \in SUBSET TaskNode : Reported(nodes) => Reported(nodes)'  BY ReportedGrows
<1>4. BoundMessage \subseteq BoundMessage'
  <2>1. {nodes \in SUBSET TaskNode : Reported(nodes)}
          \subseteq {nodes \in SUBSET TaskNode : Reported(nodes)'}
    BY <1>3
  <2> QED  BY <1>1, <2>1 DEF BoundMessage
<1> QED  BY <1>1, <1>2, <1>4

\* A process goes on or ends, and puts messages or none.
LEMMA BoundGoesOn ==
  ASSUME Inv, BoundInv, executor = "supervisor", NEW a \in Attempt, proc[a] # None,
         NEW q \in SupervisorProcess, Sound(q)', Becomes(a, q), ChildrenGoOn, UNCHANGED <<rootVars, revisions>>,
         \/ UNCHANGED outbox
         \/ \E messages \in Seq(BoundMessage) : Puts(a, messages)
  PROVE  BoundInv'
<1>1. BoundRows /\ BoundProcesses  BY DEF BoundInv
<1>2. /\ BoundSave \subseteq BoundSave'
      /\ \A p \in SupervisorProcess : Sound(p) => Sound(p)'
      /\ BoundMessage \subseteq BoundMessage'
  BY <1>1, BoundsGrow DEF BoundRows
<1>3. outbox' \in [Attempt -> Seq(BoundMessage)]
  <2>1. outbox \in [Attempt -> Seq(BoundMessage)]  BY <1>1 DEF BoundRows
  <2> QED  BY <2>1, PutMessages
<1>4. outbox' \in [Attempt -> Seq(BoundMessage')]  BY <1>2, <1>3, MessagesStay
<1>5. BoundRows'
  BY <1>1, <1>2, <1>4 DEF BoundRows, rootVars
<1>6. /\ proc' \in [Attempt -> SupervisorProcess \cup {None}]
      /\ proc'[a] = q
      /\ \A b \in Attempt : b # a => proc'[b] = proc[b]
  BY <1>1 DEF Becomes, BoundProcesses
<1>7. Begun'
  <2>1. q # None  BY NoSupervisorAssumption
  <2> QED  BY <1>1, <1>6, <2>1, NewProcess DEF BoundInv, BoundProcesses, Inv, WorkflowInv, GoesOn, rootVars
<1>8. BoundProcesses'
  <2> SUFFICES ASSUME NEW b \in Attempt, proc'[b] # None PROVE Sound(proc[b])'
    BY <1>6, <1>7 DEF BoundProcesses
  <2>1. PICK p : p = proc'[b]  OBVIOUS
  <2>2. Sound(p)'  BY <1>1, <1>2, <1>6, <2>1 DEF BoundProcesses
  <2> QED  BY <2>1, <2>2 DEF Sound, BoundSave
<1> QED  BY <1>5, <1>8 DEF BoundInv

LEMMA BoundFacts ==
  ASSUME Inv, BoundInv, executor = "supervisor", NEW a \in Attempt, NEW p, p = proc[a], p # None
  PROVE  /\ p \in SupervisorProcess /\ Sound(p) /\ BoundRows /\ Attempts
         /\ revisions \in Nat /\ p.replans \in Nat
BY DEF Inv, SupervisorInv, BoundInv, BoundProcesses, BoundRows, SupervisorProcess

\* What a supervisor's process puts into its queue.
LEMMA BoundMessages ==
  /\ \A of \in {"completed", "failed"}, nodes \in SUBSET TaskNode :
       Events(of, nodes) \in Seq(BoundMessage)
  /\ \A s \in BoundSave : Suspend(s) \in Seq(BoundMessage)
  /\ \A nodes \in SUBSET TaskNode, s \in BoundSave : Wait(nodes, s) \in Seq(BoundMessage)
  /\ \A nodes \in SUBSET TaskNode : Reported(nodes) => Succeed(nodes) \in Seq(BoundMessage)
  /\ Fail \in Seq(BoundMessage)
  /\ \A u, v \in Seq(BoundMessage) : u \o v \in Seq(BoundMessage)
<1> DEFINE M == BoundMessage
<1>1. ASSUME NEW of \in {"completed", "failed"}, NEW nodes \in SUBSET TaskNode
      PROVE  Events(of, nodes) \in Seq(M)
  <2>1. [kind |-> "events", of |-> of, nodes |-> nodes] \in M  BY DEF BoundMessage
  <2> QED  BY <2>1, EventMessages
<1>2. ASSUME NEW s \in BoundSave PROVE Suspend(s) \in Seq(M)
  <2>1. [kind |-> "suspend", save |-> s] \in M  BY <1>2 DEF BoundMessage
  <2> HIDE DEF M
  <2> QED  BY <2>1 DEF Suspend
<1>3. ASSUME NEW nodes \in SUBSET TaskNode, NEW s \in BoundSave
      PROVE  Wait(nodes, s) \in Seq(M)
  <2>1. [kind |-> "wait", nodes |-> nodes, save |-> s] \in M  BY <1>3 DEF BoundMessage
  <2> HIDE DEF M
  <2> QED  BY <2>1 DEF Wait
<1>4. ASSUME NEW nodes \in SUBSET TaskNode, Reported(nodes) PROVE Succeed(nodes) \in Seq(M)
  <2>1. [kind |-> "succeeded", reported |-> nodes] \in M  BY <1>4 DEF BoundMessage
  <2> HIDE DEF M
  <2> QED  BY <2>1 DEF Succeed
<1>5. Fail \in Seq(M)
  <2>1. [kind |-> "failed"] \in M  BY DEF BoundMessage
  <2> HIDE DEF M
  <2> QED  BY <2>1 DEF Fail
<1>6. \A u, v \in Seq(M) : u \o v \in Seq(M)  OBVIOUS
<1> HIDE DEF M
<1> QED  BY <1>1, <1>2, <1>3, <1>4, <1>5, <1>6 DEF M

LEMMA BoundEnding ==
  ASSUME Inv, BoundInv, executor = "supervisor", NEW a \in Attempt, proc[a] # None,
         SupervisorEnds(a), UNCHANGED <<rootVars, revisions>>, ChildrenGoOn,
         NEW messages \in Seq(BoundMessage), Puts(a, messages)
  PROVE  BoundInv'
<1>1. PICK p : p = proc[a]  OBVIOUS
<1>2. p \in SupervisorProcess  BY <1>1, BoundFacts
<1>3. PICK q : q = SupervisorAt("over", None, p.told)  OBVIOUS
<1>4. q \in SupervisorProcess
  BY <1>2, <1>3 DEF SupervisorAt, SupervisorProcess
<1>5. Sound(q)'  BY <1>3 DEF SupervisorAt, Sound
<1>6. Becomes(a, q)  BY <1>1, <1>3 DEF SupervisorEnds
<1> QED  BY <1>4, <1>5, <1>6, BoundGoesOn

LEMMA BoundRaising ==
  ASSUME Inv, BoundInv, executor = "supervisor", NEW a \in Attempt, proc[a] # None,
         Raise(a), UNCHANGED <<rootVars, revisions>>, ChildrenGoOn
  PROVE  BoundInv'
BY BoundEnding, BoundMessages DEF Raise

\* A plan of a version that is due, and a plan that is proposed.
LEMMA DuePlan ==
  ASSUME BoundRows, NEW replans \in 0..MaxReplans, NEW version \in Nat \ {0},
         version <= 1 + replans + revisions, NEW budget, NEW plan \in Proposals(version, budget)
  PROVE  plan \in Plan /\ plan.version = version
<1>1. version \in Version
  BY DEF BoundRows, Version
<1> QED  BY <1>1 DEF Proposals, Plan

LEMMA BoundProposing ==
  ASSUME Inv, BoundInv, executor = "supervisor", NEW a \in Attempt, proc[a] # None,
         NEW replans \in 0..MaxReplans, NEW version \in Nat \ {0},
         version <= 1 + replans + revisions,
         NEW budget, NEW plan \in Proposals(version, budget),
         Propose(a, proc[a], plan, replans),
         UNCHANGED <<rootVars, revisions>>, ChildrenGoOn
  PROVE  BoundInv'
<1>1. PICK p : p = proc[a]  OBVIOUS
<1>2. p \in SupervisorProcess /\ BoundRows  BY <1>1, BoundFacts
<1>3. plan \in Plan /\ plan.version = version  BY <1>2, DuePlan
<1>4. PICK s : s = Saved(p, plan, replans, None)  OBVIOUS
<1>5. s \in BoundSave
  BY <1>2, <1>3, <1>4 DEF Saved, BoundSave, Save, SupervisorProcess
<1>6. Puts(a, Suspend(s)) /\ SupervisorEnds(a)  BY <1>1, <1>4 DEF Propose
<1> QED  BY <1>5, <1>6, BoundEnding, BoundMessages

LEMMA BoundMakePlan ==
  ASSUME Inv, BoundInv, executor = "supervisor", NEW a \in Attempt, proc[a] # None,
         MakePlan(a), ChildrenGoOn
  PROVE  BoundInv'
<1>1. PICK p : p = proc[a]  OBVIOUS
<1>2. /\ p \in SupervisorProcess /\ Sound(p) /\ BoundRows
      /\ revisions \in Nat /\ p.replans \in Nat
  BY <1>1, BoundFacts
<1>3. PICK version : version = IF p.plan = None THEN 1 ELSE p.plan.version + 1  OBVIOUS
<1>4. p.pc = "begin" /\ (p.plan = None \/ p.told = "revise_plan")
      /\ UNCHANGED <<rootVars, revisions>>
  BY <1>1 DEF MakePlan, historyVars
<1>5. /\ p.replans \in 0..MaxReplans /\ version \in Nat \ {0}
      /\ version <= 1 + p.replans + revisions
  <2>1. CASE p.plan = None
    BY <1>2, <1>3, <2>1 DEF SupervisorProcess
  <2>2. CASE p.plan # None
    <3>1. p.plan \in Plan  BY <1>2, <2>2 DEF SupervisorProcess
    <3>2. p.plan.version \in Nat  BY <3>1 DEF Plan, Version
    <3> QED  BY <1>2, <1>3, <1>4, <2>2, <3>2 DEF Sound, SupervisorProcess
  <2> QED  BY <2>1, <2>2
<1>6. ASSUME NEW plan \in Proposals(version, TaskBudget), Propose(a, proc[a], plan, p.replans)
      PROVE  BoundInv'
  BY <1>4, <1>5, <1>6, BoundProposing
<1>7. CASE Raise(a)  BY <1>4, <1>7, BoundRaising
<1> QED  BY <1>1, <1>3, <1>6, <1>7 DEF MakePlan

LEMMA BoundTakeCommand ==
  ASSUME Inv, BoundInv, executor = "supervisor", NEW a \in Attempt, proc[a] # None,
         TakeCommand(a), ChildrenGoOn
  PROVE  BoundInv'
<1>1. PICK p : p = proc[a]  OBVIOUS
<1>2. p \in SupervisorProcess /\ Sound(p) /\ BoundRows
  BY <1>1, BoundFacts
<1>3. p.pc = "begin" /\ p.plan # None /\ p.told # "revise_plan"
      /\ UNCHANGED <<rootVars, revisions, outbox>>
  BY <1>1 DEF TakeCommand, historyVars
<1>4. p.plan \in Plan /\ p.plan.version \in Nat
  BY <1>2, <1>3 DEF SupervisorProcess, Plan, Version
<1>5. PICK targets : targets = IF p.told = "approve_plan" THEN Members(p.plan) ELSE p.targets
  OBVIOUS
<1>6. targets \in SUBSET Target
  <2>1. Members(p.plan) \in SUBSET Target  BY <1>4 DEF Plan, Members
  <2> QED  BY <1>2, <1>5, <2>1 DEF SupervisorProcess
<1>7. PICK q : q = [p EXCEPT !.pc = "forward", !.targets = targets]  OBVIOUS
<1>8. Becomes(a, q)  BY <1>1, <1>5, <1>7 DEF TakeCommand
<1>9. q \in SupervisorProcess
  BY <1>2, <1>6, <1>7 DEF SupervisorProcess
<1>10. Sound(q)
  <2>1. /\ q.pc = "forward" /\ q.save = p.save /\ q.plan = p.plan /\ q.told = p.told
        /\ q.replans = p.replans /\ q.done = p.done
    BY <1>2, <1>7 DEF SupervisorProcess
  <2>2. p.plan.version + 0 = p.plan.version  BY <1>4
  <2> QED  BY <1>2, <1>3, <1>4, <2>1, <2>2 DEF Sound
<1>11. Sound(q)'
  BY <1>2, <1>3, <1>9, <1>10, BoundsGrow DEF BoundRows
<1> QED  BY <1>3, <1>8, <1>9, <1>11, BoundGoesOn

LEMMA BoundForward ==
  ASSUME Inv, BoundInv, executor = "supervisor", NEW a \in Attempt, proc[a] # None,
         ForwardCommand(a), ChildrenGoOn
  PROVE  BoundInv'
<1>1. PICK p : p = proc[a]  OBVIOUS
<1>2. p \in SupervisorProcess /\ Sound(p) /\ BoundRows
  BY <1>1, BoundFacts
<1>3. p.pc = "forward" /\ UNCHANGED <<rootVars, revisions>>
  BY <1>1 DEF ForwardCommand, historyVars
<1>4. CASE Raise(a)  BY <1>3, <1>4, BoundRaising
<1>5. CASE Becomes(a, [p EXCEPT !.pc = "read"]) /\ UNCHANGED outbox
  <2>1. PICK q : q = [p EXCEPT !.pc = "read"]  OBVIOUS
  <2>2. q \in SupervisorProcess /\ Sound(q)
    BY <1>2, <1>3, <2>1 DEF SupervisorProcess, Sound
  <2>3. Sound(q)'  BY <1>2, <1>3, <2>2, BoundsGrow DEF BoundRows
  <2> QED  BY <1>3, <1>5, <2>1, <2>2, <2>3, BoundGoesOn
<1> QED  BY <1>1, <1>4, <1>5 DEF ForwardCommand

\* A process that carries out a plan of its version.
LEMMA BoundCarrying ==
  ASSUME Inv, BoundInv, executor = "supervisor", NEW a \in Attempt, NEW p, p = proc[a], p # None,
         p.pc \notin {"begin", "over"}
  PROVE  /\ p \in SupervisorProcess /\ Sound(p) /\ BoundRows
         /\ p.plan \in Plan /\ p.plan.version \in Version /\ p.plan.version \in Nat \ {0}
         /\ NodesOf(p.plan.version) \in SUBSET TaskNode
         /\ \A asker \in TaskNode \cup {None} : Saved(p, p.plan, p.replans, asker) \in BoundSave
<1>1. p \in SupervisorProcess /\ Sound(p) /\ BoundRows  BY BoundFacts
<1>2. p.plan \in Plan /\ p.plan.version \in Version /\ p.plan.version \in Nat \ {0}
      /\ p.plan.version <= 1 + p.replans + revisions
  BY <1>1 DEF Sound, Plan, Version
<1>3. NodesOf(p.plan.version) \in SUBSET TaskNode  BY <1>2 DEF NodesOf, TaskNode
<1>4. ASSUME NEW asker \in TaskNode \cup {None}
      PROVE  Saved(p, p.plan, p.replans, asker) \in BoundSave
  BY <1>1, <1>2 DEF Saved, BoundSave, Save, SupervisorProcess
<1> QED  BY <1>1, <1>2, <1>3, <1>4

LEMMA BoundReadResults ==
  ASSUME Inv, BoundInv, executor = "supervisor", NEW a \in Attempt, proc[a] # None,
         ReadResults(a), ChildrenGoOn
  PROVE  BoundInv'
<1>1. PICK p : p = proc[a]  OBVIOUS
<1>2. p.pc = "read" /\ UNCHANGED <<rootVars, revisions, child>>
  BY <1>1 DEF ReadResults, historyVars
<1>3. /\ p \in SupervisorProcess /\ Sound(p) /\ BoundRows
      /\ NodesOf(p.plan.version) \in SUBSET TaskNode
  BY <1>1, <1>2, BoundCarrying
<1>4. PICK nodes, done : /\ nodes = NodesOf(p.plan.version)
                         /\ done = Children(nodes, {"succeeded"})
  OBVIOUS
<1>5. done \in SUBSET TaskNode /\ NewFailures(nodes) \in SUBSET TaskNode
  BY <1>3, <1>4 DEF NewFailures, Children
<1>6. /\ Keys(done) \in SUBSET Task /\ Keys(Children(nodes, Unsuccessful)) \in SUBSET Task
      /\ \A k \in Keys(done) : child[<<p.plan.version, k>>] = "succeeded"
  BY <1>4 DEF Keys, Children, NodesOf
<1>7. PICK messages : messages = Events("completed", done \ Emitted("completed", nodes))
                                   \o Events("failed", NewFailures(nodes))
  OBVIOUS
<1>8. messages \in Seq(BoundMessage)
  <2>1. done \ Emitted("completed", nodes) \in SUBSET TaskNode  BY <1>5
  <2>2. Events("completed", done \ Emitted("completed", nodes)) \in Seq(BoundMessage)
    BY <2>1, BoundMessages
  <2>3. Events("failed", NewFailures(nodes)) \in Seq(BoundMessage)
    BY <1>5, BoundMessages
  <2> QED  BY <1>7, <2>2, <2>3, BoundMessages
<1>9. PICK q : q = [p EXCEPT !.pc = "ask", !.done = Keys(done),
                             !.failed = Keys(Children(nodes, Unsuccessful))]
  OBVIOUS
<1>10. q \in SupervisorProcess /\ Sound(q)
  <2>1. q \in SupervisorProcess  BY <1>3, <1>6, <1>9 DEF SupervisorProcess
  <2>2. /\ q.pc = "ask" /\ q.save = p.save /\ q.plan = p.plan
        /\ q.replans = p.replans /\ q.done = Keys(done)
    BY <1>3, <1>9 DEF SupervisorProcess
  <2> QED  BY <1>2, <1>3, <1>6, <2>1, <2>2 DEF Sound
<1>11. Puts(a, messages) /\ Becomes(a, q)
  BY <1>1, <1>4, <1>7, <1>9 DEF ReadResults
<1>12. Sound(q)'  BY <1>2, <1>3, <1>10, BoundsGrow DEF BoundRows
<1> QED  BY <1>2, <1>8, <1>10, <1>11, <1>12, BoundGoesOn

LEMMA BoundAskForChild ==
  ASSUME Inv, BoundInv, executor = "supervisor", NEW a \in Attempt, proc[a] # None,
         AskForChild(a), ChildrenGoOn
  PROVE  BoundInv'
<1>1. PICK p : p = proc[a]  OBVIOUS
<1>2. p.pc = "ask" /\ UNCHANGED <<rootVars, revisions>>
  BY <1>1 DEF AskForChild, historyVars
<1>3. /\ p \in SupervisorProcess /\ Sound(p) /\ BoundRows
      /\ NodesOf(p.plan.version) \in SUBSET TaskNode
      /\ \A asker \in TaskNode \cup {None} : Saved(p, p.plan, p.replans, asker) \in BoundSave
  BY <1>1, <1>2, BoundCarrying
<1>4. ASSUME NEW n \in Children(NodesOf(p.plan.version), {"waiting"}),
             Puts(a, Suspend(Saved(p, p.plan, p.replans, n))), SupervisorEnds(a)
      PROVE  BoundInv'
  <2>1. n \in TaskNode  BY <1>3 DEF Children
  <2>2. PICK s : s = Saved(p, p.plan, p.replans, n)  OBVIOUS
  <2>3. s \in BoundSave  BY <1>3, <2>1, <2>2
  <2>4. Suspend(s) \in Seq(BoundMessage)  BY <2>3, BoundMessages
  <2> QED  BY <1>1, <1>2, <1>4, <2>2, <2>4, BoundEnding
<1>5. CASE Becomes(a, [p EXCEPT !.pc = "decide"]) /\ UNCHANGED outbox
  <2>1. PICK q : q = [p EXCEPT !.pc = "decide"]  OBVIOUS
  <2>2. q \in SupervisorProcess /\ Sound(q)
    BY <1>2, <1>3, <2>1 DEF SupervisorProcess, Sound
  <2>3. Sound(q)'  BY <1>2, <1>3, <2>2, BoundsGrow DEF BoundRows
  <2> QED  BY <1>2, <1>5, <2>1, <2>2, <2>3, BoundGoesOn
<1> QED  BY <1>1, <1>4, <1>5 DEF AskForChild

LEMMA BoundReplan ==
  ASSUME Inv, BoundInv, executor = "supervisor", NEW a \in Attempt, proc[a] # None,
         Replan(a), ChildrenGoOn
  PROVE  BoundInv'
<1>1. PICK p : p = proc[a]  OBVIOUS
<1>2. p.pc = "decide" /\ UNCHANGED <<rootVars, revisions>>
  BY <1>1 DEF Replan, historyVars
<1>3. /\ p \in SupervisorProcess /\ Sound(p) /\ BoundRows
      /\ p.plan \in Plan /\ p.plan.version \in Nat \ {0}
      /\ p.plan.version <= 1 + p.replans + revisions /\ revisions \in Nat /\ p.replans \in 0..MaxReplans
  BY <1>1, <1>2, BoundCarrying, BoundFacts DEF Sound, SupervisorProcess
<1>4. CASE Raise(a)  BY <1>2, <1>4, BoundRaising
<1>5. ASSUME MayReplan(p), NEW plan \in Proposals(p.plan.version + 1, Remaining),
             IF MayApply(p, plan)
               THEN /\ Becomes(a, [p EXCEPT !.plan = plan, !.replans = @ + 1,
                                            !.done = {}, !.failed = {}])
                    /\ UNCHANGED outbox
               ELSE Propose(a, proc[a], plan, p.replans + 1)
      PROVE  BoundInv'
  <2>1. PICK version, replans : version = p.plan.version + 1 /\ replans = p.replans + 1
    OBVIOUS
  <2>2. replans \in 0..MaxReplans /\ version \in Nat \ {0} /\ version <= 1 + replans + revisions
    BY <1>3, <1>5, <2>1 DEF MayReplan
  <2>3. CASE MayApply(p, plan)
    <3>1. PICK q : q = [p EXCEPT !.plan = plan, !.replans = @ + 1,
                                 !.done = {}, !.failed = {}]
      OBVIOUS
    <3>2. plan \in Plan /\ plan.version = version  BY <1>3, <2>1, <2>2, DuePlan
    <3>3. q \in SupervisorProcess
      BY <1>3, <2>1, <2>2, <3>1, <3>2 DEF SupervisorProcess
    <3>4. Sound(q)
      <4>1. /\ q.pc = "decide" /\ q.save = p.save /\ q.plan = plan
            /\ q.replans = replans /\ q.done = {}
        BY <1>2, <1>3, <2>1, <3>1 DEF SupervisorProcess
      <4> QED  BY <1>3, <2>2, <3>2, <4>1 DEF Sound
    <3>5. Sound(q)'  BY <1>2, <1>3, <3>3, <3>4, BoundsGrow DEF BoundRows
    <3> QED  BY <1>2, <1>5, <2>3, <3>1, <3>3, <3>5, BoundGoesOn
  <2>4. CASE ~MayApply(p, plan)
    BY <1>2, <1>5, <2>1, <2>2, <2>4, BoundProposing
  <2> QED  BY <2>3, <2>4
<1> QED  BY <1>1, <1>4, <1>5 DEF Replan

\* As many results as tasks: the tasks of the plan have succeeded, or a task of
\* another plan with the same version is among the results.
LEMMA AllReported ==
  ASSUME NEW p, p.plan \in Plan, p.done \subseteq Task, Finished(p),
         \A k \in p.done : child[<<p.plan.version, k>>] = "succeeded"
  PROVE  Reported({<<p.plan.version, k>> : k \in DOMAIN p.plan.tasks})
<1>1. PICK keys, version, nodes :
        /\ keys = DOMAIN p.plan.tasks /\ version = p.plan.version
        /\ nodes = {<<version, k>> : k \in keys}
  OBVIOUS
<1>2. keys \subseteq Task  BY <1>1 DEF Plan
<1>3. Keys(nodes) = keys
  <2>1. \A k \in keys : <<version, k>> \in nodes /\ <<version, k>>[2] = k  BY <1>1
  <2>2. \A n \in nodes : n[2] \in keys  BY <1>1
  <2>3. ASSUME NEW k \in keys PROVE k \in Keys(nodes)
    <3>1. \E n \in nodes : n[2] = k  BY <2>1
    <3> QED  BY <3>1 DEF Keys
  <2>4. ASSUME NEW k \in Keys(nodes) PROVE k \in keys  BY <2>2, <2>4 DEF Keys
  <2> QED  BY <2>3, <2>4
<1>4. CASE p.done \subseteq keys
  <2>1. IsFiniteSet(keys) /\ IsFiniteSet(p.done)  BY <1>2, FS_Subset
  <2>2. p.done = keys
    BY <1>1, <1>4, <2>1, FS_Subset DEF Finished
  <2> QED  BY <1>1, <2>2 DEF Reported
<1>5. CASE ~(p.done \subseteq keys)
  <2>1. PICK k \in p.done : k \notin keys  BY <1>5
  <2>2. Strays(version, keys)
    <3>1. child[<<version, k>>] = "succeeded" /\ k \in Task \ keys  BY <1>1, <2>1
    <3> QED  BY <3>1 DEF Strays
  <2> QED  BY <1>1, <1>3, <2>2 DEF Reported
<1> QED  BY <1>1, <1>4, <1>5

LEMMA BoundProceed ==
  ASSUME Inv, BoundInv, executor = "supervisor", NEW a \in Attempt, proc[a] # None,
         Proceed(a), ChildrenGoOn
  PROVE  BoundInv'
<1>1. PICK p : p = proc[a]  OBVIOUS
<1>2. p.pc = "decide" /\ UNCHANGED <<rootVars, revisions>>
  BY <1>1 DEF Proceed, historyVars
<1>3. /\ p \in SupervisorProcess /\ Sound(p) /\ BoundRows
      /\ p.plan \in Plan /\ p.plan.version \in Version
  BY <1>1, <1>2, BoundCarrying
<1>4. DOMAIN p.plan.tasks \subseteq Task  BY <1>3 DEF Plan
<1>5. CASE Raise(a)  BY <1>2, <1>5, BoundRaising
<1>6. PICK nodes : nodes = {<<p.plan.version, k>> : k \in DOMAIN p.plan.tasks}
  OBVIOUS
<1>7. CASE Finished(p) /\ Puts(a, Succeed(nodes)) /\ SupervisorEnds(a)
  <2>1. nodes \in SUBSET TaskNode  BY <1>3, <1>4, <1>6 DEF TaskNode
  <2>2. p.done \subseteq Task  BY <1>3 DEF SupervisorProcess
  <2>3. Reported(nodes)  BY <1>3, <1>6, <1>7, <2>2, AllReported DEF Sound
  <2>4. Succeed(nodes) \in Seq(BoundMessage)  BY <2>1, <2>3, BoundMessages
  <2> QED  BY <1>2, <1>7, <2>4, BoundEnding
<1>8. ASSUME NEW next \in SUBSET ReadyTasks(p),
             Becomes(a, [p EXCEPT !.pc = "create", !.todo = next, !.active = {}]),
             UNCHANGED outbox
      PROVE  BoundInv'
  <2>1. next \subseteq Task  BY <1>4 DEF ReadyTasks
  <2>2. PICK q : q = [p EXCEPT !.pc = "create", !.todo = next, !.active = {}]
    OBVIOUS
  <2>3. q \in SupervisorProcess  BY <1>3, <2>1, <2>2 DEF SupervisorProcess
  <2>4. /\ q.pc = "create" /\ q.save = p.save /\ q.plan = p.plan
        /\ q.replans = p.replans /\ q.done = p.done
    BY <1>3, <2>2 DEF SupervisorProcess
  <2>5. Sound(q)  BY <1>2, <1>3, <2>3, <2>4 DEF Sound
  <2>6. Sound(q)'  BY <1>2, <1>3, <2>3, <2>5, BoundsGrow DEF BoundRows
  <2> QED  BY <1>2, <1>8, <2>2, <2>3, <2>6, BoundGoesOn
<1>9. nodes = {<<proc[a].plan.version, k>> : k \in DOMAIN proc[a].plan.tasks}
  BY <1>1, <1>6
<1> QED  BY <1>1, <1>5, <1>7, <1>8, <1>9 DEF Proceed

LEMMA BoundCreateTask ==
  ASSUME Inv, BoundInv, executor = "supervisor", NEW a \in Attempt, proc[a] # None,
         CreateTask(a), ChildrenGoOn
  PROVE  BoundInv'
<1>1. PICK p : p = proc[a]  OBVIOUS
<1>2. p.pc = "create" /\ UNCHANGED <<rootVars, revisions>>
  BY <1>1 DEF CreateTask, historyVars
<1>3. /\ p \in SupervisorProcess /\ Sound(p) /\ BoundRows
      /\ p.plan \in Plan /\ p.plan.version \in Version
      /\ \A asker \in TaskNode \cup {None} : Saved(p, p.plan, p.replans, asker) \in BoundSave
  BY <1>1, <1>2, BoundCarrying
<1>4. ASSUME NEW k \in p.todo,
             Becomes(a, [p EXCEPT !.todo = @ \ {k},
                                  !.active = @ \cup {<<p.plan.version, k>>}]),
             UNCHANGED outbox
      PROVE  BoundInv'
  <2>1. PICK todo, active : todo = p.todo \ {k} /\ active = p.active \cup {<<p.plan.version, k>>}
    OBVIOUS
  <2>2. todo \in SUBSET Task /\ active \in SUBSET TaskNode
    BY <1>3, <2>1 DEF SupervisorProcess, TaskNode
  <2>3. PICK q : q = [p EXCEPT !.todo = todo, !.active = active]  OBVIOUS
  <2>4. q \in SupervisorProcess  BY <1>3, <2>2, <2>3 DEF SupervisorProcess
  <2>5. /\ q.pc = p.pc /\ q.save = p.save /\ q.plan = p.plan
        /\ q.replans = p.replans /\ q.done = p.done
    BY <1>3, <2>3 DEF SupervisorProcess
  <2>6. Sound(q)  BY <1>2, <1>3, <2>4, <2>5 DEF Sound
  <2>7. Sound(q)'  BY <1>2, <1>3, <2>4, <2>6, BoundsGrow DEF BoundRows
  <2>8. Becomes(a, q)  BY <1>4, <2>1, <2>3
  <2> QED  BY <1>2, <1>4, <2>4, <2>7, <2>8, BoundGoesOn
<1>5. CASE /\ Puts(a, Wait(p.active, Saved(p, p.plan, p.replans, None)))
           /\ SupervisorEnds(a)
  <2>1. PICK s : s = Saved(p, p.plan, p.replans, None)  OBVIOUS
  <2>2. s \in BoundSave /\ p.active \in SUBSET TaskNode
    BY <1>3, <2>1 DEF SupervisorProcess
  <2>3. Wait(p.active, s) \in Seq(BoundMessage)  BY <2>2, BoundMessages
  <2> QED  BY <1>2, <1>5, <2>1, <2>3, BoundEnding
<1> QED  BY <1>1, <1>4, <1>5 DEF CreateTask

\* An attempt begins with the plan of the newest suspension.
LEMMA BoundClaim ==
  ASSUME Inv, BoundInv, executor = "supervisor", Claim(SupervisorBegins),
         UNCHANGED historyVars, ChildrenGoOn
  PROVE  BoundInv'
<1>1. /\ Attempts /\ BoundRows /\ BoundProcesses /\ attempt + 1 \in Attempt
      /\ command \in Commands \cup {None}
  BY NewestAttempt DEF Inv, SupervisorInv, SupervisorRows, BoundInv, Claim
<1>2. /\ UNCHANGED <<checkpoint, outbox, revisions>> /\ command' = None
      /\ status' = "running"
  BY DEF Claim, historyVars
<1>3. BoundSave' = BoundSave  BY <1>2 DEF BoundSave
<1>4. PICK q : q = SupervisorBegins  OBVIOUS
<1>5. checkpoint \in BoundSave \cup {None} /\ revisions \in Nat  BY <1>1 DEF BoundRows
<1>6. q \in SupervisorProcess /\ Sound(q)
  <2>1. CASE checkpoint = None
    BY <1>1, <1>4, <2>1 DEF SupervisorBegins, SupervisorAt, SupervisorProcess, Sound
  <2>2. CASE checkpoint # None
    <3>1. PICK s : s = checkpoint  OBVIOUS
    <3>2. s \in BoundSave /\ s \in Save /\ s # None  BY <1>5, <2>2, <3>1 DEF BoundSave
    <3>3. s.plan \in Plan /\ s.replans \in 0..MaxReplans /\ s.targets \in SUBSET Target
      BY <3>2 DEF Save
    <3>4. q \in SupervisorProcess
      BY <1>1, <1>4, <3>1, <3>2, <3>3 DEF SupervisorBegins, SupervisorAt, SupervisorProcess
    <3>5. /\ q.pc = "begin" /\ q.save = s /\ q.plan = s.plan /\ q.told = command
          /\ q.replans = s.replans /\ q.done = {}
      BY <1>4, <3>1, <3>2 DEF SupervisorBegins, SupervisorAt
    <3>6. s.plan.version \in Nat /\ s.plan.version <= 1 + s.replans + revisions
      BY <3>2, <3>3 DEF BoundSave, Plan, Version
    <3>7. command = "revise_plan" => s.plan.version + 1 <= 1 + s.replans + revisions
      BY <1>1, <3>1, <3>2 DEF BoundRows
    <3>8. s.plan.version + (IF command = "revise_plan" THEN 1 ELSE 0)
            <= 1 + s.replans + revisions
      BY <3>6, <3>7
    <3> QED  BY <3>2, <3>4, <3>5, <3>8 DEF Sound
  <2> QED  BY <2>1, <2>2
<1>7. Sound(q)'  BY <1>2, <1>5, <1>6, BoundsGrow
<1>8. BoundRows'
  <2>1. BoundMessage \subseteq BoundMessage'  BY <1>2, <1>5, BoundsGrow
  <2>2. outbox' \in [Attempt -> Seq(BoundMessage')]
    BY <1>1, <1>2, <2>1, MessagesStay DEF BoundRows
  <2> QED  BY <1>1, <1>2, <1>3, <2>2, NoSupervisorAssumption DEF BoundRows, Commands
<1>9. /\ proc' \in [Attempt -> SupervisorProcess \cup {None}]
      /\ proc'[attempt + 1] = q
      /\ \A b \in Attempt : b # attempt + 1 => proc'[b] = proc[b]
  BY <1>1, <1>4, <1>6 DEF Claim, BoundProcesses
<1>10. BoundProcesses'
  <2>0. Begun'
    <3>1. q # None  BY <1>6, NoSupervisorAssumption
    <3> QED  BY <1>1, <1>9, <3>1, NewProcess DEF BoundProcesses, GoesOn, Claim
  <2> SUFFICES ASSUME NEW b \in Attempt, proc'[b] # None PROVE Sound(proc[b])'
    BY <1>9, <2>0 DEF BoundProcesses
  <2>1. PICK p : p = proc'[b]  OBVIOUS
  <2>2. Sound(p)'
    <3>1. CASE b = attempt + 1  BY <1>7, <1>9, <2>1, <3>1
    <3>2. CASE b # attempt + 1
      <4>1. p \in SupervisorProcess /\ Sound(p)
        BY <1>1, <1>9, <2>1, <3>2 DEF BoundProcesses
      <4> QED  BY <1>2, <1>5, <4>1, BoundsGrow
    <3> QED  BY <3>1, <3>2
  <2> QED  BY <2>1, <2>2 DEF Sound, BoundSave
<1> QED  BY <1>8, <1>10 DEF BoundInv

\* The processes are as they were, and what they rely on goes on.
LEMMA BoundProcessesStay ==
  ASSUME BoundProcesses, UNCHANGED <<proc, attempt>>, ChildrenGoOn, revisions \in Nat, revisions' \in Nat,
         revisions <= revisions'
  PROVE  BoundProcesses'
<1> SUFFICES ASSUME NEW a \in Attempt, proc[a] # None
             PROVE  Sound(proc[a])'
  BY DEF BoundProcesses, Begun
<1>1. PICK p : p = proc[a]  OBVIOUS
<1>2. p \in SupervisorProcess /\ Sound(p)  BY <1>1 DEF BoundProcesses
<1>3. Sound(p)'  BY <1>2, BoundsGrow
<1>4. proc'[a] = p  BY <1>1
<1> QED  BY <1>3, <1>4 DEF Sound, BoundSave

\* A revision counts when it is asked for.
LEMMA BoundReply ==
  ASSUME Inv, BoundInv, executor = "supervisor", Reply, ChildrenGoOn
  PROVE  BoundInv'
<1>1. Attempts /\ BoundRows /\ BoundProcesses
  BY DEF Inv, SupervisorInv, BoundInv
<1>2. PICK c \in Commands :
        /\ Answer(c)
        /\ IF c = "revise_plan" THEN revisions < MaxRevisions /\ revisions' = revisions + 1
                                ELSE revisions' = revisions
  BY DEF Reply, historyVars, Commands
<1>3. /\ UNCHANGED <<proc, attempt, outbox, checkpoint>> /\ command' = c
      /\ ~leased' /\ status' = "queued"
  BY <1>1, <1>2 DEF Answer, rest, Attempts
<1>4. /\ revisions \in Nat /\ revisions' \in 0..MaxRevisions /\ revisions' \in Nat
      /\ revisions <= revisions'
  BY <1>1, <1>2 DEF BoundRows
<1>5. PICK s : s = checkpoint  OBVIOUS
<1>6. (s \in BoundSave /\ s # None) \/ s = None
  BY <1>1, <1>5 DEF BoundRows
<1>7. BoundSave \subseteq BoundSave' /\ BoundMessage \subseteq BoundMessage'
  BY <1>4, BoundsGrow
<1>8. BoundProcesses'  BY <1>1, <1>3, <1>4, BoundProcessesStay
<1>9. ASSUME c = "revise_plan", s # None
      PROVE  s.plan.version + 1 <= 1 + s.replans + revisions'
  <2>1. /\ s.plan.version \in Nat /\ s.replans \in Nat
        /\ s.plan.version <= 1 + s.replans + revisions
    BY <1>6, <1>9 DEF BoundSave, Save, Plan, Version
  <2>2. revisions' = revisions + 1  BY <1>2, <1>9
  <2> QED  BY <1>4, <2>1, <2>2
<1>10. outbox' \in [Attempt -> Seq(BoundMessage')]
  BY <1>1, <1>3, <1>7, MessagesStay DEF BoundRows
<1>11. BoundRows'  BY <1>1, <1>3, <1>4, <1>5, <1>6, <1>7, <1>9, <1>10 DEF BoundRows
<1> QED  BY <1>8, <1>11 DEF BoundInv

LEMMA BoundEnvironment ==
  ASSUME Inv, BoundInv, executor = "supervisor", Environment, UNCHANGED revisions, ChildrenGoOn
  PROVE  BoundInv'
<1> DEFINE M == BoundMessage
           m == Head(outbox[attempt])
<1>1. /\ Attempts /\ BoundRows /\ BoundProcesses
      /\ outbox \in [Attempt -> Seq(M)] /\ <<>> \in Seq(M)
      /\ revisions \in Nat
  BY DEF Inv, SupervisorInv, BoundInv, BoundRows
<1>2. BoundSave' = BoundSave /\ BoundMessage \subseteq BoundMessage'
  BY <1>1, BoundsGrow DEF BoundSave
<1>3. UNCHANGED <<proc, attempt>>
  BY DEF Environment, Lose, PersistEvent, PersistSuspension, PersistSuccess,
         PersistFailure, PersistCancelled, Cancel, ChildMoves, Wake, rest, rootVars
<1>4. BoundProcesses'  BY <1>1, <1>3, BoundProcessesStay
<1>5. ASSUME outbox' \in [Attempt -> Seq(M)], checkpoint' = checkpoint, command' = command,
             leased' => leased,
             status' # "waiting_input" \/ status' = status
      PROVE  BoundInv'
  <2>1. outbox' \in [Attempt -> Seq(M')]
    BY <1>2, <1>5, MessagesStay
  <2>2. BoundRows'  BY <1>1, <1>2, <1>5, <2>1 DEF BoundRows
  <2> QED  BY <1>4, <2>2 DEF BoundInv
<1>6. ASSUME leased, outbox[attempt] # <<>>
      PROVE  /\ attempt \in Attempt /\ m \in M
             /\ [outbox EXCEPT ![attempt] = Tail(@)] \in [Attempt -> Seq(M)]
             /\ \A first \in Seq(M) :
                  [outbox EXCEPT ![attempt] = first \o Tail(@)] \in [Attempt -> Seq(M)]
  BY <1>1, <1>6, NewestAttempt, TakeMessage
<1>7. CASE Lose
  <2>1. outbox' \in [Attempt -> Seq(M)]  BY <1>1, <1>7, NewestAttempt DEF Lose
  <2> QED  BY <1>5, <1>7, <2>1 DEF Lose, Ended
<1>8. CASE PersistSuccess \/ PersistFailure \/ PersistCancelled
  <2>1. leased /\ outbox[attempt] # <<>> /\ Pop
    BY <1>8 DEF PersistSuccess, PersistFailure, PersistCancelled, Persists
  <2>2. outbox' \in [Attempt -> Seq(M)]  BY <1>6, <2>1 DEF Pop
  <2>3. UNCHANGED <<checkpoint, command>> /\ ~leased' /\ status' # "waiting_input"
    BY <1>8 DEF PersistSuccess, PersistFailure, PersistCancelled, Ended
  <2> QED  BY <1>5, <2>2, <2>3
<1>9. CASE PersistEvent
  <2>1. leased /\ outbox[attempt] # <<>> /\ m.kind = "events"
    BY <1>9 DEF PersistEvent, Persists
  <2>2. PICK n \in m.nodes :
          outbox' = [outbox EXCEPT ![attempt] = Events(m.of, m.nodes \ {n}) \o Tail(@)]
    BY <1>9 DEF PersistEvent
  <2>3. [kind |-> "events", of |-> m.of, nodes |-> m.nodes \ {n}] \in M
    BY <1>6, <2>1 DEF BoundMessage
  <2>4. outbox' \in [Attempt -> Seq(M)]  BY <1>6, <2>1, <2>2, <2>3, EventMessages
  <2> QED  BY <1>5, <1>9, <2>4 DEF PersistEvent, rootVars
<1>10. CASE PersistSuspension
  <2>1. /\ leased /\ outbox[attempt] # <<>> /\ m.kind \in {"suspend", "wait"}
        /\ checkpoint' = m.save
        /\ outbox' = [outbox EXCEPT ![attempt] = Tail(@)]
        /\ command' = command /\ ~leased'
    BY <1>10 DEF PersistSuspension, Persists, Pop
  <2>2. m.save \in BoundSave  BY <1>6, <2>1 DEF BoundMessage
  <2>3. checkpoint' \in BoundSave' /\ command' = None
    BY <1>1, <1>2, <2>1, <2>2 DEF BoundRows
  <2>4. outbox' \in [Attempt -> Seq(M')]
    <3>1. outbox' \in [Attempt -> Seq(M)]  BY <1>6, <2>1
    <3> QED  BY <1>2, <3>1, MessagesStay
  <2>5. BoundRows'  BY <1>1, <2>1, <2>3, <2>4, NoSupervisorAssumption DEF BoundRows, Commands
  <2> QED  BY <1>4, <2>5 DEF BoundInv
<1>11. CASE Cancel \/ Wake \/ \E n \in Node : ChildMoves(n)
  <2>1. /\ UNCHANGED <<outbox, checkpoint, command, leased>>
        /\ status' # "waiting_input" \/ status' = status
    BY <1>11 DEF Cancel, Wake, ChildMoves, rest, rootVars
  <2> QED  BY <1>1, <1>5, <2>1
<1> QED
  BY <1>7, <1>8, <1>9, <1>10, <1>11 DEF Environment

LEMMA BoundInvStep ==
  ASSUME Inv, BoundInv, [Next]_vars
  PROVE  BoundInv'
<1>1. ChildrenGoOn /\ executor' = executor  BY StepGoesOn, SameExecutor
<1>2. CASE executor = "supervisor"
  <2>1. CASE NextSupervisor
    BY <1>1, <1>2, <2>1, BoundMakePlan, BoundTakeCommand, BoundForward, BoundReadResults,
       BoundAskForChild, BoundReplan, BoundProceed, BoundCreateTask, BoundClaim, BoundReply
       DEF NextSupervisor, SupervisorStep
  <2>2. CASE Environment /\ UNCHANGED revisions
    BY <1>1, <1>2, <2>2, BoundEnvironment
  <2>3. CASE UNCHANGED vars
    <3>1. UNCHANGED <<rootVars, rest, revisions>>  BY <2>3 DEF vars, historyVars
    <3>2. BoundRows /\ BoundProcesses /\ revisions \in Nat
      BY <1>2 DEF BoundInv, BoundRows
    <3>3. BoundProcesses'
      BY <1>1, <3>1, <3>2, BoundProcessesStay DEF rest, rootVars
    <3>4. BoundMessage \subseteq BoundMessage' /\ BoundSave' = BoundSave
      BY <1>1, <3>1, <3>2, BoundsGrow DEF BoundSave
    <3>5. outbox' \in [Attempt -> Seq(BoundMessage')]
      BY <3>1, <3>2, <3>4, MessagesStay DEF rest, BoundRows
    <3>6. BoundRows'  BY <3>1, <3>2, <3>4, <3>5 DEF BoundRows, rootVars
    <3> QED  BY <3>3, <3>6 DEF BoundInv
  <2> QED  BY <1>2, <2>1, <2>2, <2>3 DEF Next, NextWorkflow
<1>3. CASE executor # "supervisor"  BY <1>1, <1>3 DEF BoundInv
<1> QED  BY <1>2, <1>3

-----------------------------------------------------------------------------
(* Types.                                                                    *)

Basics ==
  /\ status \in RootStatus
  /\ losses \in 0..MaxLosses
  /\ command \in Commands \cup {None}
  /\ stored \in [Outcome -> Nat]
  /\ result = None \/ result \subseteq Node
  /\ unmet \subseteq Conditional \ reused
  /\ reused \subseteq Step
  /\ executor = "supervisor" => unmet = {} /\ reused = {}
  /\ revisions \in 0..MaxRevisions
  /\ approved \subseteq Target
  /\ ignored \in BOOLEAN

\* Whichever executor a message comes from, it is of one of the kinds.
LEMMA MessagesTyped ==
  ASSUME Inv, BoundInv
  PROVE  outbox \in [Attempt -> Seq(Message)]
<1>1. CASE executor = "workflow-dag"
  <2>1. outbox \in [Attempt -> Seq(WorkflowMessage)] /\ unmet \in SUBSET Step
    BY <1>1 DEF Inv, WorkflowInv, WorkflowRows
  <2>2. WorkflowMessage \subseteq Message
    BY <2>1 DEF WorkflowMessage, Message, Node
  <2> QED  BY <2>1, <2>2, MessagesStay
<1>2. CASE executor = "supervisor"
  <2>1. outbox \in [Attempt -> Seq(BoundMessage)]
    BY <1>2 DEF BoundInv, BoundRows
  <2>2. BoundMessage \subseteq Message
    BY DEF BoundMessage, BoundSave, Message, Node
  <2> QED  BY <2>1, <2>2, MessagesStay
<1>3. executor \in Executor  BY DEF Inv, WorkflowInv, Attempts
<1> QED  BY <1>1, <1>2, <1>3 DEF Executor

LEMMA BasicsEnvironment ==
  ASSUME Inv, BoundInv, Basics, Environment,
         UNCHANGED <<unmet, reused, revisions, approved>>, Forgets
  PROVE  Basics'
<1> DEFINE m == Head(outbox[attempt])
<1>1. executor' = executor /\ ignored' \in BOOLEAN /\ Attempts
  <2>1. executor' = executor
    BY DEF Environment, Lose, PersistEvent, PersistSuspension, PersistSuccess,
         PersistFailure, PersistCancelled, Cancel, ChildMoves, Wake, rootVars
  <2> QED  BY <2>1 DEF Forgets, Basics, Inv, WorkflowInv
<1>2. ASSUME leased, outbox[attempt] # <<>> PROVE attempt \in Attempt /\ m \in Message
  BY <1>1, <1>2, MessagesTyped, NewestAttempt, TakeMessage
<1>3. ASSUME UNCHANGED <<losses, command, stored, result>>, status' \in RootStatus
      PROVE  Basics'
  BY <1>1, <1>3 DEF Basics
<1>4. CASE Lose
  BY <1>1, <1>4 DEF Lose, Ended, Basics, RootStatus
<1>5. CASE PersistEvent
  <2>1. leased /\ outbox[attempt] # <<>> /\ m.kind = "events"
    BY <1>5 DEF PersistEvent, Persists
  <2>2. PICK n \in m.nodes : stored' = [stored EXCEPT ![[of |-> m.of, node |-> n]] = @ + 1]
    BY <1>5 DEF PersistEvent
  <2>3. stored' \in [Outcome -> Nat]
    <3>1. PICK o : o = [of |-> m.of, node |-> n]  OBVIOUS
    <3>2. stored' = [stored EXCEPT ![o] = stored[o] + 1] /\ stored \in [Outcome -> Nat]
      BY <2>2, <3>1 DEF Basics
    <3>3. o \in Outcome => stored[o] + 1 \in Nat  BY <3>2
    <3> QED  BY <3>2, <3>3
  <2>4. UNCHANGED <<rootVars, result>>  BY <1>5 DEF PersistEvent
  <2> QED  BY <1>1, <2>3, <2>4 DEF rootVars, Basics
<1>6. CASE PersistSuspension
  <2>1. UNCHANGED <<losses, command, stored, result>> /\ status' \in RootStatus
    BY <1>6 DEF PersistSuspension, RootStatus
  <2> QED  BY <1>3, <2>1
<1>7. CASE PersistSuccess
  <2>1. leased /\ outbox[attempt] # <<>> /\ m.kind = "succeeded"
    BY <1>7 DEF PersistSuccess, Persists
  <2>2. m.reported \subseteq Node  BY <1>2, <2>1 DEF Message
  <2> QED  BY <1>1, <1>7, <2>2 DEF PersistSuccess, Basics, RootStatus
<1>8. CASE PersistFailure \/ PersistCancelled
  <2>1. UNCHANGED <<losses, command, stored, result>> /\ status' \in RootStatus
    BY <1>8 DEF PersistFailure, PersistCancelled, Ended, RootStatus
  <2> QED  BY <1>3, <2>1
<1>9. CASE Cancel \/ Wake \/ \E n \in Node : ChildMoves(n)
  <2>1. UNCHANGED <<losses, command, stored, result>> /\ status' \in RootStatus
    BY <1>9 DEF Cancel, Wake, ChildMoves, rest, rootVars, RootStatus, Basics
  <2> QED  BY <1>3, <2>1
<1> QED
  BY <1>4, <1>5, <1>6, <1>7, <1>8, <1>9 DEF Environment

LEMMA BasicsStep ==
  ASSUME Inv, BoundInv, Basics, [Next]_vars
  PROVE  Basics'
<1>1. executor' = executor  BY SameExecutor
<1>2. ASSUME UNCHANGED <<status, losses, command, stored, result, unmet, reused, historyVars>>
      PROVE  Basics'
  BY <1>1, <1>2 DEF Basics, historyVars
<1>3. CASE \E a \in Attempt : WorkflowStep(a) /\ UNCHANGED historyVars
  <2>1. UNCHANGED <<status, losses, command, stored, result, unmet, reused>>
    BY <1>3 DEF WorkflowStep, ForwardResume, ReadRuns, Layer, CreateStep, StopWaiting,
         Collect, EndLayer, rootVars
  <2> QED  BY <1>2, <1>3, <2>1
<1>4. CASE \E a \in Attempt : SupervisorStep(a) /\ UNCHANGED <<unmet, reused>>
  <2>1. UNCHANGED <<status, losses, command, stored, result, historyVars>>
    BY <1>4 DEF SupervisorStep, MakePlan, TakeCommand, ForwardCommand, ReadResults,
         AskForChild, Replan, Proceed, CreateTask, rootVars
  <2> QED  BY <1>2, <1>4, <2>1
<1>5. CASE UNCHANGED <<unmet, reused, historyVars>> /\ \E p : Claim(p)
  BY <1>1, <1>5 DEF Claim, Basics, historyVars, RootStatus
<1>6. CASE UNCHANGED <<unmet, reused, historyVars>> /\ Answer("answer")
  BY <1>1, <1>6 DEF Answer, rest, Basics, historyVars, RootStatus, Commands
<1>7. CASE executor = "supervisor" /\ Reply /\ UNCHANGED <<unmet, reused>>
  <2>1. status' = "queued" /\ command' \in Commands /\ UNCHANGED <<losses, stored, result>>
    BY <1>7 DEF Reply, Answer, rest, Commands
  <2>2. revisions' \in 0..MaxRevisions /\ ignored' = ignored
    BY <1>7 DEF Reply, historyVars, Basics
  <2>3. approved' \subseteq Target
    <3>1. checkpoint \in BoundSave
      BY <1>7 DEF Reply, BoundInv, BoundRows
    <3>2. checkpoint.plan \in Plan  BY <3>1 DEF BoundSave, Save
    <3>3. Members(checkpoint.plan) \subseteq Target  BY <3>2 DEF Plan, Members
    <3> QED  BY <1>7, <3>3 DEF Reply, historyVars, Basics
  <2> QED  BY <1>1, <1>7, <2>1, <2>2, <2>3 DEF Basics, RootStatus
<1>8. CASE Environment /\ UNCHANGED <<unmet, reused, revisions, approved>> /\ Forgets
  BY <1>8, BasicsEnvironment
<1>9. CASE UNCHANGED vars
  BY <1>2, <1>9 DEF vars, rootVars, rest
<1> QED
  BY <1>3, <1>4, <1>5, <1>6, <1>7, <1>8, <1>9 DEF Next, NextWorkflow, NextSupervisor

LEMMA TypesFollow ==
  ASSUME Inv, BoundInv, Basics
  PROVE  TypeOK
<1>1. Attempts /\ executor \in Executor /\ attempt \in Nat /\ Attempt \subseteq Nat
  BY DEF Inv, WorkflowInv, Attempts, Attempt
<1>2. 1..attempt \subseteq Attempt
  <2>1. MaxAttempts[executor] \in Nat /\ attempt <= MaxAttempts[executor]
    BY <1>1 DEF Attempts
  <2>2. \A a \in 1..attempt : a \in 1..MaxAttempts[executor]  BY <1>1, <2>1
  <2> QED  BY <1>1, <2>2 DEF Attempt
<1>3. /\ checkpoint \in Step \cup Save \cup {None}
      /\ Begun
      /\ \A a \in Attempt :
           proc[a] \in (IF executor = "supervisor" THEN SupervisorProcess ELSE WorkflowProcess)
                         \cup {None}
  <2>1. CASE executor = "supervisor"
    BY <2>1 DEF BoundInv, BoundRows, BoundProcesses, BoundSave
  <2>2. CASE executor = "workflow-dag"
    BY <2>2 DEF Inv, WorkflowInv, WorkflowRows, WorkflowProcesses
  <2> QED  BY <1>1, <2>1, <2>2 DEF Executor
<1>4. \A a \in Attempt : \A i \in DOMAIN outbox[a] : outbox[a][i] \in Message
  BY MessagesTyped
<1>5. \A a \in Attempt : proc[a] = None <=> a > attempt
  BY <1>1, <1>3 DEF Begun
<1>6. \A a \in 1..attempt : proc[a] # None /\ a \in Attempt
  BY <1>1, <1>2, <1>3 DEF Begun
<1> QED  BY <1>1, <1>3, <1>4, <1>5, <1>6 DEF TypeOK, Basics, Attempts

\* What the root's output reports.
Result ==
  result # None =>
    IF executor = "supervisor" THEN result \in SUBSET TaskNode /\ Reported(result)
                               ELSE result \in SUBSET Step /\ AllSettled(result)

LEMMA ResultStep ==
  ASSUME Inv, BoundInv, Result, [Next]_vars
  PROVE  Result'
<1>1. /\ ChildrenGoOn /\ executor' = executor /\ executor \in Executor
      /\ UNCHANGED <<unmet, reused>> /\ Attempts
  <2>1. UNCHANGED <<unmet, reused>>
    BY DEF Next, NextWorkflow, NextSupervisor, vars, WorkflowStep, ForwardResume, ReadRuns,
         Layer, CreateStep, StopWaiting, Collect, EndLayer
  <2> QED  BY <2>1, StepGoesOn, SameExecutor DEF Inv, WorkflowInv, Attempts
<1>2. \A n \in Node : child[n] = "succeeded" => child'[n] = "succeeded"
  BY <1>1 DEF ChildrenGoOn
<1>3. \A r \in SUBSET TaskNode : Reported(r) => Reported(r)'  BY <1>1, ReportedGrows
<1>4. \A r \in SUBSET Step : AllSettled(r) => AllSettled(r)'
  BY <1>1, <1>2, DueStays DEF AllSettled
<1>5. CASE UNCHANGED result
  <2>1. PICK r : r = result  OBVIOUS
  <2>2. CASE r # None /\ executor = "supervisor"
    <3>1. Reported(r)' /\ r \in SUBSET TaskNode  BY <1>3, <2>1, <2>2 DEF Result
    <3>2. r = result'  BY <1>5, <2>1
    <3> QED  BY <1>1, <2>2, <3>1, <3>2 DEF Result, Reported
  <2>3. CASE r # None /\ executor # "supervisor"
    <3>1. AllSettled(r)' /\ r \in SUBSET Step  BY <1>4, <2>1, <2>3 DEF Result
    <3>2. r = result'  BY <1>5, <2>1
    <3> QED  BY <1>1, <2>3, <3>1, <3>2 DEF Result, AllSettled
  <2>4. CASE r = None  BY <1>5, <2>1, <2>4 DEF Result
  <2> QED  BY <2>2, <2>3, <2>4
<1>6. CASE PersistSuccess /\ status # "cancelling"
  <2>1. /\ leased /\ outbox[attempt] # <<>> /\ Head(outbox[attempt]).kind = "succeeded"
        /\ result' = Head(outbox[attempt]).reported /\ UNCHANGED child
    BY <1>6 DEF PersistSuccess, Persists
  <2>2. PICK m, r : m = Head(outbox[attempt]) /\ r = m.reported  OBVIOUS
  <2>3. attempt \in Attempt  BY <1>1, <2>1, NewestAttempt
  <2>4. CASE executor = "supervisor"
    <3>1. m \in BoundMessage
      BY <2>1, <2>2, <2>3, <2>4, TakeMessage DEF BoundInv, BoundRows
    <3>2. r \in SUBSET TaskNode /\ Reported(r)  BY <2>1, <2>2, <3>1 DEF BoundMessage
    <3>3. Reported(r)' /\ r = result'  BY <1>3, <2>1, <2>2, <3>2
    <3> QED  BY <1>1, <2>4, <3>2, <3>3 DEF Result, Reported
  <2>5. CASE executor = "workflow-dag"
    <3>1. m \in WorkflowMessage
      BY <2>1, <2>2, <2>3, <2>5, TakeMessage DEF Inv, WorkflowInv, WorkflowRows
    <3>2. r \in SUBSET Step /\ AllSettled(r)  BY <2>1, <2>2, <3>1 DEF WorkflowMessage
    <3>3. AllSettled(r)' /\ r = result'  BY <1>4, <2>1, <2>2, <3>2
    <3> QED  BY <1>1, <2>5, <3>2, <3>3 DEF Result, AllSettled
  <2> QED  BY <1>1, <2>4, <2>5 DEF Executor
<1>7. UNCHANGED result \/ (PersistSuccess /\ status # "cancelling")
  <2>1. CASE Environment
    BY <2>1 DEF Environment, Lose, PersistEvent, PersistSuspension, PersistSuccess,
         PersistFailure, PersistCancelled, Cancel, ChildMoves, Wake, rest
  <2>2. CASE NextWorkflow
    BY <2>2 DEF NextWorkflow, WorkflowStep, ForwardResume, ReadRuns, Layer, CreateStep,
         StopWaiting, Collect, EndLayer, Claim, Answer, rest
  <2>3. CASE NextSupervisor
    BY <2>3 DEF NextSupervisor, SupervisorStep, MakePlan, TakeCommand, ForwardCommand,
         ReadResults, AskForChild, Replan, Proceed, CreateTask, Claim, Answer, Reply, rest
  <2>4. CASE UNCHANGED vars
    BY <2>4 DEF vars, rest
  <2> QED  BY <2>1, <2>2, <2>3, <2>4 DEF Next
<1> QED  BY <1>5, <1>6, <1>7

LEMMA InitTyped ==
  ASSUME Init
  PROVE  BoundInv /\ Basics /\ Result
<1>1. /\ outbox = [a \in Attempt |-> <<>>] /\ proc = [a \in Attempt |-> None]
      /\ checkpoint = None /\ command = None /\ status = "queued" /\ leased = FALSE
      /\ attempt = 0 /\ losses = 0 /\ stored = [o \in Outcome |-> 0] /\ result = None
  BY DEF Init, InitRoot
<1>2. /\ revisions = 0 /\ approved = {} /\ ignored = FALSE
      /\ unmet \subseteq Conditional \ reused /\ reused \subseteq Step
      /\ executor = "supervisor" => unmet = {} /\ reused = {}
  BY DEF Init, InitWorkflow, InitReused, InitSupervisor
<1>3. BoundRows
  <2>1. outbox \in [Attempt -> Seq(BoundMessage)]  BY <1>1
  <2> QED  BY <1>1, <1>2, <2>1, NoSupervisorAssumption DEF BoundRows, Commands
<1>4. BoundProcesses
  <2>1. \A a \in Attempt : a \in Nat /\ a > 0  BY DEF Attempt
  <2> QED  BY <1>1, <2>1 DEF BoundProcesses, Begun
<1>5. Basics
  <2>1. stored \in [Outcome -> Nat]  BY <1>1
  <2>2. status \in RootStatus  BY <1>1 DEF RootStatus
  <2>3. losses \in 0..MaxLosses /\ revisions \in 0..MaxRevisions  BY <1>1, <1>2
  <2> QED  BY <1>1, <1>2, <2>1, <2>2, <2>3 DEF Basics
<1> QED  BY <1>1, <1>3, <1>4, <1>5 DEF BoundInv, Result

FullInv == Inv /\ BoundInv /\ Basics /\ Result

LEMMA FullInvariance == Spec => []FullInv
<1>1. Init => FullInv  BY InitInv, InitTyped DEF FullInv
<1>2. FullInv /\ [Next]_vars => FullInv'
  BY InvStep, BoundInvStep, BasicsStep, ResultStep DEF FullInv
<1> QED  BY <1>1, <1>2, PTL DEF Spec

\* All variables have their types, the open attempt's queue and the processes of
\* all attempts included.
THEOREM TypeCorrect == Spec => []TypeOK
<1>1. FullInv => TypeOK  BY TypesFollow DEF FullInv
<1> QED  BY <1>1, FullInvariance, PTL

\* What a root reports as done has been done, by one of its child Runs or, for a
\* step that is reused, by one of the Run that was repeated, whatever attempts
\* were lost and whatever plans were made.
THEOREM ResultCorrect == Spec => []WholeResult
<1>1. ASSUME FullInv PROVE WholeResult
  <2> SUFFICES ASSUME result # None, NEW n \in result
               PROVE  \/ child[n] = "succeeded"
                      \/ n \in unmet \cup reused
                      \/ n \in TaskNode /\ Strays(n[1], Keys(result))
    BY DEF WholeResult
  <2>1. CASE executor = "supervisor"
    BY <1>1, <2>1 DEF FullInv, Result, Reported
  <2>2. CASE executor # "supervisor"
    BY <1>1, <2>2 DEF FullInv, Result, AllSettled, Settled
  <2> QED  BY <2>1, <2>2
<1> QED  BY <1>1, FullInvariance, PTL

-----------------------------------------------------------------------------
(* Announcements: what the rows and the queue of the open attempt say is     *)
(* true, and what may be said once only is said in one place.                *)

OutcomeKind  == {"completed", "failed", "skipped"}
Count(of, n) == stored[[of |-> of, node |-> n]]

Holds(of, n) ==
  \/ of = "completed" /\ (child[n] = "succeeded" \/ n \in reused)
  \/ of = "failed" /\ child[n] \in Unsuccessful
  \/ of = "skipped" /\ n \in unmet

\* A workflow fails with the step that failed, by every attempt.
Once(of, n) == of # "failed" \/ n \in TaskNode

Tells(q, i, of, n) ==
  /\ i \in 1..Len(q) /\ q[i].kind = "events"
  /\ q[i].of = of /\ n \in q[i].nodes

Truthful(q) ==
  \A of \in OutcomeKind, n \in Node, i \in 1..Len(q) :
    Tells(q, i, of, n) =>
      /\ Holds(of, n)
      /\ Once(of, n) => Count(of, n) = 0 /\ \A j \in 1..Len(q) : Tells(q, j, of, n) => j = i

\* Outcomes that the queue may be told of.
New(q, of, nodes) ==
  \A n \in nodes :
    /\ Holds(of, n)
    /\ Once(of, n) => Count(of, n) = 0 /\ \A i \in 1..Len(q) : ~Tells(q, i, of, n)

LEMMA PutTells ==
  ASSUME NEW q \in Seq(Message), NEW of \in OutcomeKind, NEW nodes \in SUBSET Node
  PROVE  /\ q \o Events(of, nodes) \in Seq(Message)
         /\ \A kind \in OutcomeKind, n \in Node, i \in Nat :
              Tells(q \o Events(of, nodes), i, kind, n) <=>
                Tells(q, i, kind, n) \/ (i = Len(q) + 1 /\ kind = of /\ n \in nodes)
         /\ \A i \in 1..Len(q \o Events(of, nodes)) :
              (q \o Events(of, nodes))[i].kind = "succeeded" =>
                i \in 1..Len(q) /\ q[i].kind = "succeeded"
<1>1. CASE nodes = {}
  <2>1. Events(of, nodes) = <<>>  BY <1>1 DEF Events
  <2>2. q \o <<>> = q  OBVIOUS
  <2> QED  BY <1>1, <2>1, <2>2
<1>2. CASE nodes # {}
  <2>1. PICK m : m = [kind |-> "events", of |-> of, nodes |-> nodes]  OBVIOUS
  <2>2. m \in Message  BY <2>1 DEF Message, OutcomeKind
  <2>3. PICK r : r = q \o <<m>>  OBVIOUS
  <2>4. q \o Events(of, nodes) = r  BY <1>2, <2>1, <2>3 DEF Events
  <2>5. /\ r \in Seq(Message) /\ Len(r) = Len(q) + 1 /\ r[Len(q) + 1] = m
        /\ \A i \in 1..Len(q) : r[i] = q[i]
    BY <2>2, <2>3
  <2>6. m.kind = "events" /\ m.of = of /\ m.nodes = nodes  BY <2>1
  <2>7. ASSUME NEW kind \in OutcomeKind, NEW n \in Node, NEW i \in Nat
        PROVE  Tells(r, i, kind, n) <=>
                 Tells(q, i, kind, n) \/ (i = Len(q) + 1 /\ kind = of /\ n \in nodes)
    <3>1. Len(q) \in Nat  OBVIOUS
    <3>2. CASE i \in 1..Len(q)
      <4>1. r[i] = q[i] /\ i \in 1..Len(r) /\ i # Len(q) + 1  BY <2>5, <3>1, <3>2
      <4> QED  BY <3>2, <4>1 DEF Tells
    <3>3. CASE i = Len(q) + 1
      <4>1. i \in 1..Len(r) /\ i \notin 1..Len(q) /\ r[i] = m  BY <2>5, <3>1, <3>3
      <4> QED  BY <2>6, <3>3, <4>1 DEF Tells
    <3>4. CASE i \notin 1..Len(q) /\ i # Len(q) + 1
      <4>1. i \notin 1..Len(r)  BY <2>5, <3>1, <3>4
      <4> QED  BY <3>4, <4>1 DEF Tells
    <3> QED  BY <3>2, <3>3, <3>4
  <2>8. ASSUME NEW i \in 1..Len(r), r[i].kind = "succeeded"
        PROVE  i \in 1..Len(q) /\ q[i].kind = "succeeded"
    <3>1. i # Len(q) + 1  BY <2>5, <2>6, <2>8
    <3>2. i \in 1..Len(q)  BY <2>5, <3>1
    <3> QED  BY <2>5, <2>8, <3>2
  <2> QED  BY <2>4, <2>5, <2>7, <2>8
<1> QED  BY <1>1, <1>2

LEMMA PutTruth ==
  ASSUME NEW q \in Seq(Message), NEW of \in OutcomeKind, NEW nodes \in SUBSET Node,
         Truthful(q), New(q, of, nodes)
  PROVE  Truthful(q \o Events(of, nodes))
<1>1. PICK r : r = q \o Events(of, nodes)  OBVIOUS
<1>2. /\ r \in Seq(Message) /\ Len(q) \in Nat /\ Len(r) \in Nat
      /\ \A kind \in OutcomeKind, n \in Node, i \in Nat :
           Tells(r, i, kind, n) <=>
             Tells(q, i, kind, n) \/ (i = Len(q) + 1 /\ kind = of /\ n \in nodes)
  BY <1>1, PutTells
<1>3. ASSUME NEW kind \in OutcomeKind, NEW n \in Node, NEW i \in 1..Len(r), Tells(r, i, kind, n)
      PROVE  /\ Holds(kind, n)
             /\ Once(kind, n) => /\ Count(kind, n) = 0
                                 /\ \A j \in 1..Len(r) : Tells(r, j, kind, n) => j = i
  <2>1. \A j \in 1..Len(r) : j \in Nat  BY <1>2
  <2>2. \A j \in Nat : Tells(q, j, kind, n) => j \in 1..Len(q)  BY DEF Tells
  <2>3. CASE Tells(q, i, kind, n)
    <3>1. i \in 1..Len(q)  BY <2>1, <2>2, <2>3
    <3>2. /\ Holds(kind, n)
          /\ Once(kind, n) => /\ Count(kind, n) = 0
                              /\ \A j \in 1..Len(q) : Tells(q, j, kind, n) => j = i
      BY <2>3, <3>1 DEF Truthful
    <3>3. Once(kind, n) => ~(kind = of /\ n \in nodes)
      BY <2>3, <3>1 DEF New
    <3> QED  BY <1>2, <2>1, <2>2, <3>2, <3>3
  <2>4. CASE ~Tells(q, i, kind, n)
    <3>1. i = Len(q) + 1 /\ kind = of /\ n \in nodes  BY <1>2, <1>3, <2>1, <2>4
    <3>2. /\ Holds(kind, n)
          /\ Once(kind, n) => /\ Count(kind, n) = 0
                              /\ \A j \in 1..Len(q) : ~Tells(q, j, kind, n)
      BY <3>1 DEF New
    <3> QED  BY <1>2, <2>1, <2>2, <3>1, <3>2
  <2> QED  BY <2>3, <2>4
<1>4. Truthful(r)  BY <1>3 DEF Truthful
<1> QED  BY <1>1, <1>4

LEMMA EndTells ==
  ASSUME NEW q \in Seq(Message), NEW m, m.kind # "events"
  PROVE  /\ Len(q \o <<m>>) = Len(q) + 1 /\ (q \o <<m>>)[Len(q) + 1] = m
         /\ \A i \in 1..Len(q) : (q \o <<m>>)[i] = q[i]
         /\ \A kind, n, i : Tells(q \o <<m>>, i, kind, n) <=> Tells(q, i, kind, n)
<1>1. PICK r : r = q \o <<m>>  OBVIOUS
<1>2. /\ Len(r) = Len(q) + 1 /\ r[Len(q) + 1] = m
      /\ \A i \in 1..Len(q) : r[i] = q[i]
  <2>1. q \in Seq(Message \cup {m}) /\ m \in Message \cup {m}  OBVIOUS
  <2> QED  BY <1>1, <2>1
<1>3. \A i : i \in 1..Len(r) <=> i \in 1..Len(q) \/ i = Len(q) + 1
  BY <1>2
<1>4. ASSUME NEW kind, NEW n, NEW i
      PROVE  Tells(r, i, kind, n) <=> Tells(q, i, kind, n)
  <2>1. Len(q) + 1 \notin 1..Len(q)  OBVIOUS
  <2> QED  BY <1>2, <1>3, <2>1 DEF Tells
<1> QED  BY <1>1, <1>2, <1>4

LEMMA EndTruth ==
  ASSUME NEW q \in Seq(Message), NEW m, m.kind # "events", Truthful(q)
  PROVE  Truthful(q \o <<m>>)
<1>1. PICK r : r = q \o <<m>>  OBVIOUS
<1>2. /\ Len(q) \in Nat /\ Len(r) = Len(q) + 1
      /\ \A kind, n, i : Tells(r, i, kind, n) <=> Tells(q, i, kind, n)
  BY <1>1, EndTells
<1>3. \A kind, n, i : Tells(q, i, kind, n) => i \in 1..Len(q)  BY DEF Tells
<1>4. Truthful(r)  BY <1>2, <1>3 DEF Truthful
<1> QED  BY <1>1, <1>4

LEMMA FirstAndRest ==
  ASSUME NEW S, NEW f \in S, NEW t \in Seq(S)
  PROVE  /\ <<f>> \o t \in Seq(S) /\ Len(<<f>> \o t) = Len(t) + 1
         /\ (<<f>> \o t)[1] = f
         /\ \A i \in 2..(Len(t) + 1) : (<<f>> \o t)[i] = t[i - 1]
<1>1. <<f>> \in Seq(S) /\ Len(<<f>>) = 1 /\ <<f>>[1] = f  OBVIOUS
<1>2. /\ <<f>> \o t \in Seq(S) /\ Len(<<f>> \o t) = 1 + Len(t)
      /\ \A i \in 1..(1 + Len(t)) :
           (<<f>> \o t)[i] = IF i <= 1 THEN <<f>>[i] ELSE t[i - 1]
  BY <1>1, ConcatProperties
<1>3. Len(t) \in Nat  OBVIOUS
<1> QED  BY <1>1, <1>2, <1>3

LEMMA TailOf ==
  ASSUME NEW S, NEW q \in Seq(S), q # <<>>
  PROVE  /\ Head(q) \in S /\ Head(q) = q[1] /\ Len(q) \in Nat /\ Len(q) >= 1
         /\ Tail(q) \in Seq(S) /\ Len(Tail(q)) = Len(q) - 1
         /\ \A i \in 1..(Len(q) - 1) : Tail(q)[i] = q[i + 1]
OBVIOUS

LEMMA RestMoves ==
  ASSUME NEW S, NEW q \in Seq(S), q # <<>>, NEW f \in S, NEW r, r = <<f>> \o Tail(q)
  PROVE  /\ r \in Seq(S) /\ Len(r) = Len(q) /\ r[1] = f
         /\ \A i \in 2..Len(q) : r[i] = q[i]
<1>1. PICK t : t = Tail(q)  OBVIOUS
<1>2. /\ t \in Seq(S) /\ Len(t) = Len(q) - 1 /\ Len(q) \in Nat
      /\ \A i \in 1..(Len(q) - 1) : t[i] = q[i + 1]
  BY <1>1, TailOf
<1>3. /\ r \in Seq(S) /\ Len(r) = Len(t) + 1 /\ r[1] = f
      /\ \A i \in 2..(Len(t) + 1) : r[i] = t[i - 1]
  BY <1>1, <1>2, FirstAndRest
<1>4. Len(t) + 1 = Len(q)  BY <1>2
<1>5. \A i \in 2..Len(q) : i - 1 \in 1..(Len(q) - 1) /\ (i - 1) + 1 = i  BY <1>2
<1> QED  BY <1>2, <1>3, <1>4, <1>5

\* r is what is left of q: the messages from the first or the second one on,
\* without the node n in the first message of q.
LeftOf(r, q, n, d) ==
  /\ \A i \in Nat \ {0} : i \in 1..Len(r) <=> i + d \in 1..Len(q)
  /\ \A i \in 1..Len(r) : r[i].kind = q[i + d].kind
  /\ \A kind, k : \A i \in Nat \ {0} :
       Tells(r, i, kind, k) <=> Tells(q, i + d, kind, k) /\ ~(i + d = 1 /\ k = n)
  /\ d = 1 => \A kind, k : Tells(q, 1, kind, k) => k = n

LEMMA LeftShort ==
  ASSUME NEW q, NEW r, NEW n, Len(q) \in Nat, Len(r) = Len(q) - 1, Len(r) \in Nat,
         \A i \in 1..Len(r) : r[i] = q[i + 1],
         \A kind, k : Tells(q, 1, kind, k) => k = n
  PROVE  LeftOf(r, q, n, 1)
<1>1. \A i \in Nat \ {0} : i \in 1..Len(r) <=> i + 1 \in 1..Len(q)  OBVIOUS
<1>2. \A i \in Nat \ {0} : i + 1 # 1  OBVIOUS
<1>3. ASSUME NEW kind, NEW k, NEW i \in Nat \ {0}
      PROVE  Tells(r, i, kind, k) <=> Tells(q, i + 1, kind, k)
  BY <1>1 DEF Tells
<1> QED  BY <1>1, <1>2, <1>3 DEF LeftOf

LEMMA LeftSame ==
  ASSUME NEW q, NEW r, NEW n, Len(q) \in Nat, Len(r) = Len(q), Len(q) >= 1,
         \A i \in 2..Len(q) : r[i] = q[i],
         NEW m, m = q[1], m.kind = "events", NEW f, f = r[1],
         f = [kind |-> "events", of |-> m.of, nodes |-> m.nodes \ {n}]
  PROVE  LeftOf(r, q, n, 0)
<1>1. \A i \in Nat \ {0} : i + 0 = i  OBVIOUS
<1>2. f.kind = "events" /\ f.of = m.of /\ f.nodes = m.nodes \ {n}  OBVIOUS
<1>3. \A i : i \in 1..Len(q) => i = 1 \/ i \in 2..Len(q)  OBVIOUS
<1>4. 1 \in 1..Len(q)  OBVIOUS
<1>5. ASSUME NEW kind, NEW k, NEW i \in Nat \ {0}
      PROVE  Tells(r, i, kind, k) <=> Tells(q, i, kind, k) /\ ~(i = 1 /\ k = n)
  <2>1. CASE i = 1  BY <1>2, <1>4, <2>1 DEF Tells
  <2>2. CASE i # 1
    <3>1. i \in 1..Len(q) => r[i] = q[i]  BY <1>3, <2>2
    <3> QED  BY <2>2, <3>1 DEF Tells
  <2> QED  BY <2>1, <2>2
<1>6. \A i \in 1..Len(r) : r[i].kind = q[i].kind
  <2> SUFFICES ASSUME NEW i \in 1..Len(q) PROVE r[i].kind = q[i].kind
    OBVIOUS
  <2>1. CASE i = 1  BY <1>2, <2>1
  <2>2. CASE i \in 2..Len(q)  BY <2>2
  <2> QED  BY <1>3, <2>1, <2>2
<1>7. \A i \in 1..Len(r) : r[i].kind = q[i + 0].kind
  <2>1. \A i \in 1..Len(r) : i + 0 = i  OBVIOUS
  <2> QED  BY <1>6, <2>1
<1>8. \A i \in Nat \ {0} : i \in 1..Len(r) <=> i + 0 \in 1..Len(q)  BY <1>1
<1>9. \A kind, k : \A i \in Nat \ {0} :
        Tells(r, i, kind, k) <=> Tells(q, i + 0, kind, k) /\ ~(i + 0 = 1 /\ k = n)
  BY <1>1, <1>5
<1> QED  BY <1>7, <1>8, <1>9 DEF LeftOf

\* What is left of q when an outcome of its first message is persisted.
Leaves(q, r, of, n) ==
  /\ of \in OutcomeKind /\ n \in Node /\ Tells(q, 1, of, n)
  /\ \A kind, k : Tells(q, 1, kind, k) => kind = of
  /\ r \in Seq(Message)
  /\ \E d \in {0, 1} : LeftOf(r, q, n, d)

\* An event of the first message is persisted.
LEMMA DropLeaves ==
  ASSUME NEW q \in Seq(Message), q # <<>>, NEW m, m = Head(q), m.kind = "events",
         NEW n \in m.nodes
  PROVE  Leaves(q, Events(m.of, m.nodes \ {n}) \o Tail(q), m.of, n)
<1>1. /\ m \in Message /\ Len(q) \in Nat /\ Len(q) >= 1 /\ m = q[1]
      /\ Tail(q) \in Seq(Message) /\ Len(Tail(q)) = Len(q) - 1
      /\ \A i \in 1..(Len(q) - 1) : Tail(q)[i] = q[i + 1]
  BY TailOf
<1>2. m.of \in OutcomeKind /\ m.nodes \in SUBSET Node
  BY <1>1 DEF Message, OutcomeKind
<1>3. \A kind, k : Tells(q, 1, kind, k) <=> kind = m.of /\ k \in m.nodes
  <2>1. 1 \in 1..Len(q)  BY <1>1
  <2> QED  BY <1>1, <2>1 DEF Tells
<1>4. CASE m.nodes = {n}
  <2>1. PICK r : r = Tail(q)  OBVIOUS
  <2>2. Events(m.of, m.nodes \ {n}) \o Tail(q) = r
    <3>1. Events(m.of, m.nodes \ {n}) = <<>>  BY <1>4 DEF Events
    <3> QED  BY <1>1, <2>1, <3>1, ConcatEmptySeq
  <2>3. Len(r) \in Nat /\ Len(r) = Len(q) - 1  BY <1>1, <2>1
  <2>4. \A i \in 1..Len(r) : r[i] = q[i + 1]  BY <1>1, <2>1, <2>3
  <2>5. \A kind, k : Tells(q, 1, kind, k) => k = n  BY <1>3, <1>4
  <2>6. LeftOf(r, q, n, 1)  BY <1>1, <2>3, <2>4, <2>5, LeftShort
  <2>7. Leaves(q, r, m.of, n)  BY <1>1, <1>2, <1>3, <2>1, <2>6 DEF Leaves
  <2> QED  BY <2>2, <2>7
<1>5. CASE m.nodes # {n}
  <2>1. PICK f : f = [kind |-> "events", of |-> m.of, nodes |-> m.nodes \ {n}]  OBVIOUS
  <2>2. PICK r : r = <<f>> \o Tail(q)  OBVIOUS
  <2>3. f \in Message  BY <1>2, <2>1 DEF Message, OutcomeKind
  <2>4. Events(m.of, m.nodes \ {n}) \o Tail(q) = r
    <3>1. m.nodes \ {n} # {}  BY <1>5
    <3> QED  BY <2>1, <2>2, <3>1 DEF Events
  <2>5. /\ r \in Seq(Message) /\ Len(r) = Len(q) /\ r[1] = f
        /\ \A i \in 2..Len(q) : r[i] = q[i]
    BY <2>2, <2>3, RestMoves
  <2>6. LeftOf(r, q, n, 0)  BY <1>1, <2>1, <2>5, LeftSame
  <2>7. Leaves(q, r, m.of, n)  BY <1>1, <1>2, <1>3, <2>5, <2>6 DEF Leaves
  <2> QED  BY <2>4, <2>7
<1> QED  BY <1>4, <1>5

\* The one event that is persisted.
Persisted(of, n) ==
  /\ stored \in [Outcome -> Nat]
  /\ stored' = [stored EXCEPT ![[of |-> of, node |-> n]] = @ + 1]

LEMMA CountGrows ==
  ASSUME NEW of \in OutcomeKind, NEW n \in Node, Persisted(of, n)
  PROVE  \A kind \in OutcomeKind, k \in Node :
           /\ Count(kind, k) \in Nat
           /\ Count(kind, k)' = IF kind = of /\ k = n THEN Count(kind, k) + 1 ELSE Count(kind, k)
<1>1. PICK o : o = [of |-> of, node |-> n]  OBVIOUS
<1>2. o \in Outcome /\ o.of = of /\ o.node = n  BY <1>1 DEF Outcome, OutcomeKind
<1>3. /\ stored \in [Outcome -> Nat]
      /\ stored' = [stored EXCEPT ![o] = stored[o] + 1]
  BY <1>1 DEF Persisted
<1>4. ASSUME NEW kind \in OutcomeKind, NEW k \in Node
      PROVE  /\ Count(kind, k) \in Nat
             /\ Count(kind, k)' = IF kind = of /\ k = n THEN Count(kind, k) + 1
                                                       ELSE Count(kind, k)
  <2>1. PICK x : x = [of |-> kind, node |-> k]  OBVIOUS
  <2>2. x \in Outcome /\ x.of = kind /\ x.node = k  BY <2>1 DEF Outcome, OutcomeKind
  <2>3. x = o <=> kind = of /\ k = n  BY <1>1, <1>2, <2>1, <2>2
  <2>4. stored'[x] = IF x = o THEN stored[x] + 1 ELSE stored[x]  BY <1>2, <1>3, <2>2
  <2>5. stored[x] \in Nat  BY <1>3, <2>2
  <2> QED  BY <2>1, <2>3, <2>4, <2>5 DEF Count
<1> QED  BY <1>4

\* What is left is still true, and still in one place.
LEMMA DropTruth ==
  ASSUME NEW q \in Seq(Message), NEW r \in Seq(Message), NEW n \in Node, NEW of \in OutcomeKind,
         NEW d \in {0, 1}, LeftOf(r, q, n, d), Truthful(q), Tells(q, 1, of, n),
         Persisted(of, n), UNCHANGED <<child, unmet, reused>>
  PROVE  Truthful(r)'
<1>1. \A kind \in OutcomeKind, k \in Node :
        Count(kind, k)' = IF kind = of /\ k = n THEN Count(kind, k) + 1 ELSE Count(kind, k)
  BY CountGrows
<1>2. ASSUME NEW kind \in OutcomeKind, NEW k \in Node, NEW i \in 1..Len(r), Tells(r, i, kind, k)
      PROVE  /\ Holds(kind, k)
             /\ Once(kind, k) => /\ Count(kind, k)' = 0
                                 /\ \A j \in 1..Len(r) : Tells(r, j, kind, k) => j = i
  <2>1. \A j \in 1..Len(r) : j \in Nat \ {0} /\ j + d \in 1..Len(q)  BY DEF LeftOf
  <2>2. \A j \in 1..Len(r) : Tells(r, j, kind, k) => Tells(q, j + d, kind, k) /\ ~(j + d = 1 /\ k = n)
    BY <2>1 DEF LeftOf
  <2>3. /\ Holds(kind, k)
        /\ Once(kind, k) => /\ Count(kind, k) = 0
                            /\ \A j \in 1..Len(q) : Tells(q, j, kind, k) => j = i + d
    BY <1>2, <2>1, <2>2 DEF Truthful
  <2>4. Once(kind, k) => ~(kind = of /\ k = n)
    <3>1. 1 \in 1..Len(q)  BY DEF Tells
    <3> QED  BY <1>2, <2>2, <2>3, <3>1
  <2>5. Once(kind, k) => \A j \in 1..Len(r) : Tells(r, j, kind, k) => j = i
    <3>1. \A j \in 1..Len(r) : j + d = i + d => j = i  BY <2>1
    <3> QED  BY <2>1, <2>2, <2>3, <3>1
  <2> QED  BY <1>1, <2>3, <2>4, <2>5
<1> QED  BY <1>2 DEF Truthful, Holds, Once, Tells

StepStored(s)      == Count("completed", s) > 0 \/ Count("skipped", s) > 0
TellsStep(q, i, s) == Tells(q, i, "completed", s) \/ Tells(q, i, "skipped", s)
Announced(q, s)    == StepStored(s) \/ \E i \in 1..Len(q) : TellsStep(q, i, s)

\* A workflow's success is told of after all of its steps.
Finishing(q) ==
  \A i \in 1..Len(q) : q[i].kind = "succeeded" =>
    \A s \in Step : StepStored(s) \/ \E j \in 1..(i - 1) : TellsStep(q, j, s)

\* The results of a workflow's process are what has been announced; what it has
\* found of a layer is announced when the layer is complete.
Tracks(p, q) ==
  /\ p.pc \in {"layer", "run", "collect"} =>
       \A s \in Step : s \in p.results <=> Announced(q, s)
  /\ p.pc \in {"run", "collect"} =>
       /\ (p.layer \cup p.got) \cap p.results = {}
       /\ \A s \in p.got : child[s] = "succeeded"

\* A process has announced nothing before it has looked at its child Runs.
Unread(p, q) == p.pc \in {"begin", "forward", "read"} => q = <<>>

Announces(p, q) ==
  /\ Truthful(q)
  /\ Unread(p, q)
  /\ executor = "workflow-dag" => Tracks(p, q) /\ Finishing(q)

AnnouncedRows ==
  /\ \A of \in OutcomeKind, n \in Node :
       /\ Count(of, n) \in Nat
       /\ Count(of, n) > 0 => Holds(of, n)
       /\ Once(of, n) => Count(of, n) <= 1
  /\ \A b \in Attempt : b > attempt => outbox[b] = <<>>
  /\ executor = "workflow-dag" /\ status = "succeeded" => \A s \in Step : StepStored(s)

AnnouncedInv ==
  AnnouncedRows /\ (leased => Announces(proc[attempt], outbox[attempt]))

LEMMA HoldsStays ==
  ASSUME ChildrenGoOn, UNCHANGED <<unmet, reused>>
  PROVE  \A of \in OutcomeKind, n \in Node : Holds(of, n) => Holds(of, n)'
BY DEF ChildrenGoOn, Holds, OutcomeKind

LEMMA AnnouncesStay ==
  ASSUME ChildrenGoOn, UNCHANGED <<executor, stored, unmet, reused>>, NEW p, NEW q, Announces(p, q),
         executor = "workflow-dag" => p \in WorkflowProcess
  PROVE  Announces(p, q)'
<1>1. Truthful(q)'
  <2>1. \A of \in OutcomeKind, n \in Node : Holds(of, n) => Holds(of, n)'
    BY HoldsStays
  <2>2. \A of, n : Count(of, n)' = Count(of, n)  BY DEF Count
  <2> QED  BY <2>1, <2>2 DEF Announces, Truthful, Once, Tells
<1>2. Unread(p, q)'  BY DEF Announces, Unread
<1>3. ASSUME executor = "workflow-dag" PROVE Tracks(p, q)' /\ Finishing(q)'
  <2>1. \A s : StepStored(s)' = StepStored(s)  BY DEF StepStored, Count
  <2>2. p.got \subseteq Step /\ Step \subseteq Node  BY <1>3 DEF WorkflowProcess, Node
  <2>3. Finishing(q)'  BY <1>3, <2>1 DEF Announces, Finishing, TellsStep, Tells
  <2>4. \A s : Announced(q, s)' <=> Announced(q, s)
    BY <2>1 DEF Announced, TellsStep, Tells
  <2>5. Tracks(p, q)'
    BY <1>3, <2>2, <2>4 DEF Announces, Tracks, ChildrenGoOn
  <2> QED  BY <2>3, <2>5
<1> QED  BY <1>1, <1>2, <1>3 DEF Announces

LEMMA RowsStay ==
  ASSUME AnnouncedRows, ChildrenGoOn, UNCHANGED <<executor, attempt, stored, unmet, reused>>,
         executor = "workflow-dag" /\ status' = "succeeded" =>
           status = "succeeded" \/ \A s \in Step : StepStored(s),
         \A b \in Attempt : b > attempt => outbox'[b] = outbox[b]
  PROVE  AnnouncedRows'
<1>1. \A of \in OutcomeKind, n \in Node : Holds(of, n) => Holds(of, n)'
  BY HoldsStays
<1>2. \A of, n : Count(of, n)' = Count(of, n)  BY DEF Count
<1>3. \A of, n : Once(of, n)' = Once(of, n)  BY DEF Once
<1> QED  BY <1>1, <1>2, <1>3 DEF AnnouncedRows, StepStored

LEMMA OpenFacts ==
  ASSUME FullInv
  PROVE  /\ Attempts /\ Attempt \subseteq Nat /\ attempt \in Nat
         /\ outbox \in [Attempt -> Seq(Message)]
         /\ leased => attempt \in Attempt /\ proc[attempt] # None
         /\ executor = "workflow-dag" =>
              /\ WorkflowRows /\ WorkflowProcesses /\ DueChildren
              /\ \A a \in Attempt : proc[a] # None => proc[a] \in WorkflowProcess
         /\ \E M : proc \in [Attempt -> M]
<1>1. Inv /\ BoundInv /\ Attempts  BY DEF FullInv, Inv, WorkflowInv
<1>2. Attempt \subseteq Nat /\ attempt \in Nat  BY <1>1 DEF Attempt, Attempts
<1>3. outbox \in [Attempt -> Seq(Message)]  BY <1>1, MessagesTyped
<1>4. Begun /\ \E M : proc \in [Attempt -> M]
  <2>1. CASE executor = "workflow-dag"
    BY <1>1, <2>1 DEF Inv, WorkflowInv, WorkflowProcesses
  <2>2. CASE executor = "supervisor"
    BY <1>1, <2>2 DEF BoundInv, BoundProcesses
  <2> QED  BY <1>1, <2>1, <2>2 DEF Attempts, Executor
<1>5. leased => attempt \in Attempt /\ proc[attempt] # None
  <2>1. leased => attempt \in Attempt  BY <1>1, NewestAttempt
  <2> QED  BY <1>2, <1>4, <2>1 DEF Begun
<1>6. executor = "workflow-dag" =>
        /\ WorkflowRows /\ WorkflowProcesses /\ DueChildren
        /\ \A a \in Attempt : proc[a] # None => proc[a] \in WorkflowProcess
  BY <1>1 DEF Inv, WorkflowInv, WorkflowProcesses
<1> QED  BY <1>1, <1>2, <1>3, <1>4, <1>5, <1>6

\* The open attempt after a step.
LEMMA NowAnnounces ==
  ASSUME NEW p, NEW q, p = proc'[attempt'], q = outbox'[attempt'], Announces(p, q)'
  PROVE  Announces(proc[attempt], outbox[attempt])'
<1>1. Truthful(outbox[attempt])'  BY DEF Announces, Truthful, Tells
<1>2. Unread(proc[attempt], outbox[attempt])'  BY DEF Announces, Unread
<1>3. ASSUME executor' = "workflow-dag"
      PROVE  Tracks(proc[attempt], outbox[attempt])' /\ Finishing(outbox[attempt])'
  <2>1. Tracks(p, q)' /\ Finishing(q)'  BY <1>3 DEF Announces
  <2>2. Finishing(outbox[attempt])'  BY <2>1 DEF Finishing, TellsStep, Tells
  <2>3. \A s : Announced(q, s)' <=> Announced(outbox[attempt], s)'
    BY DEF Announced, TellsStep, Tells
  <2>4. Tracks(proc[attempt], outbox[attempt])'  BY <2>1, <2>3 DEF Tracks
  <2> QED  BY <2>2, <2>4
<1> QED  BY <1>1, <1>2, <1>3 DEF Announces

\* A process takes a step and its queue becomes q.  Nobody reads the queue of
\* an attempt that is not open.
LEMMA AnnouncedGoesOn ==
  ASSUME FullInv, AnnouncedInv, ChildrenGoOn, UNCHANGED <<rootVars, stored, unmet, reused>>,
         NEW a \in Attempt, proc[a] # None, NEW r, Becomes(a, r),
         executor = "workflow-dag" => r \in WorkflowProcess,
         NEW q, Open(a) => Announces(r, q) /\ outbox'[a] = q,
         \A b \in Attempt : b # a \/ ~Open(a) => outbox'[b] = outbox[b]
  PROVE  AnnouncedInv'
<1>1. UNCHANGED <<executor, status, attempt, leased>>  BY DEF rootVars
<1>2. /\ Attempts /\ Attempt \subseteq Nat /\ attempt \in Nat
      /\ leased => attempt \in Attempt /\ proc[attempt] # None
      /\ executor = "workflow-dag" => \A b \in Attempt : proc[b] # None => proc[b] \in WorkflowProcess
      /\ \E M : proc \in [Attempt -> M]
  BY OpenFacts
<1>3. proc'[a] = r /\ \A b \in Attempt : b # a => proc'[b] = proc[b]
  BY <1>2 DEF Becomes
<1>4. AnnouncedRows'
  <2>1. \A b \in Attempt : b > attempt => b # a \/ ~Open(a)  BY <1>2 DEF Open
  <2> QED  BY <1>1, <2>1, RowsStay DEF AnnouncedInv
<1>5. ASSUME leased PROVE Announces(proc[attempt], outbox[attempt])'
  <2>1. CASE a = attempt
    <3>1. Announces(r, q)'  BY <1>1, <1>5, <2>1, AnnouncesStay DEF Open
    <3>2. r = proc'[attempt'] /\ q = outbox'[attempt']
      BY <1>1, <1>3, <1>5, <2>1 DEF Open
    <3> QED  BY <3>1, <3>2, NowAnnounces
  <2>2. CASE a # attempt
    <3>1. PICK was, queue : was = proc[attempt] /\ queue = outbox[attempt]  OBVIOUS
    <3>2. Announces(was, queue) /\ (executor = "workflow-dag" => was \in WorkflowProcess)
      BY <1>2, <1>5, <3>1 DEF AnnouncedInv
    <3>3. Announces(was, queue)'  BY <1>1, <3>2, AnnouncesStay
    <3>4. attempt' = attempt /\ attempt \in Attempt /\ attempt # a  BY <1>1, <1>2, <1>5, <2>2
    <3>5. was = proc'[attempt']  BY <1>3, <3>1, <3>4
    <3>6. queue = outbox'[attempt']  BY <3>1, <3>4
    <3> QED  BY <3>3, <3>5, <3>6, NowAnnounces
  <2> QED  BY <2>1, <2>2
<1> QED  BY <1>1, <1>4, <1>5 DEF AnnouncedInv

LEMMA PutsAnnounced ==
  ASSUME FullInv, AnnouncedInv, ChildrenGoOn, UNCHANGED <<rootVars, stored, unmet, reused>>,
         NEW a \in Attempt, proc[a] # None, NEW r, Becomes(a, r),
         executor = "workflow-dag" => r \in WorkflowProcess,
         NEW messages, Puts(a, messages),
         Open(a) => Announces(r, outbox[a] \o messages)
  PROVE  AnnouncedInv'
<1>1. outbox \in [Attempt -> Seq(Message)]  BY OpenFacts
<1>2. Open(a) => outbox'[a] = outbox[a] \o messages  BY <1>1 DEF Puts
<1>3. \A b \in Attempt : b # a \/ ~Open(a) => outbox'[b] = outbox[b]
  BY <1>1 DEF Puts
<1> QED  BY <1>2, <1>3, AnnouncedGoesOn

LEMMA QuietAnnounced ==
  ASSUME FullInv, AnnouncedInv, ChildrenGoOn, UNCHANGED <<rootVars, stored, unmet, reused>>,
         NEW a \in Attempt, proc[a] # None, NEW r, Becomes(a, r),
         executor = "workflow-dag" => r \in WorkflowProcess,
         UNCHANGED outbox, Open(a) => Announces(r, outbox[a])
  PROVE  AnnouncedInv'
BY AnnouncedGoesOn

\* The queue of the open attempt.
LEMMA OpenQueue ==
  ASSUME FullInv, AnnouncedInv, NEW a \in Attempt, Open(a)
  PROVE  Announces(proc[a], outbox[a]) /\ outbox[a] \in Seq(Message)
BY OpenFacts DEF Open, AnnouncedInv

\* A process ends with a message that tells of no outcome.
LEMMA EndAnnounces ==
  ASSUME NEW q \in Seq(Message), Truthful(q), executor = "workflow-dag" => Finishing(q),
         NEW m, m.kind # "events",
         executor = "workflow-dag" /\ m.kind = "succeeded" => \A s \in Step : Announced(q, s),
         NEW r, r.pc = "over"
  PROVE  Announces(r, q \o <<m>>)
<1>1. PICK longer : longer = q \o <<m>>  OBVIOUS
<1>2. Truthful(longer)  BY <1>1, EndTruth
<1>3. /\ Len(longer) = Len(q) + 1 /\ longer[Len(q) + 1] = m
      /\ \A i \in 1..Len(q) : longer[i] = q[i]
      /\ \A kind, n, i : Tells(longer, i, kind, n) <=> Tells(q, i, kind, n)
  BY <1>1, EndTells
<1>4. \A i, s : TellsStep(longer, i, s) <=> TellsStep(q, i, s)  BY <1>3 DEF TellsStep
<1>5. ASSUME executor = "workflow-dag" PROVE Finishing(longer)
  <2> SUFFICES ASSUME NEW i \in 1..Len(longer), longer[i].kind = "succeeded", NEW s \in Step
               PROVE  StepStored(s) \/ \E j \in 1..(i - 1) : TellsStep(longer, j, s)
    BY DEF Finishing
  <2>1. Len(q) \in Nat  OBVIOUS
  <2>2. CASE i = Len(q) + 1
    <3>1. Announced(q, s)  BY <1>3, <1>5, <2>2
    <3>2. i - 1 = Len(q)  BY <2>1, <2>2
    <3> QED  BY <1>4, <3>1, <3>2 DEF Announced
  <2>3. CASE i # Len(q) + 1
    <3>1. i \in 1..Len(q)  BY <1>3, <2>1, <2>3
    <3>2. q[i].kind = "succeeded"  BY <1>3, <3>1
    <3> QED  BY <1>4, <1>5, <3>1, <3>2 DEF Finishing
  <2> QED  BY <2>2, <2>3
<1>6. Unread(r, longer) /\ Tracks(r, longer)  BY DEF Unread, Tracks
<1> QED  BY <1>1, <1>2, <1>5, <1>6 DEF Announces

LEMMA PutFinishing ==
  ASSUME NEW q \in Seq(Message), NEW of \in OutcomeKind, NEW nodes \in SUBSET Node,
         Finishing(q)
  PROVE  Finishing(q \o Events(of, nodes))
<1>1. PICK longer : longer = q \o Events(of, nodes)  OBVIOUS
<1>2. \A kind \in OutcomeKind, n \in Node, i \in Nat :
        Tells(longer, i, kind, n) <=>
          Tells(q, i, kind, n) \/ (i = Len(q) + 1 /\ kind = of /\ n \in nodes)
  BY <1>1, PutTells
<1>5. \A i \in 1..Len(longer) : longer[i].kind = "succeeded" =>
        i \in 1..Len(q) /\ q[i].kind = "succeeded"
  <2>1. \A i \in 1..Len(q \o Events(of, nodes)) :
          (q \o Events(of, nodes))[i].kind = "succeeded" =>
            i \in 1..Len(q) /\ q[i].kind = "succeeded"
    BY PutTells
  <2> QED  BY <1>1, <2>1
<1>3. ASSUME NEW s \in Step, NEW i \in Nat, TellsStep(q, i, s) PROVE TellsStep(longer, i, s)
  BY <1>2, <1>3, Nodes DEF TellsStep, OutcomeKind
<1>4. ASSUME NEW i \in 1..Len(longer), longer[i].kind = "succeeded", NEW s \in Step
      PROVE  StepStored(s) \/ \E j \in 1..(i - 1) : TellsStep(longer, j, s)
  <2>1. i \in 1..Len(q) /\ q[i].kind = "succeeded"  BY <1>4, <1>5
  <2>2. StepStored(s) \/ \E j \in 1..(i - 1) : TellsStep(q, j, s)
    BY <2>1 DEF Finishing
  <2>3. \A j \in 1..(i - 1) : j \in Nat  BY <2>1
  <2> QED  BY <1>3, <2>2, <2>3
<1> QED  BY <1>1, <1>4 DEF Finishing

\* What has been announced after a message that tells how steps ended.
LEMMA PutAnnounced ==
  ASSUME NEW q \in Seq(Message), NEW of \in {"completed", "skipped"}, NEW nodes \in SUBSET Step
  PROVE  \A s \in Step : Announced(q \o Events(of, nodes), s) <=> Announced(q, s) \/ s \in nodes
<1>1. PICK longer : longer = q \o Events(of, nodes)  OBVIOUS
<1>2. /\ longer \in Seq(Message)
      /\ \A kind \in OutcomeKind, n \in Node, i \in Nat :
           Tells(longer, i, kind, n) <=>
             Tells(q, i, kind, n) \/ (i = Len(q) + 1 /\ kind = of /\ n \in nodes)
  <2>1. of \in OutcomeKind /\ nodes \in SUBSET Node  BY Nodes DEF OutcomeKind
  <2> QED  BY <1>1, <2>1, PutTells
<1>3. \A i, kind, n : /\ Tells(q, i, kind, n) => i \in 1..Len(q)
                      /\ Tells(longer, i, kind, n) => i \in 1..Len(longer)
  BY DEF Tells
<1>4. Len(q) \in Nat /\ Len(q) + 1 \in Nat /\ Len(longer) \in Nat  BY <1>2
<1>5. ASSUME NEW s \in Step
      PROVE  (\E i \in 1..Len(longer) : TellsStep(longer, i, s)) <=>
               (\E i \in 1..Len(q) : TellsStep(q, i, s)) \/ s \in nodes
  <2>1. \A i \in Nat : TellsStep(longer, i, s) <=>
          TellsStep(q, i, s) \/ (i = Len(q) + 1 /\ s \in nodes)
    BY <1>2, Nodes DEF TellsStep, OutcomeKind
  <2>2. \A i : /\ TellsStep(q, i, s) => i \in 1..Len(q)
               /\ TellsStep(longer, i, s) => i \in 1..Len(longer)
    BY <1>3 DEF TellsStep
  <2>3. (\A i \in 1..Len(longer) : i \in Nat) /\ (\A i \in 1..Len(q) : i \in Nat)
    BY <1>4
  <2> QED  BY <1>4, <2>1, <2>2, <2>3
<1> QED  BY <1>1, <1>5 DEF Announced

LEMMA EmptyQueue ==
  ASSUME NEW q, q = <<>>
  PROVE  q \in Seq(Message) /\ Truthful(q) /\ Finishing(q)
BY DEF Truthful, Finishing

\* A process that ends with a message other than success.
LEMMA EndPuts ==
  ASSUME FullInv, AnnouncedInv, ChildrenGoOn, UNCHANGED <<rootVars, stored, unmet, reused>>,
         NEW a \in Attempt, proc[a] # None, NEW r, Becomes(a, r), r.pc = "over",
         executor = "workflow-dag" => r \in WorkflowProcess,
         NEW m, m.kind # "events", executor = "workflow-dag" => m.kind # "succeeded", Puts(a, <<m>>)
  PROVE  AnnouncedInv'
<1>1. ASSUME Open(a) PROVE Announces(r, outbox[a] \o <<m>>)
  <2>1. Announces(proc[a], outbox[a]) /\ outbox[a] \in Seq(Message)  BY <1>1, OpenQueue
  <2> QED  BY <2>1, EndAnnounces DEF Announces
<1> QED  BY <1>1, PutsAnnounced

LEMMA WorkflowOver ==
  ASSUME NEW a \in Attempt, WorkflowEnds(a)
  PROVE  \E r \in WorkflowProcess : Becomes(a, r) /\ r.pc = "over"
<1>1. PICK r : r = WorkflowAt("over", None, FALSE)  OBVIOUS
<1>2. r \in WorkflowProcess /\ r.pc = "over"  BY <1>1 DEF WorkflowAt, WorkflowProcess
<1> QED  BY <1>1, <1>2 DEF WorkflowEnds

LEMMA EndMessages ==
  /\ \E m : m.kind = "failed" /\ Fail = <<m>> /\ m \in Message
  /\ \E m : m.kind = "cancelled" /\ Stopped = <<m>>
  /\ \A save : \E m : m.kind = "suspend" /\ Suspend(save) = <<m>>
  /\ \A nodes, save : \E m : m.kind = "wait" /\ Wait(nodes, save) = <<m>>
  /\ \A nodes : \E m : m.kind = "succeeded" /\ Succeed(nodes) = <<m>>
<1>1. \E m : m.kind = "failed" /\ Fail = <<m>> /\ m \in Message
  <2>1. PICK m : m = [kind |-> "failed"]  OBVIOUS
  <2> QED  BY <2>1 DEF Message, Fail
<1>2. \E m : m.kind = "cancelled" /\ Stopped = <<m>>
  <2>1. PICK m : m = [kind |-> "cancelled"]  OBVIOUS
  <2> QED  BY <2>1 DEF Stopped
<1>3. ASSUME NEW save PROVE \E m : m.kind = "suspend" /\ Suspend(save) = <<m>>
  <2>1. PICK m : m = [kind |-> "suspend", save |-> save]  OBVIOUS
  <2> QED  BY <2>1 DEF Suspend
<1>4. ASSUME NEW nodes, NEW save PROVE \E m : m.kind = "wait" /\ Wait(nodes, save) = <<m>>
  <2>1. PICK m : m = [kind |-> "wait", nodes |-> nodes, save |-> save]  OBVIOUS
  <2> QED  BY <2>1 DEF Wait
<1>5. ASSUME NEW nodes PROVE \E m : m.kind = "succeeded" /\ Succeed(nodes) = <<m>>
  <2>1. PICK m : m = [kind |-> "succeeded", reported |-> nodes]  OBVIOUS
  <2> QED  BY <2>1 DEF Succeed
<1> QED  BY <1>1, <1>2, <1>3, <1>4, <1>5

LEMMA AnnouncedForwardResume ==
  ASSUME FullInv, AnnouncedInv, ChildrenGoOn, executor = "workflow-dag",
         NEW a \in Attempt, proc[a] # None, ForwardResume(a)
  PROVE  AnnouncedInv'
<1>1. proc[a] \in WorkflowProcess  BY OpenFacts
<1>2. PICK p : p = proc[a]  OBVIOUS
<1>3. PICK r : r = [p EXCEPT !.pc = "read"]  OBVIOUS
<1>4. r \in WorkflowProcess /\ r.pc = "read"  BY <1>1, <1>2, <1>3 DEF WorkflowProcess
<1>5. /\ p.pc = "forward" /\ Becomes(a, r)
      /\ UNCHANGED <<rootVars, stored, unmet, reused, outbox>>
  BY <1>2, <1>3 DEF ForwardResume
<1>6. ASSUME Open(a) PROVE Announces(r, outbox[a])
  <2>1. Announces(p, outbox[a])  BY <1>2, <1>6, OpenQueue
  <2> QED  BY <1>4, <1>5, <2>1 DEF Announces, Unread, Tracks
<1> QED  BY <1>4, <1>5, <1>6, QuietAnnounced

\* A failed step ends the attempt, which tells of some steps that succeeded
\* before; no other attempt has told of them.
LEMMA FailureAnnounces ==
  ASSUME FullInv, AnnouncedRows, NEW q, q = <<>>, NEW n \in Step, child[n] \in Unsuccessful,
         NEW before \in SUBSET Unannounced(Children(Step, {"succeeded"})), NEW r, r.pc = "over"
  PROVE  Announces(r, q \o (Events("completed", before) \o Events("failed", {n}) \o Fail))
<1>1. q \in Seq(Message) /\ Truthful(q) /\ Finishing(q)
  BY EmptyQueue
<1>2. /\ before \in SUBSET Node /\ {n} \in SUBSET Node
      /\ "completed" \in OutcomeKind /\ "failed" \in OutcomeKind
  BY Nodes DEF Unannounced, Children, OutcomeKind
<1>3. New(q, "completed", before)
  <2> SUFFICES ASSUME NEW k \in before
               PROVE  Holds("completed", k) /\ Count("completed", k) = 0
    BY DEF New, Tells
  <2>1. child[k] = "succeeded" /\ k \in Node /\ ~(Count("completed", k) > 0)
    BY Nodes DEF Unannounced, Children, Emitted, Count
  <2>2. Count("completed", k) \in Nat  BY <1>2, <2>1 DEF AnnouncedRows
  <2> QED  BY <2>1, <2>2 DEF Holds
<1>4. PICK q1 : q1 = q \o Events("completed", before)  OBVIOUS
<1>5. q1 \in Seq(Message) /\ Truthful(q1) /\ Finishing(q1)
  BY <1>1, <1>2, <1>3, <1>4, PutTells, PutTruth, PutFinishing
<1>6. New(q1, "failed", {n})
  <2>1. n \notin TaskNode  BY Nodes
  <2> QED  BY <2>1 DEF New, Holds, Once
<1>7. PICK q2 : q2 = q1 \o Events("failed", {n})  OBVIOUS
<1>8. q2 \in Seq(Message) /\ Truthful(q2) /\ Finishing(q2)
  BY <1>2, <1>5, <1>6, <1>7, PutTells, PutTruth, PutFinishing
<1>9. PICK m : m.kind = "failed" /\ Fail = <<m>> /\ m \in Message  BY EndMessages
<1>10. Announces(r, q2 \o Fail)
  BY <1>8, <1>9, EndAnnounces
<1>11. q \o (Events("completed", before) \o Events("failed", {n}) \o Fail) = q2 \o Fail
  <2>1. PICK u, v : u = Events("completed", before) /\ v = Events("failed", {n})  OBVIOUS
  <2>2. u \in Seq(Message) /\ v \in Seq(Message) /\ Fail \in Seq(Message)
    <3>1. [kind |-> "events", of |-> "completed", nodes |-> before] \in Message  BY <1>2 DEF Message
    <3>2. [kind |-> "events", of |-> "failed", nodes |-> {n}] \in Message  BY <1>2 DEF Message
    <3>3. u \in Seq(Message)  BY <2>1, <3>1, EventMessages
    <3>4. v \in Seq(Message)  BY <2>1, <3>2, EventMessages
    <3>5. Fail \in Seq(Message)  BY <1>9
    <3> QED  BY <3>3, <3>4, <3>5
  <2>3. u \o v \in Seq(Message)  BY <2>2
  <2>4. q \o ((u \o v) \o Fail) = (q \o (u \o v)) \o Fail  BY <1>1, <2>2, <2>3, ConcatAssociative
  <2>5. q \o (u \o v) = (q \o u) \o v  BY <1>1, <2>2, ConcatAssociative
  <2> QED  BY <1>4, <1>7, <2>1, <2>4, <2>5
<1> QED  BY <1>10, <1>11

LEMMA AnnouncedReadRuns ==
  ASSUME FullInv, AnnouncedInv, ChildrenGoOn, executor = "workflow-dag",
         NEW a \in Attempt, proc[a] # None, ReadRuns(a)
  PROVE  AnnouncedInv'
<1>1. proc[a] \in WorkflowProcess  BY OpenFacts
<1>2. PICK p : p = proc[a]  OBVIOUS
<1>3. p.pc = "read" /\ UNCHANGED <<rootVars, stored, unmet, reused>>  BY <1>2 DEF ReadRuns
<1>4. Open(a) => Announces(p, outbox[a]) /\ outbox[a] = <<>>
  BY <1>2, <1>3, OpenQueue DEF Announces, Unread
<1>5. /\ AnnouncedRows /\ WorkflowRows
      /\ p.results = reused /\ reused \subseteq Step
  BY <1>2, <1>3, OpenFacts DEF AnnouncedInv, WorkflowProcesses, WorkflowRows, Honest
<1> DEFINE done == Children(Step, {"succeeded"})
           untold == Unannounced(done \cup p.results)
<1>6. CASE Children(Step, Unsuccessful) # {}
  <2>1. PICK n \in Children(Step, Unsuccessful), before \in SUBSET Unannounced(done) :
          Puts(a, Events("completed", before) \o Events("failed", {n}) \o Fail)
    BY <1>6 DEF ReadRuns
  <2>2. n \in Step /\ child[n] \in Unsuccessful  BY DEF Children
  <2>3. WorkflowEnds(a)  BY <1>6 DEF ReadRuns
  <2>4. PICK r \in WorkflowProcess : Becomes(a, r) /\ r.pc = "over"  BY <2>3, WorkflowOver
  <2>5. PICK messages :
          messages = Events("completed", before) \o Events("failed", {n}) \o Fail  OBVIOUS
  <2>6. Open(a) => Announces(r, outbox[a] \o messages)
    BY <1>4, <1>5, <2>2, <2>4, <2>5, FailureAnnounces
  <2> QED  BY <1>3, <2>1, <2>4, <2>5, <2>6, PutsAnnounced
<1>7. CASE Children(Step, Unsuccessful) = {}
  <2> DEFINE found == p.results \cup done \cup Emitted("skipped", Step)
  <2>1. PICK messages : messages = Events("completed", untold)  OBVIOUS
  <2>2. PICK r : r = [p EXCEPT !.pc = "layer", !.results = found]  OBVIOUS
  <2>3. Puts(a, messages) /\ Becomes(a, r)  BY <1>2, <1>7, <2>1, <2>2 DEF ReadRuns
  <2>4. found \subseteq Step  BY <1>5 DEF Children, Emitted
  <2> HIDE DEF found, untold
  <2>5. r \in WorkflowProcess /\ r.pc = "layer" /\ r.results = found
    BY <1>1, <1>2, <2>2, <2>4 DEF WorkflowProcess
  <2>6. ASSUME Open(a) PROVE Announces(r, outbox[a] \o messages)
    <3>1. PICK q : q = outbox[a]  OBVIOUS
    <3>2. q = <<>> /\ q \in Seq(Message) /\ Truthful(q) /\ Finishing(q)
      BY <1>4, <2>6, <3>1, EmptyQueue
    <3>3. untold \in SUBSET Step /\ untold \in SUBSET Node /\ "completed" \in OutcomeKind
      BY <1>5, Nodes DEF untold, Unannounced, Children, OutcomeKind
    <3>4. ASSUME NEW s \in Step
          PROVE  /\ s \in found <=> StepStored(s) \/ s \in untold
                 /\ s \in untold => Holds("completed", s) /\ Count("completed", s) = 0
      <4>1. s \in Node /\ Count("completed", s) \in Nat
        BY <1>5, <3>3, Nodes DEF AnnouncedRows
      <4>2. Count("completed", s) > 0 => child[s] = "succeeded" \/ s \in reused
        BY <1>5, <3>3, <4>1 DEF AnnouncedRows, Holds
      <4>3. s \in Emitted("skipped", Step) <=> Count("skipped", s) > 0
        BY DEF Emitted, Count
      <4>4. s \in untold <=>
              (child[s] = "succeeded" \/ s \in reused) /\ ~(Count("completed", s) > 0)
        BY <1>5 DEF untold, Unannounced, Children, Emitted, Count
      <4>5. s \in Children(Step, {"succeeded"}) <=> child[s] = "succeeded"
        BY DEF Children
      <4>6. s \in found <=>
              \/ child[s] = "succeeded" \/ s \in reused \/ s \in Emitted("skipped", Step)
        BY <1>5, <4>5 DEF found
      <4> QED  BY <4>1, <4>2, <4>3, <4>4, <4>6 DEF StepStored, Holds
    <3>5. New(q, "completed", untold)
      BY <3>2, <3>3, <3>4 DEF New, Tells
    <3>6. Truthful(q \o messages) /\ Finishing(q \o messages)
      BY <2>1, <3>2, <3>3, <3>5, PutTruth, PutFinishing
    <3>7. \A s \in Step : Announced(q \o messages, s) <=> Announced(q, s) \/ s \in untold
      BY <2>1, <3>2, <3>3, PutAnnounced
    <3>8. \A s \in Step : Announced(q, s) <=> StepStored(s)  BY <3>2 DEF Announced
    <3>9. Tracks(r, q \o messages) /\ Unread(r, q \o messages)
      BY <2>5, <3>4, <3>7, <3>8 DEF Tracks, Unread
    <3> QED  BY <3>1, <3>6, <3>9 DEF Announces
  <2> QED  BY <1>3, <2>3, <2>5, <2>6, PutsAnnounced
<1> QED  BY <1>6, <1>7

\* Steps that no result is held of may be told of.
LEMMA NewSteps ==
  ASSUME AnnouncedRows, NEW p, NEW q \in Seq(Message), NEW of \in {"completed", "skipped"},
         NEW nodes \in SUBSET Step, \A s \in nodes : Holds(of, s) /\ ~Announced(q, s)
  PROVE  New(q, of, nodes)
<1> SUFFICES ASSUME NEW s \in nodes
             PROVE  Count(of, s) = 0 /\ \A i \in 1..Len(q) : ~Tells(q, i, of, s)
  BY DEF New
<1>1. ~StepStored(s) /\ \A i \in 1..Len(q) : ~TellsStep(q, i, s)  BY DEF Announced
<1>2. s \in Node /\ of \in OutcomeKind  BY Nodes DEF OutcomeKind
<1>3. Count(of, s) \in Nat /\ ~(Count(of, s) > 0)
  BY <1>1, <1>2 DEF AnnouncedRows, StepStored
<1> QED  BY <1>1, <1>3 DEF TellsStep

LEMMA AnnouncedLayer ==
  ASSUME FullInv, AnnouncedInv, ChildrenGoOn, executor = "workflow-dag",
         NEW a \in Attempt, proc[a] # None, Layer(a)
  PROVE  AnnouncedInv'
<1>1. proc[a] \in WorkflowProcess  BY OpenFacts
<1>2. PICK p : p = proc[a]  OBVIOUS
<1>3. p.pc = "layer" /\ UNCHANGED <<rootVars, stored, unmet, reused>> /\ p.results \subseteq Step
  BY <1>1, <1>2 DEF Layer, WorkflowProcess
<1>4. Open(a) => /\ Announces(p, outbox[a]) /\ outbox[a] \in Seq(Message)
                 /\ Truthful(outbox[a]) /\ Finishing(outbox[a])
                 /\ \A s \in Step : s \in p.results <=> Announced(outbox[a], s)
  BY <1>2, <1>3, OpenQueue DEF Announces, Tracks
<1>5. AnnouncedRows  BY DEF AnnouncedInv
<1>6. CASE p.results = Step
  <2>1. Puts(a, Succeed(p.results)) /\ WorkflowEnds(a)  BY <1>2, <1>6 DEF Layer
  <2>2. PICK m : m.kind = "succeeded" /\ Succeed(p.results) = <<m>>  BY EndMessages
  <2>3. PICK r \in WorkflowProcess : Becomes(a, r) /\ r.pc = "over"  BY <2>1, WorkflowOver
  <2>4. Open(a) => Announces(r, outbox[a] \o <<m>>)
    BY <1>4, <1>6, <2>2, <2>3, EndAnnounces
  <2> QED  BY <1>3, <2>1, <2>2, <2>3, <2>4, PutsAnnounced
<1>7. CASE p.results # Step /\ Ready(p.results) = {}
  <2>1. Puts(a, Fail) /\ WorkflowEnds(a)  BY <1>2, <1>7 DEF Layer
  <2>2. PICK m : m.kind = "failed" /\ Fail = <<m>> /\ m \in Message  BY EndMessages
  <2>3. PICK r \in WorkflowProcess : Becomes(a, r) /\ r.pc = "over"  BY <2>1, WorkflowOver
  <2> QED  BY <1>3, <2>1, <2>2, <2>3, EndPuts
<1>8. CASE p.results # Step /\ Ready(p.results) # {}
  <2> DEFINE skipped == Ready(p.results) \cap unmet
             run == FirstOf(Ready(p.results) \ unmet, Parallelism)
             known == p.results \cup skipped
  <2>1. PICK messages : messages = Events("skipped", skipped)  OBVIOUS
  <2>2. PICK r : r = [p EXCEPT !.pc = "run", !.results = known,
                               !.todo = run, !.layer = run, !.got = {}, !.active = {}]
    OBVIOUS
  <2>3. Puts(a, messages) /\ Becomes(a, r)  BY <1>2, <1>8, <2>1, <2>2 DEF Layer
  <2>4. /\ run \subseteq Step /\ skipped \in SUBSET Step
        /\ run \cap known = {} /\ skipped \subseteq unmet /\ skipped \cap p.results = {}
    BY DEF FirstOf, Ready
  <2> HIDE DEF run, skipped
  <2>5. known \subseteq Step  BY <1>3, <2>4
  <2> HIDE DEF known
  <2>6. /\ r \in WorkflowProcess /\ r.pc = "run"
        /\ r.results = known /\ r.layer = run /\ r.got = {}
    BY <1>1, <1>2, <2>2, <2>4, <2>5 DEF WorkflowProcess
  <2>7. ASSUME Open(a) PROVE Announces(r, outbox[a] \o messages)
    <3>1. PICK q : q = outbox[a]  OBVIOUS
    <3>2. /\ q \in Seq(Message) /\ Truthful(q) /\ Finishing(q)
          /\ \A s \in Step : s \in p.results <=> Announced(q, s)
      BY <1>4, <2>7, <3>1
    <3>3. New(q, "skipped", skipped)
      <4>1. \A s \in skipped : Holds("skipped", s) /\ ~Announced(q, s)
        BY <2>4, <3>2 DEF Holds
      <4> QED  BY <1>5, <2>4, <3>2, <4>1, NewSteps
    <3>4. Truthful(q \o messages) /\ Finishing(q \o messages)
      <4>1. skipped \in SUBSET Node /\ "skipped" \in OutcomeKind  BY <2>4, Nodes DEF OutcomeKind
      <4> QED  BY <2>1, <3>2, <3>3, <4>1, PutTruth, PutFinishing
    <3>5. \A s \in Step : Announced(q \o messages, s) <=> Announced(q, s) \/ s \in skipped
      BY <2>1, <2>4, <3>2, PutAnnounced
    <3>6. \A s \in Step : s \in known <=> Announced(q \o messages, s)
      BY <3>2, <3>5 DEF known
    <3>7. Tracks(r, q \o messages) /\ Unread(r, q \o messages)
      BY <2>4, <2>6, <3>6 DEF Tracks, Unread
    <3> QED  BY <3>1, <3>4, <3>7 DEF Announces
  <2> QED  BY <1>3, <2>3, <2>6, <2>7, PutsAnnounced
<1> QED  BY <1>6, <1>7, <1>8

LEMMA AnnouncedCreateStep ==
  ASSUME FullInv, AnnouncedInv, ChildrenGoOn, executor = "workflow-dag",
         NEW a \in Attempt, proc[a] # None, CreateStep(a)
  PROVE  AnnouncedInv'
<1>1. proc[a] \in WorkflowProcess  BY OpenFacts
<1>2. PICK p : p = proc[a]  OBVIOUS
<1>3. PICK s \in p.todo : Becomes(a, [p EXCEPT !.todo = @ \ {s}])  BY <1>2 DEF CreateStep
<1>4. PICK r : r = [p EXCEPT !.todo = @ \ {s}]  OBVIOUS
<1>5. /\ r \in WorkflowProcess /\ r.pc = p.pc
      /\ r.results = p.results /\ r.layer = p.layer /\ r.got = p.got
  BY <1>1, <1>2, <1>4 DEF WorkflowProcess
<1>6. p.pc = "run" /\ Becomes(a, r) /\ UNCHANGED <<rootVars, stored, unmet, reused, outbox>>
  BY <1>2, <1>3, <1>4 DEF CreateStep
<1>7. ASSUME Open(a) PROVE Announces(r, outbox[a])
  <2>1. Announces(p, outbox[a])  BY <1>2, <1>7, OpenQueue
  <2> QED  BY <1>5, <1>6, <2>1 DEF Announces, Unread, Tracks
<1> QED  BY <1>5, <1>6, <1>7, QuietAnnounced

LEMMA AnnouncedStopWaiting ==
  ASSUME FullInv, AnnouncedInv, ChildrenGoOn, executor = "workflow-dag",
         NEW a \in Attempt, proc[a] # None, StopWaiting(a)
  PROVE  AnnouncedInv'
<1>1. Puts(a, Stopped) /\ WorkflowEnds(a) /\ UNCHANGED <<rootVars, stored, unmet, reused>>
  BY DEF StopWaiting
<1>2. PICK m : m.kind = "cancelled" /\ Stopped = <<m>>  BY EndMessages
<1>3. PICK r \in WorkflowProcess : Becomes(a, r) /\ r.pc = "over"  BY <1>1, WorkflowOver
<1> QED  BY <1>1, <1>2, <1>3, EndPuts

\* What a process has found of its layer so far.
LEMMA FoundAnnounces ==
  ASSUME executor = "workflow-dag", NEW p, NEW q, Announces(p, q),
         p.pc \in {"run", "collect"}, NEW r, r.pc = "collect", r.results = p.results,
         r.layer \cup r.got \subseteq p.layer \cup p.got,
         \A s \in r.got : s \in p.got \/ child[s] = "succeeded"
  PROVE  Announces(r, q)
<1>1. Tracks(r, q) /\ Unread(r, q)  BY DEF Announces, Tracks, Unread
<1> QED  BY <1>1 DEF Announces

LEMMA AnnouncedCollect ==
  ASSUME FullInv, AnnouncedInv, ChildrenGoOn, executor = "workflow-dag",
         NEW a \in Attempt, proc[a] # None, Collect(a)
  PROVE  AnnouncedInv'
<1>1. proc[a] \in WorkflowProcess  BY OpenFacts
<1>2. PICK p : p = proc[a]  OBVIOUS
<1>3. /\ p.pc \in {"run", "collect"} /\ UNCHANGED <<rootVars, stored, unmet, reused>>
      /\ p.layer \subseteq Step /\ p \in WorkflowProcess
  BY <1>1, <1>2 DEF Collect, Collecting, WorkflowProcess
<1> DEFINE later(s) == [p EXCEPT !.pc = "collect", !.layer = @ \ {s}]
<1>4. PICK s \in p.layer :
        \/ Puts(a, Suspend(s)) /\ WorkflowEnds(a)
        \/ /\ child[s] \in Unsuccessful
           /\ Puts(a, Events("failed", {s}) \o Fail) /\ WorkflowEnds(a)
        \/ /\ child[s] = "succeeded" /\ UNCHANGED outbox
           /\ Becomes(a, [later(s) EXCEPT !.got = @ \cup {s}])
        \/ /\ UNCHANGED outbox
           /\ Becomes(a, [later(s) EXCEPT !.active = @ \cup {s}])
  BY <1>2 DEF Collect
<1>5. s \in Step /\ s \in Node  BY <1>3, Nodes
<1>6. CASE Puts(a, Suspend(s)) /\ WorkflowEnds(a)
  <2>1. PICK m : m.kind = "suspend" /\ Suspend(s) = <<m>>  BY EndMessages
  <2>2. PICK r \in WorkflowProcess : Becomes(a, r) /\ r.pc = "over"  BY <1>6, WorkflowOver
  <2> QED  BY <1>3, <1>6, <2>1, <2>2, EndPuts
<1>7. CASE child[s] \in Unsuccessful /\ Puts(a, Events("failed", {s}) \o Fail) /\ WorkflowEnds(a)
  <2>1. PICK m : m.kind = "failed" /\ Fail = <<m>> /\ m \in Message  BY EndMessages
  <2>2. PICK r \in WorkflowProcess : Becomes(a, r) /\ r.pc = "over"  BY <1>7, WorkflowOver
  <2>3. PICK u, messages : u = Events("failed", {s}) /\ messages = u \o <<m>>  OBVIOUS
  <2>4. ASSUME Open(a) PROVE Announces(r, outbox[a] \o messages)
    <3>1. PICK q : q = outbox[a]  OBVIOUS
    <3>2. q \in Seq(Message) /\ Truthful(q) /\ Finishing(q)
      BY <2>4, <3>1, OpenQueue DEF Announces
    <3>3. {s} \in SUBSET Node /\ "failed" \in OutcomeKind /\ s \notin TaskNode
      BY <1>5, Nodes DEF OutcomeKind
    <3>4. New(q, "failed", {s})  BY <1>7, <3>3 DEF New, Holds, Once
    <3>5. PICK q1 : q1 = q \o u  OBVIOUS
    <3>6. q1 \in Seq(Message) /\ Truthful(q1) /\ Finishing(q1)
      BY <2>3, <3>2, <3>3, <3>4, <3>5, PutTells, PutTruth, PutFinishing
    <3>7. Announces(r, q1 \o <<m>>)  BY <2>1, <2>2, <3>6, EndAnnounces
    <3>8. u \in Seq(Message)
      <4>1. [kind |-> "events", of |-> "failed", nodes |-> {s}] \in Message
        BY <3>3 DEF Message
      <4> QED  BY <2>3, <4>1, EventMessages
    <3>9. q \o (u \o <<m>>) = (q \o u) \o <<m>>
      <4>1. <<m>> \in Seq(Message)  BY <2>1
      <4> QED  BY <3>2, <3>8, <4>1, ConcatAssociative
    <3> QED  BY <2>3, <3>1, <3>5, <3>7, <3>9
  <2>5. Puts(a, messages)  BY <1>7, <2>1, <2>3
  <2> QED  BY <1>3, <2>2, <2>4, <2>5, PutsAnnounced
<1>8. ASSUME NEW r \in WorkflowProcess, Becomes(a, r), UNCHANGED outbox,
             Open(a) => Announces(r, outbox[a])
      PROVE  AnnouncedInv'
  BY <1>3, <1>8, QuietAnnounced
<1>9. CASE child[s] = "succeeded" /\ UNCHANGED outbox
           /\ Becomes(a, [later(s) EXCEPT !.got = @ \cup {s}])
  <2>1. PICK l : l = later(s)  OBVIOUS
  <2>2. PICK r : r = [l EXCEPT !.got = @ \cup {s}]  OBVIOUS
  <2>3. /\ l \in WorkflowProcess /\ l.pc = "collect"
        /\ l.results = p.results /\ l.got = p.got /\ l.layer = p.layer \ {s}
    BY <1>3, <2>1 DEF WorkflowProcess
  <2>4. /\ r \in WorkflowProcess /\ r.pc = "collect"
        /\ r.results = p.results /\ r.got = p.got \cup {s} /\ r.layer = p.layer \ {s}
    BY <1>5, <2>2, <2>3 DEF WorkflowProcess
  <2>5. Open(a) => Announces(p, outbox[a])  BY <1>2, OpenQueue
  <2>6. Open(a) => Announces(r, outbox[a])  BY <1>3, <1>9, <2>4, <2>5, FoundAnnounces
  <2> QED  BY <1>8, <1>9, <2>1, <2>2, <2>4, <2>6
<1>10. CASE UNCHANGED outbox /\ Becomes(a, [later(s) EXCEPT !.active = @ \cup {s}])
  <2>1. PICK l : l = later(s)  OBVIOUS
  <2>2. PICK r : r = [l EXCEPT !.active = @ \cup {s}]  OBVIOUS
  <2>3. /\ l \in WorkflowProcess /\ l.pc = "collect"
        /\ l.results = p.results /\ l.got = p.got /\ l.layer = p.layer \ {s}
    BY <1>3, <2>1 DEF WorkflowProcess
  <2>4. /\ r \in WorkflowProcess /\ r.pc = "collect"
        /\ r.results = p.results /\ r.got = p.got /\ r.layer = p.layer \ {s}
    BY <1>5, <2>2, <2>3 DEF WorkflowProcess
  <2>5. Open(a) => Announces(p, outbox[a])  BY <1>2, OpenQueue
  <2>6. Open(a) => Announces(r, outbox[a])  BY <1>3, <2>4, <2>5, FoundAnnounces
  <2> QED  BY <1>8, <1>10, <2>1, <2>2, <2>4, <2>6
<1> QED  BY <1>4, <1>6, <1>7, <1>9, <1>10

LEMMA AnnouncedEndLayer ==
  ASSUME FullInv, AnnouncedInv, ChildrenGoOn, executor = "workflow-dag",
         NEW a \in Attempt, proc[a] # None, EndLayer(a)
  PROVE  AnnouncedInv'
<1>1. proc[a] \in WorkflowProcess  BY OpenFacts
<1>2. PICK p : p = proc[a]  OBVIOUS
<1>3. /\ p.pc \in {"run", "collect"} /\ UNCHANGED <<rootVars, stored, unmet, reused>>
      /\ p.got \in SUBSET Step /\ p.results \in SUBSET Step /\ p.active \in SUBSET Step
  BY <1>1, <1>2 DEF EndLayer, Collecting, WorkflowProcess
<1>4. CASE p.active # {}
  <2>1. Puts(a, Wait(p.active, None)) /\ WorkflowEnds(a)  BY <1>2, <1>4 DEF EndLayer
  <2>2. PICK m : m.kind = "wait" /\ Wait(p.active, None) = <<m>>  BY EndMessages
  <2>3. PICK r \in WorkflowProcess : Becomes(a, r) /\ r.pc = "over"  BY <2>1, WorkflowOver
  <2> QED  BY <1>3, <2>1, <2>2, <2>3, EndPuts
<1>5. CASE p.active = {}
  <2>1. PICK messages : messages = Events("completed", p.got)  OBVIOUS
  <2>2. PICK r : r = [p EXCEPT !.pc = "layer", !.results = p.results \cup p.got]  OBVIOUS
  <2>3. Puts(a, messages) /\ Becomes(a, r)  BY <1>2, <1>5, <2>1, <2>2 DEF EndLayer
  <2>4. r \in WorkflowProcess /\ r.pc = "layer" /\ r.results = p.results \cup p.got
    BY <1>1, <1>2, <1>3, <2>2 DEF WorkflowProcess
  <2>5. ASSUME Open(a) PROVE Announces(r, outbox[a] \o messages)
    <3>1. PICK q : q = outbox[a]  OBVIOUS
    <3>2. /\ q \in Seq(Message) /\ Truthful(q) /\ Finishing(q) /\ Tracks(p, q)
      BY <1>2, <2>5, <3>1, OpenQueue DEF Announces
    <3>3. /\ \A s \in Step : s \in p.results <=> Announced(q, s)
          /\ \A s \in p.got : child[s] = "succeeded" /\ s \notin p.results
      BY <1>3, <3>2 DEF Tracks
    <3>4. New(q, "completed", p.got)
      <4>1. \A s \in p.got : Holds("completed", s) /\ ~Announced(q, s)
        BY <1>3, <3>3 DEF Holds
      <4> QED  BY <1>3, <3>2, <4>1, NewSteps DEF AnnouncedInv
    <3>5. Truthful(q \o messages) /\ Finishing(q \o messages)
      <4>1. p.got \in SUBSET Node /\ "completed" \in OutcomeKind  BY <1>3, Nodes DEF OutcomeKind
      <4> QED  BY <2>1, <3>2, <3>4, <4>1, PutTruth, PutFinishing
    <3>6. \A s \in Step : Announced(q \o messages, s) <=> Announced(q, s) \/ s \in p.got
      BY <1>3, <2>1, <3>2, PutAnnounced
    <3>7. Tracks(r, q \o messages) /\ Unread(r, q \o messages)
      BY <2>4, <3>3, <3>6 DEF Tracks, Unread
    <3> QED  BY <3>1, <3>5, <3>7 DEF Announces
  <2> QED  BY <1>3, <2>3, <2>4, <2>5, PutsAnnounced
<1> QED  BY <1>4, <1>5

LEMMA QuietSupervisor ==
  ASSUME FullInv, AnnouncedInv, ChildrenGoOn, UNCHANGED <<rootVars, stored, unmet, reused>>,
         executor = "supervisor", NEW a \in Attempt, proc[a] # None, NEW r, Becomes(a, r),
         r.pc \in {"begin", "forward", "read"} => proc[a].pc \in {"begin", "forward", "read"},
         UNCHANGED outbox
  PROVE  AnnouncedInv'
<1>1. executor # "workflow-dag"  OBVIOUS
<1>2. ASSUME Open(a) PROVE Announces(r, outbox[a])
  <2>1. Announces(proc[a], outbox[a])  BY <1>2, OpenQueue
  <2> QED  BY <1>1, <2>1 DEF Announces, Unread
<1> QED  BY <1>1, <1>2, QuietAnnounced

LEMMA EndSupervisor ==
  ASSUME FullInv, AnnouncedInv, ChildrenGoOn, UNCHANGED <<rootVars, stored, unmet, reused>>,
         executor = "supervisor", NEW a \in Attempt, proc[a] # None, SupervisorEnds(a),
         NEW m, m.kind # "events", Puts(a, <<m>>)
  PROVE  AnnouncedInv'
<1>1. PICK r : r = SupervisorAt("over", None, proc[a].told)  OBVIOUS
<1>2. r.pc = "over" /\ Becomes(a, r)  BY <1>1 DEF SupervisorAt, SupervisorEnds
<1>3. executor # "workflow-dag"  OBVIOUS
<1> QED  BY <1>2, <1>3, EndPuts

\* The results of a plan: what has ended and was not told of before.
LEMMA AnnouncedReadResults ==
  ASSUME FullInv, AnnouncedInv, ChildrenGoOn, UNCHANGED <<unmet, reused>>, executor = "supervisor",
         NEW a \in Attempt, proc[a] # None, ReadResults(a)
  PROVE  AnnouncedInv'
<1>1. PICK p : p = proc[a]  OBVIOUS
<1>2. p.pc = "read" /\ UNCHANGED <<rootVars, stored, unmet, reused>> /\ executor # "workflow-dag"
  BY <1>1 DEF ReadResults
<1>3. PICK nodes : nodes = NodesOf(p.plan.version)  OBVIOUS
<1>4. nodes \in SUBSET TaskNode /\ p \in SupervisorProcess
  BY <1>1, <1>2, <1>3, BoundCarrying DEF FullInv
<1> DEFINE done == Children(nodes, {"succeeded"}) \ Emitted("completed", nodes)
<1>5. PICK u, v : u = Events("completed", done) /\ v = Events("failed", NewFailures(nodes))
  OBVIOUS
<1>6. PICK r : r = [p EXCEPT !.pc = "ask", !.done = Keys(Children(nodes, {"succeeded"})),
                             !.failed = Keys(Children(nodes, Unsuccessful))]
  OBVIOUS
<1>7. Puts(a, u \o v) /\ Becomes(a, r)  BY <1>1, <1>3, <1>5, <1>6 DEF ReadResults
<1>8. r.pc = "ask"  BY <1>4, <1>6 DEF SupervisorProcess
<1>9. /\ done \in SUBSET Node /\ NewFailures(nodes) \in SUBSET Node
      /\ NewFailures(nodes) \subseteq nodes
      /\ "completed" \in OutcomeKind /\ "failed" \in OutcomeKind
  BY <1>4, Nodes DEF NewFailures, Children, OutcomeKind
<1>10. AnnouncedRows  BY DEF AnnouncedInv
<1>11. ASSUME NEW k \in done PROVE Holds("completed", k) /\ Count("completed", k) = 0
  <2>1. child[k] = "succeeded" /\ k \in Node /\ ~(Count("completed", k) > 0)
    BY <1>9 DEF Children, Emitted, Count
  <2>2. Count("completed", k) \in Nat  BY <1>9, <1>10, <2>1 DEF AnnouncedRows
  <2> QED  BY <2>1, <2>2 DEF Holds
<1>12. ASSUME NEW k \in NewFailures(nodes) PROVE Holds("failed", k) /\ Count("failed", k) = 0
  <2>1. child[k] \in Unsuccessful /\ k \in Node /\ ~(Count("failed", k) > 0)
    BY <1>9 DEF NewFailures, Children, Emitted, Count
  <2>2. Count("failed", k) \in Nat  BY <1>9, <1>10, <2>1 DEF AnnouncedRows
  <2> QED  BY <2>1, <2>2 DEF Holds
<1> HIDE DEF done
<1>13. ASSUME Open(a) PROVE Announces(r, outbox[a] \o (u \o v))
  <2>1. PICK q : q = outbox[a]  OBVIOUS
  <2>2. Announces(p, q)  BY <1>1, <1>13, <2>1, OpenQueue
  <2>3. q = <<>>  BY <1>2, <2>2 DEF Announces, Unread
  <2>4. q \in Seq(Message) /\ Truthful(q)  BY <2>3, EmptyQueue
  <2>5. New(q, "completed", done)  BY <1>11, <2>3 DEF New, Tells
  <2>6. PICK q1 : q1 = q \o u  OBVIOUS
  <2>7. q1 \in Seq(Message) /\ Truthful(q1)
    BY <1>5, <1>9, <2>4, <2>5, <2>6, PutTells, PutTruth
  <2>8. \A i \in Nat, k \in Node : ~Tells(q1, i, "failed", k)
    <3>1. \A i, k : ~Tells(q, i, "failed", k)  BY <2>3 DEF Tells
    <3>2. \A kind \in OutcomeKind, n \in Node, i \in Nat :
            Tells(q1, i, kind, n) <=>
              Tells(q, i, kind, n) \/ (i = Len(q) + 1 /\ kind = "completed" /\ n \in done)
      BY <1>5, <1>9, <2>4, <2>6, PutTells
    <3> QED  BY <1>9, <3>1, <3>2
  <2>9. New(q1, "failed", NewFailures(nodes))
    <3>1. \A i \in 1..Len(q1) : i \in Nat  BY <2>7
    <3> QED  BY <1>9, <1>12, <2>8, <3>1 DEF New
  <2>10. Truthful(q1 \o v)  BY <1>5, <1>9, <2>7, <2>9, PutTruth
  <2>11. q \o (u \o v) = q1 \o v
    <3>1. u \in Seq(Message)
      <4>1. [kind |-> "events", of |-> "completed", nodes |-> done] \in Message
        BY <1>9 DEF Message
      <4> QED  BY <1>5, <4>1, EventMessages
    <3>2. v \in Seq(Message)
      <4>1. [kind |-> "events", of |-> "failed", nodes |-> NewFailures(nodes)] \in Message
        BY <1>9 DEF Message
      <4> QED  BY <1>5, <4>1, EventMessages
    <3>3. q \o (u \o v) = (q \o u) \o v  BY <2>4, <3>1, <3>2, ConcatAssociative
    <3> QED  BY <2>6, <3>3
  <2> QED  BY <1>2, <1>8, <2>1, <2>10, <2>11 DEF Announces, Unread
<1> QED  BY <1>2, <1>7, <1>13, PutsAnnounced

LEMMA AnnouncedSupervisor ==
  ASSUME FullInv, AnnouncedInv, ChildrenGoOn, UNCHANGED <<unmet, reused>>, executor = "supervisor",
         NEW a \in Attempt, SupervisorStep(a)
  PROVE  AnnouncedInv'
<1>1. PICK p : p = proc[a]  OBVIOUS
<1>2. p # None /\ proc[a] # None  BY <1>1 DEF SupervisorStep
<1>3. p \in SupervisorProcess  BY <1>1, <1>2, BoundFacts DEF FullInv
<1>4. UNCHANGED <<rootVars, stored, unmet, reused>>
  BY DEF SupervisorStep, MakePlan, TakeCommand, ForwardCommand, ReadResults, AskForChild,
       Replan, Proceed, CreateTask
<1>5. ASSUME NEW r, Becomes(a, r), UNCHANGED outbox,
             r.pc \in {"begin", "forward", "read"} => p.pc \in {"begin", "forward", "read"}
      PROVE  AnnouncedInv'
  BY <1>1, <1>2, <1>4, <1>5, QuietSupervisor
<1>6. ASSUME SupervisorEnds(a),
             \/ \E save : Puts(a, Suspend(save))
             \/ \E nodes, save : Puts(a, Wait(nodes, save))
             \/ \E nodes : Puts(a, Succeed(nodes))
             \/ Puts(a, Fail)
      PROVE  AnnouncedInv'
  <2>1. PICK m : m.kind # "events" /\ Puts(a, <<m>>)
    BY <1>6 DEF Suspend, Wait, Succeed, Fail
  <2> QED  BY <1>2, <1>4, <1>6, <2>1, EndSupervisor
<1>7. ASSUME Raise(a) \/ \E plan, replans : Propose(a, p, plan, replans) PROVE AnnouncedInv'
  BY <1>6, <1>7 DEF Raise, Propose
<1>8. CASE MakePlan(a)  BY <1>1, <1>7, <1>8 DEF MakePlan
<1>9. CASE TakeCommand(a)
  <2>1. PICK r : r = [p EXCEPT !.pc = "forward",
                      !.targets = IF p.told = "approve_plan" THEN Members(p.plan) ELSE @]
    OBVIOUS
  <2> QED  BY <1>1, <1>5, <1>9, <2>1 DEF TakeCommand
<1>10. CASE ForwardCommand(a)
  <2>1. PICK r : r = [p EXCEPT !.pc = "read"]  OBVIOUS
  <2> QED  BY <1>1, <1>5, <1>7, <1>10, <2>1 DEF ForwardCommand
<1>11. CASE ReadResults(a)  BY <1>2, <1>11, AnnouncedReadResults
<1>12. CASE AskForChild(a)
  <2>1. PICK r : r = [p EXCEPT !.pc = "decide"]  OBVIOUS
  <2>2. r.pc = "decide"  BY <1>3, <2>1 DEF SupervisorProcess
  <2>3. \/ SupervisorEnds(a) /\ \E save : Puts(a, Suspend(save))
        \/ Becomes(a, r) /\ UNCHANGED outbox
    BY <1>1, <1>12, <2>1 DEF AskForChild
  <2> QED  BY <1>5, <1>6, <2>2, <2>3
<1>13. CASE Replan(a)
  <2>1. p.pc = "decide"  BY <1>1, <1>13 DEF Replan
  <2>2. ASSUME NEW plan, UNCHANGED outbox,
               Becomes(a, [p EXCEPT !.plan = plan, !.replans = @ + 1,
                                    !.done = {}, !.failed = {}])
        PROVE  AnnouncedInv'
    <3>1. PICK r : r = [p EXCEPT !.plan = plan, !.replans = @ + 1, !.done = {}, !.failed = {}]
      OBVIOUS
    <3>2. r.pc = "decide"  BY <1>3, <2>1, <3>1 DEF SupervisorProcess
    <3> QED  BY <1>5, <2>2, <3>1, <3>2
  <2> QED  BY <1>1, <1>7, <1>13, <2>2 DEF Replan
<1>14. CASE Proceed(a)
  <2>1. p.pc = "decide"  BY <1>1, <1>14 DEF Proceed
  <2>2. ASSUME NEW next, UNCHANGED outbox,
               Becomes(a, [p EXCEPT !.pc = "create", !.todo = next, !.active = {}])
        PROVE  AnnouncedInv'
    <3>1. PICK r : r = [p EXCEPT !.pc = "create", !.todo = next, !.active = {}]  OBVIOUS
    <3>2. r.pc = "create"  BY <1>3, <3>1 DEF SupervisorProcess
    <3> QED  BY <1>5, <2>2, <3>1, <3>2
  <2>3. \/ Raise(a)
        \/ SupervisorEnds(a) /\ \E nodes : Puts(a, Succeed(nodes))
        \/ /\ UNCHANGED outbox
           /\ \E next : Becomes(a, [p EXCEPT !.pc = "create", !.todo = next, !.active = {}])
    BY <1>1, <1>14 DEF Proceed
  <2> QED  BY <1>6, <1>7, <2>2, <2>3
<1>15. CASE CreateTask(a)
  <2>1. p.pc = "create"  BY <1>1, <1>15 DEF CreateTask
  <2>2. ASSUME NEW k, UNCHANGED outbox,
               Becomes(a, [p EXCEPT !.todo = @ \ {k},
                                    !.active = @ \cup {<<p.plan.version, k>>}])
        PROVE  AnnouncedInv'
    <3>1. PICK r : r = [p EXCEPT !.todo = @ \ {k}, !.active = @ \cup {<<p.plan.version, k>>}]
      OBVIOUS
    <3>2. r.pc = "create"  BY <1>3, <2>1, <3>1 DEF SupervisorProcess
    <3> QED  BY <1>5, <2>2, <3>1, <3>2
  <2>3. \/ SupervisorEnds(a) /\ \E nodes, save : Puts(a, Wait(nodes, save))
        \/ /\ UNCHANGED outbox
           /\ \E k : Becomes(a, [p EXCEPT !.todo = @ \ {k},
                                          !.active = @ \cup {<<p.plan.version, k>>}])
    BY <1>1, <1>15 DEF CreateTask
  <2> QED  BY <1>6, <2>2, <2>3
<1> QED
  BY <1>8, <1>9, <1>10, <1>11, <1>12, <1>13, <1>14, <1>15 DEF SupervisorStep

\* The attempt ends, and what it has left to say is not looked at again.
LEMMA ClosedAnnounced ==
  ASSUME AnnouncedInv, ChildrenGoOn, UNCHANGED <<executor, attempt, stored, unmet, reused>>, ~leased',
         executor = "workflow-dag" /\ status' = "succeeded" =>
           status = "succeeded" \/ \A s \in Step : StepStored(s),
         \A b \in Attempt : b > attempt => outbox'[b] = outbox[b]
  PROVE  AnnouncedInv'
BY RowsStay DEF AnnouncedInv

LEMMA StillAnnounced ==
  ASSUME FullInv, AnnouncedInv, ChildrenGoOn,
         UNCHANGED <<executor, attempt, leased, stored, unmet, reused, outbox, proc>>,
         status' = "succeeded" => status = "succeeded"
  PROVE  AnnouncedInv'
<1>1. AnnouncedRows'  BY RowsStay DEF AnnouncedInv
<1>2. ASSUME leased PROVE Announces(proc[attempt], outbox[attempt])'
  <2>1. PICK was, queue : was = proc[attempt] /\ queue = outbox[attempt]  OBVIOUS
  <2>2. Announces(was, queue) /\ (executor = "workflow-dag" => was \in WorkflowProcess)
    BY <1>2, <2>1, OpenFacts DEF AnnouncedInv
  <2>3. Announces(was, queue)'  BY <2>2, AnnouncesStay
  <2>4. was = proc'[attempt'] /\ queue = outbox'[attempt']  BY <2>1
  <2> QED  BY <2>3, <2>4, NowAnnounces
<1> QED  BY <1>1, <1>2 DEF AnnouncedInv

\* An attempt begins with an empty queue.
LEMMA AnnouncedClaim ==
  ASSUME FullInv, AnnouncedInv, ChildrenGoOn, UNCHANGED <<unmet, reused>>, NEW p, Claim(p),
         p.pc \in {"begin", "forward"}
  PROVE  AnnouncedInv'
<1>1. /\ Attempts /\ Attempt \subseteq Nat /\ attempt \in Nat
      /\ \E M : proc \in [Attempt -> M]
  BY OpenFacts
<1>2. /\ attempt' = attempt + 1 /\ attempt + 1 \in Attempt /\ status' = "running"
      /\ UNCHANGED <<executor, child, stored, outbox>>
      /\ proc' = [proc EXCEPT ![attempt + 1] = p]
  BY <1>1, NewestAttempt DEF Claim
<1>3. AnnouncedRows'
  <2>1. \A of \in OutcomeKind, n \in Node : Holds(of, n) => Holds(of, n)'
    BY HoldsStays
  <2>2. \A of, n : Count(of, n)' = Count(of, n) /\ Once(of, n)' = Once(of, n)
    BY <1>2 DEF Count, Once
  <2>3. \A b \in Attempt : b > attempt + 1 => outbox[b] = <<>>
    <3>1. \A b \in Attempt : b > attempt + 1 => b > attempt  BY <1>1
    <3> QED  BY <3>1 DEF AnnouncedInv, AnnouncedRows
  <2> QED  BY <1>2, <2>1, <2>2, <2>3 DEF AnnouncedInv, AnnouncedRows
<1>4. Announces(proc[attempt], outbox[attempt])'
  <2>1. PICK a, q : a = attempt + 1 /\ q = outbox[a]  OBVIOUS
  <2>2. q = <<>>
    <3>1. a > attempt /\ a \in Attempt  BY <1>1, <1>2, <2>1
    <3> QED  BY <2>1, <3>1 DEF AnnouncedInv, AnnouncedRows
  <2>3. Announces(p, q)
    BY <2>2, EmptyQueue DEF Announces, Unread, Tracks
  <2>4. Announces(p, q)'
    <3>1. Truthful(q)'  BY <2>2 DEF Truthful
    <3>2. Finishing(q)'  BY <2>2 DEF Finishing
    <3> QED  BY <2>2, <3>1, <3>2 DEF Announces, Unread, Tracks
  <2>5. attempt' = a /\ a \in Attempt  BY <1>2, <2>1
  <2>6. proc'[a] = p /\ outbox'[a] = q  BY <1>1, <1>2, <2>1, <2>5
  <2>7. p = proc'[attempt'] /\ q = outbox'[attempt']  BY <2>5, <2>6
  <2> QED  BY <2>4, <2>7, NowAnnounces
<1> QED  BY <1>3, <1>4 DEF AnnouncedInv

\* What a queue tells of a step is there after an event is persisted, or
\* is stored.
SaysTheSame(r, q, d, s) ==
  /\ StepStored(s) => StepStored(s)'
  /\ StepStored(s)' => StepStored(s) \/ TellsStep(q, 1, s)
  /\ \A i \in Nat \ {0} : TellsStep(r, i, s) => TellsStep(q, i + d, s)
  /\ \A j \in Nat \ {0} : TellsStep(q, j, s) =>
       StepStored(s)' \/ \E i \in Nat \ {0} : i + d = j /\ TellsStep(r, i, s)

LEMMA DropTells ==
  ASSUME NEW q \in Seq(Message), NEW r, NEW of, NEW n, Leaves(q, r, of, n), Persisted(of, n),
         NEW d \in {0, 1}, LeftOf(r, q, n, d)
  PROVE  \A s \in Step : SaysTheSame(r, q, d, s)
<1> SUFFICES ASSUME NEW s \in Step PROVE SaysTheSame(r, q, d, s)
  OBVIOUS
<1>1. /\ of \in OutcomeKind /\ n \in Node /\ Tells(q, 1, of, n) /\ r \in Seq(Message)
      /\ \A kind, k : Tells(q, 1, kind, k) => kind = of
  BY DEF Leaves
<1>2. s \in Node /\ "completed" \in OutcomeKind /\ "skipped" \in OutcomeKind
  BY Nodes DEF OutcomeKind
<1>3. \A kind \in OutcomeKind :
        /\ Count(kind, s) \in Nat
        /\ Count(kind, s)' = IF kind = of /\ s = n THEN Count(kind, s) + 1 ELSE Count(kind, s)
  BY <1>1, <1>2, CountGrows
<1>4. \A kind \in OutcomeKind :
        Count(kind, s)' > 0 <=> Count(kind, s) > 0 \/ (kind = of /\ s = n)
  BY <1>3
<1>5. StepStored(s)' <=> StepStored(s) \/ (s = n /\ of \in {"completed", "skipped"})
  BY <1>2, <1>4 DEF StepStored
<1>6. StepStored(s)' => StepStored(s) \/ TellsStep(q, 1, s)
  BY <1>1, <1>5 DEF TellsStep
<1>7. \A i \in Nat \ {0} : TellsStep(r, i, s) => TellsStep(q, i + d, s)
  BY DEF LeftOf, TellsStep
<1>8. ASSUME NEW j \in Nat \ {0}, TellsStep(q, j, s)
      PROVE  StepStored(s)' \/ \E i \in Nat \ {0} : i + d = j /\ TellsStep(r, i, s)
  <2>1. CASE j = 1 /\ s = n
    <3>1. of \in {"completed", "skipped"}  BY <1>1, <1>8, <2>1 DEF TellsStep
    <3> QED  BY <1>5, <2>1, <3>1
  <2>2. CASE ~(j = 1 /\ s = n)
    <3>1. ~(d = 1 /\ j = 1)  BY <1>8, <2>2 DEF LeftOf, TellsStep
    <3>2. PICK i \in Nat \ {0} : i + d = j
      <4>1. j - d \in Nat \ {0} /\ (j - d) + d = j  BY <3>1
      <4> QED  BY <4>1
    <3>3. TellsStep(r, i, s)  BY <1>8, <2>2, <3>2 DEF LeftOf, TellsStep
    <3> QED  BY <3>2, <3>3
  <2> QED  BY <2>1, <2>2
<1> QED  BY <1>5, <1>6, <1>7, <1>8 DEF SaysTheSame

LEMMA DropAnnounced ==
  ASSUME NEW q \in Seq(Message), NEW r, NEW of, NEW n, Leaves(q, r, of, n), Persisted(of, n)
  PROVE  /\ \A s \in Step : Announced(r, s)' <=> Announced(q, s)
         /\ Finishing(q) => Finishing(r)'
<1>1. PICK d \in {0, 1} : LeftOf(r, q, n, d)  BY DEF Leaves
<1>2. r \in Seq(Message) /\ Tells(q, 1, of, n)  BY DEF Leaves
<1>3. \A s \in Step : SaysTheSame(r, q, d, s)  BY <1>1, DropTells
<1>4. \A s \in Step :
        /\ StepStored(s) => StepStored(s)'
        /\ StepStored(s)' => StepStored(s) \/ TellsStep(q, 1, s)
        /\ \A i \in Nat \ {0} : TellsStep(r, i, s) => TellsStep(q, i + d, s)
        /\ \A j \in Nat \ {0} : TellsStep(q, j, s) =>
             StepStored(s)' \/ \E i \in Nat \ {0} : i + d = j /\ TellsStep(r, i, s)
  BY <1>3 DEF SaysTheSame
<1>5. /\ Len(q) \in Nat /\ Len(r) \in Nat /\ 1 \in 1..Len(q)
      /\ \A i \in 1..Len(q) : i \in Nat \ {0}
      /\ \A i \in 1..Len(r) : i \in Nat \ {0} /\ i + d \in 1..Len(q)
  BY <1>1, <1>2 DEF LeftOf, Tells
<1>6. \A i, s : TellsStep(r, i, s) => i \in 1..Len(r)  BY DEF TellsStep, Tells
<1>7. ASSUME NEW s \in Step PROVE Announced(r, s)' <=> Announced(q, s)
  <2>1. Announced(r, s)' <=> StepStored(s)' \/ \E i \in 1..Len(r) : TellsStep(r, i, s)
    BY DEF Announced, TellsStep, Tells
  <2>2. (\E i \in 1..Len(r) : TellsStep(r, i, s)) => \E i \in 1..Len(q) : TellsStep(q, i, s)
    BY <1>4, <1>5
  <2>3. (\E i \in 1..Len(q) : TellsStep(q, i, s)) =>
          StepStored(s)' \/ \E i \in 1..Len(r) : TellsStep(r, i, s)
    BY <1>4, <1>5, <1>6
  <2> QED  BY <1>4, <1>5, <2>1, <2>2, <2>3 DEF Announced
<1>8. ASSUME Finishing(q) PROVE Finishing(r)'
  <2> SUFFICES ASSUME NEW i \in 1..Len(r), r[i].kind = "succeeded", NEW s \in Step
               PROVE  StepStored(s)' \/ \E j \in 1..(i - 1) : TellsStep(r, j, s)
    BY DEF Finishing, TellsStep, Tells
  <2>1. PICK k : k = i + d  OBVIOUS
  <2>2. k \in 1..Len(q) /\ q[k].kind = "succeeded"  BY <1>5, <1>1, <2>1 DEF LeftOf
  <2>3. StepStored(s) \/ \E j \in 1..(k - 1) : TellsStep(q, j, s)
    BY <1>8, <2>2 DEF Finishing
  <2>4. ASSUME NEW j \in 1..(k - 1), TellsStep(q, j, s)
        PROVE  StepStored(s)' \/ \E l \in 1..(i - 1) : TellsStep(r, l, s)
    <3>1. j \in Nat \ {0}  BY <1>5, <2>1
    <3>2. StepStored(s)' \/ \E l \in Nat \ {0} : l + d = j /\ TellsStep(r, l, s)
      BY <1>4, <2>4, <3>1
    <3>3. \A l \in Nat \ {0} : l + d = j => l \in 1..(i - 1)  BY <1>5, <2>1
    <3> QED  BY <3>2, <3>3
  <2> QED  BY <1>4, <2>3, <2>4
<1> QED  BY <1>7, <1>8

LEMMA LeavesTruth ==
  ASSUME NEW q \in Seq(Message), NEW r, NEW of, NEW n, Leaves(q, r, of, n),
         Truthful(q), Persisted(of, n), UNCHANGED <<child, unmet, reused>>
  PROVE  Truthful(r)'
<1>1. PICK d \in {0, 1} : LeftOf(r, q, n, d)  BY DEF Leaves
<1>2. r \in Seq(Message) /\ of \in OutcomeKind /\ n \in Node /\ Tells(q, 1, of, n)
  BY DEF Leaves
<1> QED  BY <1>1, <1>2, DropTruth

\* An event is persisted: it is told of no more, and stored.
LEMMA AnnouncedPersistEvent ==
  ASSUME FullInv, AnnouncedInv, ChildrenGoOn, UNCHANGED <<unmet, reused>>, PersistEvent
  PROVE  AnnouncedInv'
<1>1. /\ leased /\ outbox[attempt] # <<>> /\ Head(outbox[attempt]).kind = "events"
      /\ UNCHANGED <<executor, status, attempt, leased, child, proc>>
  BY DEF PersistEvent, Persists, rootVars
<1>2. PICK q, m : q = outbox[attempt] /\ m = Head(q)  OBVIOUS
<1>3. PICK n \in m.nodes :
        /\ stored' = [stored EXCEPT ![[of |-> m.of, node |-> n]] = @ + 1]
        /\ outbox' = [outbox EXCEPT ![attempt] = Events(m.of, m.nodes \ {n}) \o Tail(@)]
  BY <1>2 DEF PersistEvent
<1>4. /\ attempt \in Attempt /\ outbox \in [Attempt -> Seq(Message)]
      /\ attempt \in Nat /\ Attempt \subseteq Nat
      /\ executor = "workflow-dag" => proc[attempt] \in WorkflowProcess
  BY <1>1, OpenFacts
<1>5. q \in Seq(Message) /\ q # <<>> /\ m.kind = "events"  BY <1>1, <1>2, <1>4
<1>6. PICK r : r = Events(m.of, m.nodes \ {n}) \o Tail(q)  OBVIOUS
<1>7. PICK of : of = m.of  OBVIOUS
<1>8. Leaves(q, r, of, n)  BY <1>2, <1>5, <1>6, <1>7, DropLeaves
<1>9. of \in OutcomeKind /\ n \in Node /\ Tells(q, 1, of, n)  BY <1>8 DEF Leaves
<1>10. Persisted(of, n)  BY <1>3, <1>7 DEF FullInv, Basics, Persisted
<1>11. PICK p : p = proc[attempt]  OBVIOUS
<1>12. Announces(p, q) /\ AnnouncedRows  BY <1>1, <1>2, <1>11 DEF AnnouncedInv
<1>13. /\ Holds(of, n)
       /\ Once(of, n) => Count(of, n) = 0
  <2>1. 1 \in 1..Len(q)  BY <1>9 DEF Tells
  <2> QED  BY <1>9, <1>12, <2>1 DEF Announces, Truthful
<1>14. \A kind \in OutcomeKind, k \in Node :
         /\ Count(kind, k) \in Nat
         /\ Count(kind, k)' = IF kind = of /\ k = n THEN Count(kind, k) + 1 ELSE Count(kind, k)
  BY <1>9, <1>10, CountGrows
<1>15. AnnouncedRows'
  <2>1. ASSUME NEW kind \in OutcomeKind, NEW k \in Node
        PROVE  /\ Count(kind, k)' \in Nat
               /\ Count(kind, k)' > 0 => Holds(kind, k)
               /\ Once(kind, k) => Count(kind, k)' <= 1
    <3>1. /\ Count(kind, k) > 0 => Holds(kind, k)
          /\ Once(kind, k) => Count(kind, k) <= 1
      BY <1>12 DEF AnnouncedRows
    <3> QED  BY <1>13, <1>14, <3>1
  <2>2. \A b \in Attempt : b > attempt => outbox'[b] = <<>>
    <3>1. \A b \in Attempt : b > attempt => b # attempt  BY <1>4
    <3> QED  BY <1>3, <1>4, <1>12, <3>1 DEF AnnouncedRows
  <2>3. status # "succeeded"  BY <1>1, OpenFacts DEF Attempts
  <2> QED  BY <1>1, <2>1, <2>2, <2>3 DEF AnnouncedRows, Holds, Once
<1>16. Announces(p, r)'
  <2>1. Truthful(r)'
    <3>1. UNCHANGED <<child, unmet, reused>> /\ Truthful(q)  BY <1>1, <1>12 DEF Announces
    <3> QED  BY <1>5, <1>8, <1>10, <3>1, LeavesTruth
  <2>2. Unread(p, r)'  BY <1>5, <1>12 DEF Announces, Unread
  <2>3. ASSUME executor = "workflow-dag" PROVE Tracks(p, r)' /\ Finishing(r)'
    <3>1. /\ \A s \in Step : Announced(r, s)' <=> Announced(q, s)
          /\ Finishing(q) => Finishing(r)'
      BY <1>5, <1>8, <1>10, DropAnnounced
    <3>2. p.got \subseteq Step  BY <1>4, <1>11, <2>3 DEF WorkflowProcess
    <3> QED  BY <1>1, <1>12, <2>3, <3>1, <3>2 DEF Announces, Tracks
  <2> QED  BY <1>1, <2>1, <2>2, <2>3 DEF Announces
<1>17. Announces(proc[attempt], outbox[attempt])'
  <2>1. outbox'[attempt] = r  BY <1>2, <1>3, <1>4, <1>6
  <2>2. p = proc'[attempt'] /\ r = outbox'[attempt']  BY <1>1, <1>11, <2>1
  <2> QED  BY <1>16, <2>2, NowAnnounces
<1> QED  BY <1>15, <1>17 DEF AnnouncedInv

LEMMA AnnouncedPersistSuccess ==
  ASSUME FullInv, AnnouncedInv, ChildrenGoOn, UNCHANGED <<unmet, reused>>, PersistSuccess
  PROVE  AnnouncedInv'
<1>1. /\ leased /\ outbox[attempt] # <<>> /\ Head(outbox[attempt]).kind = "succeeded"
      /\ UNCHANGED <<executor, attempt, stored>> /\ ~leased' /\ Pop
  BY DEF PersistSuccess, Persists
<1>2. /\ attempt \in Attempt /\ outbox \in [Attempt -> Seq(Message)]
      /\ attempt \in Nat /\ Attempt \subseteq Nat
  BY <1>1, OpenFacts
<1>3. \A b \in Attempt : b > attempt => outbox'[b] = outbox[b]
  <2>1. \A b \in Attempt : b > attempt => b # attempt  BY <1>2
  <2> QED  BY <1>1, <1>2, <2>1 DEF Pop
<1>4. executor = "workflow-dag" => \A s \in Step : StepStored(s)
  <2>1. PICK q : q = outbox[attempt]  OBVIOUS
  <2>2. q \in Seq(Message) /\ q # <<>> /\ Head(q).kind = "succeeded"  BY <1>1, <1>2, <2>1
  <2>3. q[1].kind = "succeeded" /\ 1 \in 1..Len(q)  BY <2>2, TailOf
  <2>4. 1..(1 - 1) = {}  OBVIOUS
  <2>5. executor = "workflow-dag" => Finishing(q)
    BY <1>1, <2>1 DEF AnnouncedInv, Announces
  <2> QED  BY <2>3, <2>4, <2>5 DEF Finishing
<1> QED  BY <1>1, <1>3, <1>4, ClosedAnnounced

LEMMA AnnouncedEnvironment ==
  ASSUME FullInv, AnnouncedInv, ChildrenGoOn, UNCHANGED <<unmet, reused>>, Environment
  PROVE  AnnouncedInv'
<1>1. /\ Attempt \subseteq Nat /\ attempt \in Nat
      /\ outbox \in [Attempt -> Seq(Message)]
  BY OpenFacts
<1>2. CASE Lose \/ PersistSuspension \/ PersistFailure \/ PersistCancelled
  <2>1. UNCHANGED <<executor, attempt, stored>> /\ ~leased' /\ status' # "succeeded"
    BY <1>2 DEF Lose, PersistSuspension, PersistFailure, PersistCancelled, Ended
  <2>2. \A b \in Attempt : b > attempt => outbox'[b] = outbox[b]
    <3>1. \A b \in Attempt : b > attempt => b # attempt  BY <1>1
    <3> QED  BY <1>1, <1>2, <3>1 DEF Lose, PersistSuspension, PersistFailure, PersistCancelled, Pop
  <2> QED  BY <2>1, <2>2, ClosedAnnounced
<1>3. CASE Cancel \/ Wake \/ \E n \in Node : ChildMoves(n)
  <2>1. /\ UNCHANGED <<executor, attempt, leased, stored, outbox, proc>>
        /\ status' = "succeeded" => status = "succeeded"
    BY <1>3 DEF Cancel, Wake, ChildMoves, rest, rootVars
  <2> QED  BY <2>1, StillAnnounced
<1> QED
  BY <1>2, <1>3, AnnouncedPersistEvent, AnnouncedPersistSuccess DEF Environment

LEMMA AnnouncedStep ==
  ASSUME FullInv, AnnouncedInv, [Next]_vars
  PROVE  AnnouncedInv'
<1>1. ChildrenGoOn /\ Attempts  BY StepGoesOn DEF FullInv, Inv, WorkflowInv
<1>2. CASE Environment /\ UNCHANGED <<unmet, reused>>  BY <1>1, <1>2, AnnouncedEnvironment
<1>3. CASE NextWorkflow
  <2>1. CASE Claim(WorkflowBegins) /\ UNCHANGED <<unmet, reused>>
    <3>1. PICK p : p = WorkflowBegins  OBVIOUS
    <3>2. p.pc = "forward"  BY <3>1 DEF WorkflowBegins, WorkflowAt
    <3> QED  BY <1>1, <2>1, <3>1, <3>2, AnnouncedClaim
  <2>2. CASE Answer("answer") /\ UNCHANGED <<unmet, reused>>
    <3>1. /\ UNCHANGED <<executor, attempt, leased, stored, outbox, proc>>
          /\ status' = "queued"
      BY <2>2 DEF Answer, rest
    <3> QED  BY <1>1, <2>2, <3>1, StillAnnounced
  <2>3. ASSUME NEW a \in Attempt, WorkflowStep(a) PROVE AnnouncedInv'
    BY <1>1, <1>3, <2>3, AnnouncedForwardResume, AnnouncedReadRuns, AnnouncedLayer,
       AnnouncedCreateStep, AnnouncedStopWaiting, AnnouncedCollect, AnnouncedEndLayer
       DEF NextWorkflow, WorkflowStep
  <2> QED  BY <1>3, <2>1, <2>2, <2>3 DEF NextWorkflow
<1>4. CASE NextSupervisor /\ UNCHANGED <<unmet, reused>>
  <2>1. CASE Claim(SupervisorBegins)
    <3>1. PICK p : p = SupervisorBegins  OBVIOUS
    <3>2. p.pc = "begin"  BY <3>1 DEF SupervisorBegins, SupervisorAt
    <3> QED  BY <1>1, <1>4, <2>1, <3>1, <3>2, AnnouncedClaim
  <2>2. CASE Reply
    <3>1. /\ UNCHANGED <<executor, attempt, leased, stored, outbox, proc>>
          /\ status' = "queued"
      BY <2>2 DEF Reply, Answer, rest
    <3> QED  BY <1>1, <1>4, <3>1, StillAnnounced
  <2>3. ASSUME NEW a \in Attempt, SupervisorStep(a) PROVE AnnouncedInv'
    BY <1>1, <1>4, <2>3, AnnouncedSupervisor DEF NextSupervisor
  <2> QED  BY <1>4, <2>1, <2>2, <2>3 DEF NextSupervisor
<1>5. CASE UNCHANGED vars
  <2>1. UNCHANGED <<executor, status, attempt, leased, stored, outbox, proc, unmet, reused>>
    BY <1>5 DEF vars, rest, rootVars
  <2> QED  BY <1>1, <2>1, StillAnnounced
<1> QED  BY <1>2, <1>3, <1>4, <1>5 DEF Next

LEMMA InitAnnounced ==
  ASSUME Init
  PROVE  AnnouncedInv
<1>1. /\ outbox = [a \in Attempt |-> <<>>] /\ status = "queued" /\ leased = FALSE
      /\ stored = [o \in Outcome |-> 0]
  BY DEF Init, InitRoot
<1>2. ASSUME NEW of \in OutcomeKind, NEW n \in Node PROVE Count(of, n) = 0
  <2>1. PICK o : o = [of |-> of, node |-> n]  OBVIOUS
  <2>2. o \in Outcome  BY <2>1 DEF Outcome, OutcomeKind
  <2> QED  BY <1>1, <2>1, <2>2 DEF Count
<1> QED  BY <1>1, <1>2 DEF AnnouncedInv, AnnouncedRows

LEMMA AnnouncedInvariance == Spec => [](FullInv /\ AnnouncedInv)
<1>1. Init => FullInv /\ AnnouncedInv  BY InitInv, InitTyped, InitAnnounced DEF FullInv
<1>2. FullInv /\ AnnouncedInv /\ [Next]_vars => (FullInv /\ AnnouncedInv)'
  BY InvStep, BoundInvStep, BasicsStep, ResultStep, AnnouncedStep DEF FullInv
<1> QED  BY <1>1, <1>2, PTL DEF Spec

\* That a step or a task was completed or skipped is announced once, over all
\* attempts, lost ones included, and truly, and so is the failure of a task; the
\* failure of a step is announced truly.  A workflow that has succeeded has
\* announced every step.
THEOREM AnnouncementsCorrect == Spec => []AnnouncedOnce
<1>1. ASSUME FullInv, AnnouncedInv PROVE AnnouncedOnce
  <2>1. /\ "completed" \in OutcomeKind /\ "skipped" \in OutcomeKind /\ "failed" \in OutcomeKind
        /\ TaskNode \subseteq Node /\ Step \subseteq Node
    BY Nodes DEF OutcomeKind
  <2>2. \A of \in OutcomeKind, n \in Node :
          /\ Count(of, n) \in Nat
          /\ Count(of, n) > 0 => Holds(of, n)
          /\ Once(of, n) => Count(of, n) <= 1
    BY <1>1 DEF AnnouncedInv, AnnouncedRows
  <2>3. \A n \in Node : ~((child[n] = "succeeded" \/ n \in reused) /\ n \in unmet)
    <3>1. CASE executor = "supervisor"  BY <1>1, <3>1 DEF FullInv, Basics
    <3>2. CASE executor = "workflow-dag"
      <4>1. DueChildren /\ unmet \in SUBSET Step
        BY <1>1, <3>2, OpenFacts DEF WorkflowRows
      <4>2. unmet \cap reused = {}  BY <1>1 DEF FullInv, Basics
      <4> QED  BY <4>1, <4>2 DEF DueChildren, Due
    <3>3. executor \in Executor  BY <1>1, OpenFacts DEF Attempts
    <3> QED  BY <3>1, <3>2, <3>3 DEF Executor
  <2>4. ASSUME NEW n \in Node PROVE Count("completed", n) + Count("skipped", n) <= 1
    <3>1. /\ Count("completed", n) \in Nat /\ Count("skipped", n) \in Nat
          /\ Count("completed", n) <= 1 /\ Count("skipped", n) <= 1
      BY <2>1, <2>2 DEF Once
    <3>2. ~(Count("completed", n) > 0 /\ Count("skipped", n) > 0)
      BY <2>1, <2>2, <2>3 DEF Holds
    <3> QED  BY <3>1, <3>2
  <2>5. \A n \in TaskNode : Count("failed", n) <= 1  BY <2>1, <2>2 DEF Once
  <2>6. /\ \A n \in Emitted("completed", Node) : child[n] = "succeeded" \/ n \in reused
        /\ \A n \in Emitted("failed", Node) : child[n] \in Unsuccessful
    BY <2>1, <2>2 DEF Emitted, Count, Holds
  <2>7. status = "succeeded" /\ executor = "workflow-dag" =>
          Emitted("completed", Step) \cup Emitted("skipped", Step) = Step
    BY <1>1 DEF AnnouncedInv, AnnouncedRows, StepStored, Emitted, Count
  <2> QED  BY <2>4, <2>5, <2>6, <2>7 DEF AnnouncedOnce, Count
<1> QED  BY <1>1, AnnouncedInvariance, PTL
=============================================================================
