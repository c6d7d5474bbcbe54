------------------------------- MODULE RootRun -------------------------------
(***************************************************************************)
(* A root Run as its executor sees it: the process of each attempt, the    *)
(* child Runs it creates, the messages it leaves to its coordinator, and   *)
(* the checkpoint and the command the next attempt starts with.            *)
(*                                                                         *)
(* The queue, leases and wake-ups are those of RunLifecycle, in outline: an *)
(* attempt may be lost at any time, its process may go on for a while, and *)
(* what it puts into its queue from then on is never persisted.  What it   *)
(* writes itself, child Runs and their commands, is not fenced.            *)
(***************************************************************************)
EXTENDS Integers, Sequences, FiniteSets

CONSTANTS
  Step,         \* the steps of the workflow
  Task,         \* keys of supervisor tasks
  Target,       \* members of the supervisor's team
  MaxVersions,  \* versions of a plan: 1 + revisions by the user + max_replans
  MaxAttempts,  \* [Executor -> bound on the attempts of the root]
  MaxLosses,    \* bound on the attempts that are lost
  None          \* no command, no checkpoint, no target

Executor == {"workflow-dag", "supervisor"}
Attempt  == UNION {1..MaxAttempts[x] : x \in Executor}

\* node_key: the step, or the version of the plan and the key of the task.
Version  == 1..MaxVersions
TaskNode == Version \X Task
Node     == Step \cup TaskNode

ASSUME BoundsAssumption ==
  MaxVersions \in Nat /\ MaxAttempts \in [Executor -> Nat] /\ MaxLosses \in Nat
ASSUME NodesAssumption == None \notin Target /\ \A s \in Step : s \notin Nat \X Task

VARIABLES
  executor,    \* executor_key of the root, which is fixed
  status,      \* of the root
  attempt,     \* attempt_count
  leased,      \* the newest attempt is open
  losses,      \* attempts lost
  checkpoint,  \* of the newest suspended attempt, or None
  command,     \* the command accepted and not consumed, or None
  child,       \* [Node -> ChildStatus]
  work,        \* [Node -> the target the child Run was created for]
  stored,      \* [Outcome -> how many such events the root has]
  outbox,      \* [Attempt -> messages not yet persisted]
  proc,        \* [Attempt -> the local state of its process, or None]
  result       \* what the root's output reports as done

rootVars == <<executor, status, attempt, leased, losses, checkpoint, command>>
rest == <<child, work, stored, outbox, proc, result>>

RootStatus == {"queued", "running", "waiting_input", "waiting_children",
               "cancelling", "succeeded", "failed", "cancelled"}
RootOver   == {"succeeded", "failed", "cancelled"}

\* A child Run that is queued, running, cancelling or has children is active.
ChildStatus == {"absent", "active", "waiting", "succeeded", "failed", "cancelled"}
Unfinished  == {"active", "waiting"}
Unsuccessful == {"failed", "cancelled"}

\* workflow.step.* and supervisor.task.* events that tell how a node ended.
Outcome == [of : {"completed", "failed", "skipped"}, node : Node]

InitRoot ==
  /\ status = "queued"
  /\ attempt = 0
  /\ leased = FALSE
  /\ losses = 0
  /\ checkpoint = None
  /\ command = None
  /\ child = [n \in Node |-> "absent"]
  /\ work = [n \in Node |-> None]
  /\ stored = [o \in Outcome |-> 0]
  /\ outbox = [a \in Attempt |-> <<>>]
  /\ proc = [a \in Attempt |-> None]
  /\ result = None

-----------------------------------------------------------------------------
(* What a process does to its surroundings. *)

\* A batch of events, in an order that is not specified.
Events(of, nodes) ==
  IF nodes = {} THEN <<>> ELSE <<[kind |-> "events", of |-> of, nodes |-> nodes]>>

\* request_input and wait_for_children end the process, and so do the terminal
\* messages.
Suspend(save)        == <<[kind |-> "suspend", save |-> save]>>
Wait(nodes, save)    == <<[kind |-> "wait", nodes |-> nodes, save |-> save]>>
Succeed(reported)    == <<[kind |-> "succeeded", reported |-> reported]>>
Fail                 == <<[kind |-> "failed"]>>
Stopped              == <<[kind |-> "cancelled"]>>

\* The queue of an attempt that is not open any more is not read.
Open(a)           == a = attempt /\ leased
Puts(a, messages) == outbox' = [outbox EXCEPT ![a] = IF Open(a) THEN @ \o messages ELSE @]
Becomes(a, p)     == proc' = [proc EXCEPT ![a] = p]

\* cancel_event: set for an attempt whose lease is lost, and for a cancelled
\* Run, once the coordinator has noticed.
MayBeCancelled(a) == ~Open(a) \/ status = "cancelling"

Children(nodes, statuses) == {n \in nodes : child[n] \in statuses}

\* Outcomes already among the events of the root.
Emitted(of, nodes) == {n \in nodes : stored[[of |-> of, node |-> n]] > 0}

\* A command for the child that asked: it works on, unless it no longer waits.
Forward(n) == child' = [child EXCEPT ![n] = IF @ = "waiting" THEN "active" ELSE @]

\* The child Run of a node is created once, whatever the status of the root.
CreateOrLoad(n, target) ==
  IF child[n] = "absent"
    THEN /\ child' = [child EXCEPT ![n] = "active"]
         /\ work' = [work EXCEPT ![n] = target]
    ELSE UNCHANGED <<child, work>>

-----------------------------------------------------------------------------
(* The coordinator, the reaper and the user. *)

\* The attempt begins as p, with the checkpoint and the command.
Claim(p) ==
  /\ status = "queued" /\ attempt < MaxAttempts[executor]
  /\ status' = "running"
  /\ attempt' = attempt + 1
  /\ leased' = TRUE
  /\ command' = None
  /\ proc' = [proc EXCEPT ![attempt + 1] = p]
  /\ UNCHANGED <<executor, losses, checkpoint, child, work, stored, outbox, result>>

\* After a failure the root is retried, unless its budget is used up.
Ended == IF status = "cancelling" THEN {"cancelled"} ELSE {"queued", "failed"}

\* The lease runs out, or the process is found dead.
Lose ==
  /\ leased /\ losses < MaxLosses
  /\ losses' = losses + 1
  /\ leased' = FALSE
  /\ status' \in Ended
  /\ outbox' = [outbox EXCEPT ![attempt] = <<>>]
  /\ UNCHANGED <<executor, attempt, checkpoint, command, child, work, stored, proc, result>>

\* The next message of the open attempt.
Persists(kind) ==
  /\ leased /\ outbox[attempt] # <<>>
  /\ Head(outbox[attempt]).kind = kind

Pop == outbox' = [outbox EXCEPT ![attempt] = Tail(@)]

PersistEvent ==
  /\ Persists("events")
  /\ \E n \in Head(outbox[attempt]).nodes :
       LET m == Head(outbox[attempt])
       IN /\ stored' = [stored EXCEPT ![[of |-> m.of, node |-> n]] = @ + 1]
          /\ outbox' = [outbox EXCEPT ![attempt] =
                          Events(m.of, m.nodes \ {n}) \o Tail(@)]
  /\ UNCHANGED <<rootVars, child, work, proc, result>>

\* A suspension is refused while the root is being cancelled; the attempt is
\* then lost.
PersistSuspension ==
  /\ Persists("suspend") \/ Persists("wait")
  /\ status = "running"
  /\ LET m == Head(outbox[attempt])
     IN /\ checkpoint' = m.save
        /\ status' = IF m.kind = "suspend" THEN "waiting_input"
                     ELSE IF Children(m.nodes, Unfinished) # {} THEN "waiting_children"
                     ELSE "queued"
  /\ leased' = FALSE
  /\ Pop
  /\ UNCHANGED <<executor, attempt, losses, command, child, work, stored, proc, result>>

\* The outcome of a cancelled Run is that it is cancelled.
PersistSuccess ==
  /\ Persists("succeeded")
  /\ IF status = "cancelling"
       THEN status' = "cancelled" /\ UNCHANGED result
       ELSE status' = "succeeded" /\ result' = Head(outbox[attempt]).reported
  /\ leased' = FALSE
  /\ Pop
  /\ UNCHANGED <<executor, attempt, losses, checkpoint, command, child, work, stored, proc>>

PersistFailure ==
  /\ Persists("failed")
  /\ status' \in Ended
  /\ leased' = FALSE
  /\ Pop
  /\ UNCHANGED <<executor, attempt, losses, checkpoint, command, child, work,
                 stored, proc, result>>

PersistCancelled ==
  /\ Persists("cancelled") /\ status = "cancelling"
  /\ status' = "cancelled"
  /\ leased' = FALSE
  /\ Pop
  /\ UNCHANGED <<executor, attempt, losses, checkpoint, command, child, work,
                 stored, proc, result>>

\* The user's answer to the request the root waits with.
Answer(c) ==
  /\ status = "waiting_input"
  /\ status' = "queued"
  /\ command' = c
  /\ UNCHANGED <<executor, attempt, leased, losses, checkpoint, rest>>

Cancel ==
  /\ status \notin RootOver \cup {"cancelling"}
  /\ status' = IF status = "running" THEN "cancelling" ELSE "cancelled"
  /\ UNCHANGED <<executor, attempt, leased, losses, checkpoint, command, rest>>

\* A child ends, asks, is answered by itself, or is cancelled.
ChildMoves(n) ==
  /\ \E next \in CASE child[n] = "active"  -> {"waiting", "succeeded"} \cup Unsuccessful
                    [] child[n] = "waiting" -> {"active"} \cup Unsuccessful
                    [] OTHER -> {} :
       child' = [child EXCEPT ![n] = next]
  /\ UNCHANGED <<rootVars, work, stored, outbox, proc, result>>

\* wake_waiting_parent, after a child has ended or asked.
Wake ==
  /\ status = "waiting_children"
  /\ \E n \in Node : child[n] \in ChildStatus \ {"absent", "active"}
  /\ status' = "queued"
  /\ UNCHANGED <<executor, attempt, leased, losses, checkpoint, command, rest>>

Environment ==
  \/ Lose \/ PersistEvent \/ PersistSuspension \/ PersistSuccess
  \/ PersistFailure \/ PersistCancelled
  \/ Cancel \/ (\E n \in Node : ChildMoves(n)) \/ Wake
=============================================================================
