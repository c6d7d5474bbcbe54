---------------------------- MODULE Orchestration ----------------------------
(***************************************************************************)
(* A root Run with either executor, its child Runs, its coordinators and   *)
(* its user.                                                               *)
(***************************************************************************)
EXTENDS Workflow, Supervisor

vars == <<rootVars, rest, unmet, reused, historyVars>>

Init ==
  /\ InitRoot
  /\ \/ InitWorkflow /\ revisions = 0 /\ approved = {} /\ ignored = FALSE
     \/ InitSupervisor /\ unmet = {} /\ reused = {}

Next ==
  \/ Environment /\ UNCHANGED <<unmet, reused, revisions, approved>> /\ Forgets
  \/ NextWorkflow /\ UNCHANGED historyVars
  \/ NextSupervisor /\ UNCHANGED <<unmet, reused>>

Spec == Init /\ [][Next]_vars

-----------------------------------------------------------------------------
Message ==
  [kind : {"events"}, of : {"completed", "failed", "skipped"}, nodes : SUBSET Node]
    \cup [kind : {"suspend"}, save : Step \cup Save]
    \cup [kind : {"wait"}, nodes : SUBSET Node, save : Save \cup {None}]
    \cup [kind : {"succeeded"}, reported : SUBSET Node]
    \cup [kind : {"failed", "cancelled"}]

TypeOK ==
  /\ executor \in Executor
  /\ status \in RootStatus
  /\ attempt \in 0..MaxAttempts[executor]
  /\ leased <=> status \in {"running", "cancelling"}
  /\ losses \in 0..MaxLosses
  /\ checkpoint \in Step \cup Save \cup {None}
  /\ command \in Commands \cup {None}
  /\ child \in [Node -> ChildStatus]
  /\ work \in [Node -> Target \cup {None}]
  /\ stored \in [Outcome -> Nat]
  /\ \A a \in Attempt : \A i \in DOMAIN outbox[a] : outbox[a][i] \in Message
  /\ \A a \in Attempt :
       proc[a] = None <=> a > attempt
  /\ \A a \in 1..attempt :
       IF executor = "supervisor" THEN proc[a] \in SupervisorProcess
                                  ELSE proc[a] \in WorkflowProcess
  /\ result = None \/ result \subseteq Node
  /\ reused \subseteq Step
  /\ unmet \subseteq Conditional \ reused
  /\ revisions \in 0..MaxRevisions
  /\ approved \subseteq Target
  /\ ignored \in BOOLEAN

\* Nothing is run that is not due, by no process of whatever attempt: a step
\* has a child Run only when it is neither skipped nor reused and all it
\* depends on has ended well, was skipped or is reused, and the Runs of a
\* supervisor work for targets the user has approved, unless an attempt has
\* ended with a revision the user had asked for.
OnlyDueWork ==
  /\ \A s \in Step : child[s] # "absent" =>
       /\ s \notin unmet \cup reused
       /\ \A d \in DependsOn[s] : child[d] = "succeeded" \/ d \in unmet \cup reused
  /\ ~ignored =>
       \A n \in TaskNode : child[n] # "absent" => work[n] \in approved

\* That a step or a task was completed or skipped is announced once, over all
\* attempts, lost ones included, and truly; so is the failure of a task.  The
\* failure of a step is announced truly, but by every retry of the root that
\* finds the failed child Run again.  A workflow that has succeeded has
\* announced every step, those it reuses among the completed.
AnnouncedOnce ==
  /\ \A n \in Node :
       stored[[of |-> "completed", node |-> n]] + stored[[of |-> "skipped", node |-> n]] <= 1
  /\ \A n \in TaskNode : stored[[of |-> "failed", node |-> n]] <= 1
  /\ \A n \in Emitted("completed", Node) : child[n] = "succeeded" \/ n \in reused
  /\ \A n \in Emitted("failed", Node) : child[n] \in Unsuccessful
  /\ status = "succeeded" /\ executor = "workflow-dag" =>
       Emitted("completed", Step) \cup Emitted("skipped", Step) = Step

\* Child Runs of one version that belong to different plans.
Strays(version, keys) ==
  \E k \in Task \ keys : child[<<version, k>>] # "absent"

\* What a root reports as done has been done: every step that was neither
\* skipped nor reused, and every task of the plan, unless a lost attempt has
\* left child Runs of another plan with the same version.
WholeResult ==
  result # None =>
    \A n \in result :
      \/ child[n] = "succeeded"
      \/ n \in unmet \cup reused
      \/ n \in TaskNode /\ Strays(n[1], Keys(result))
=============================================================================
