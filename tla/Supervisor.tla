----------------------------- MODULE Supervisor -----------------------------
(***************************************************************************)
(* The supervisor executor (execute_supervisor in                          *)
(* modules/execution/runtime/supervisor.py): a planner proposes tasks for  *)
(* the members of a team, the user approves the plan or has it revised,    *)
(* the tasks run as child Runs, and after a failure the planner makes      *)
(* another plan, which needs an approval of its own if it asks for members *)
(* that have not been approved.                                            *)
(*                                                                         *)
(* The planner is a language model: whatever it is asked, it answers with  *)
(* any plan that passes validation, or not at all.                         *)
(***************************************************************************)
EXTENDS RootRun

CONSTANTS
  Assignment,    \* what planners come up with: functions from tasks to targets
  After,         \* [Task -> tasks it depends on, if they are in the plan]
  TaskBudget,    \* limits.max_tasks
  MaxReplans,    \* limits.max_replans
  MaxRevisions,  \* bound on the revisions the user asks for
  Width          \* limits.max_parallelism

ASSUME SupervisorAssumption ==
  /\ IsFiniteSet(Task)
  /\ \A w \in Assignment : DOMAIN w \subseteq Task /\ DOMAIN w # {}
  /\ \A w \in Assignment : \A k \in DOMAIN w : w[k] \in Target
  /\ After \in [Task -> SUBSET Task]
  /\ TaskBudget \in Nat /\ MaxReplans \in Nat /\ MaxRevisions \in Nat
  /\ Width \in Nat \ {0}
  /\ MaxVersions = 1 + MaxRevisions + MaxReplans

VARIABLES
  revisions,  \* revisions the user has asked for
  approved,   \* history: the targets of the plans the user has approved
  ignored     \* history: an attempt that had a revision to make has ended
              \* without a proposal

historyVars == <<revisions, approved, ignored>>

Plan == [version : Version, tasks : Assignment]
Save == [plan : Plan, replans : 0..MaxReplans, targets : SUBSET Target,
         asker : TaskNode \cup {None}]
Commands == {"answer", "approve_plan", "revise_plan"}

\* Local state: the checkpoint and the command it began with, the plan it
\* works on, the results of its tasks, and the tasks still to create.
SupervisorProcess ==
  [pc : {"begin", "forward", "read", "ask", "decide", "create", "over"},
   save : Save \cup {None}, told : Commands \cup {None},
   plan : Plan \cup {None}, replans : 0..MaxReplans, targets : SUBSET Target,
   done : SUBSET Task, failed : SUBSET Task,
   todo : SUBSET Task, active : SUBSET TaskNode]

ASSUME NoSupervisorAssumption == None \notin SupervisorProcess \cup Commands

SupervisorAt(pc, save, told) ==
  [pc |-> pc, save |-> save, told |-> told,
   plan    |-> IF save = None THEN None ELSE save.plan,
   replans |-> IF save = None THEN 0 ELSE save.replans,
   targets |-> IF save = None THEN {} ELSE save.targets,
   done |-> {}, failed |-> {}, todo |-> {}, active |-> {}]

SupervisorBegins  == SupervisorAt("begin", checkpoint, command)
SupervisorEnds(a) == Becomes(a, SupervisorAt("over", None, proc[a].told))

InitSupervisor ==
  /\ executor = "supervisor"
  /\ revisions = 0
  /\ approved = {}
  /\ ignored = FALSE

Members(plan)    == {plan.tasks[k] : k \in DOMAIN plan.tasks}
NodesOf(version) == {version} \X Task
Keys(nodes)      == {n[2] : n \in nodes}

\* _generate_plan: the plans that pass validate_supervisor_plan.
Proposals(version, budget) ==
  {[version |-> version, tasks |-> w] : w \in {x \in Assignment :
                                               Cardinality(DOMAIN x) <= budget}}

Saved(p, plan, replans, asker) ==
  [plan |-> plan, replans |-> replans, targets |-> p.targets, asker |-> asker]

\* request_input for a plan.
Propose(a, p, plan, replans) ==
  Puts(a, Suspend(Saved(p, plan, replans, None))) /\ SupervisorEnds(a)

\* A RuntimeError: the planner fails, the time is over, a budget is used up.
Raise(a) == Puts(a, Fail) /\ SupervisorEnds(a)

-----------------------------------------------------------------------------
\* The first plan, or a revised one; both suspend for approval.
MakePlan(a) ==
  LET p == proc[a]
      version == IF p.plan = None THEN 1 ELSE p.plan.version + 1
  IN /\ p.pc = "begin"
     /\ p.plan = None \/ p.told = "revise_plan"
     /\ \/ \E plan \in Proposals(version, TaskBudget) : Propose(a, p, plan, p.replans)
        \/ Raise(a)
     /\ UNCHANGED <<rootVars, child, work, stored, result, historyVars>>

\* An approval is of the targets of the plan.
TakeCommand(a) ==
  LET p == proc[a]
  IN /\ p.pc = "begin" /\ p.plan # None /\ p.told # "revise_plan"
     /\ Becomes(a, [p EXCEPT !.pc = "forward",
          !.targets = IF p.told = "approve_plan" THEN Members(p.plan) ELSE @])
     /\ UNCHANGED <<rootVars, child, work, stored, outbox, result, historyVars>>

\* The timeout is looked at, then the child that asked gets its answer.
ForwardCommand(a) ==
  LET p == proc[a]
  IN /\ p.pc = "forward"
     /\ \/ Raise(a) /\ UNCHANGED child
        \/ /\ IF p.told \notin {None, "approve_plan"} /\ p.save.asker # None
                THEN Forward(p.save.asker) ELSE UNCHANGED child
           /\ Becomes(a, [p EXCEPT !.pc = "read"])
           /\ UNCHANGED outbox
     /\ UNCHANGED <<rootVars, work, stored, result, historyVars>>

\* Failures that were not announced by an earlier attempt.
NewFailures(nodes) == Children(nodes, Unsuccessful) \ Emitted("failed", nodes)

\* _results_for_plan, by the version in the node key, and the announcements.
ReadResults(a) ==
  LET p == proc[a]
      nodes == NodesOf(p.plan.version)
      done == Children(nodes, {"succeeded"})
  IN /\ p.pc = "read"
     /\ Puts(a, Events("completed", done \ Emitted("completed", nodes))
                  \o Events("failed", NewFailures(nodes)))
     /\ Becomes(a, [p EXCEPT !.pc = "ask", !.done = Keys(done),
                             !.failed = Keys(Children(nodes, Unsuccessful))])
     /\ UNCHANGED <<rootVars, child, work, stored, result, historyVars>>

\* A child Run that waits for input makes the root ask for it.
AskForChild(a) ==
  LET p == proc[a]
      waiting == Children(NodesOf(p.plan.version), {"waiting"})
  IN /\ p.pc = "ask"
     /\ IF waiting # {}
          THEN \E n \in waiting : Puts(a, Suspend(Saved(p, p.plan, p.replans, n))) /\ SupervisorEnds(a)
          ELSE Becomes(a, [p EXCEPT !.pc = "decide"]) /\ UNCHANGED outbox
     /\ UNCHANGED <<rootVars, child, work, stored, result, historyVars>>

Remaining == TaskBudget - Cardinality(Children(TaskNode, ChildStatus \ {"absent"}))

\* Mutant: a plan for any member of the team is applied.
MayApplyAny(p, plan) == Members(plan) \subseteq Target

\* Whether another plan needs no approval of its own.
MayApply(p, plan) == Members(plan) \subseteq p.targets

\* Mutant: one replan too many.
MayReplanOnceMore(p) == p.replans <= MaxReplans /\ Remaining >= 1

\* The budgets for another plan.
MayReplan(p) == p.replans < MaxReplans /\ Remaining >= 1

\* After a failure: another plan, applied at once or proposed.
Replan(a) ==
  LET p == proc[a]
  IN /\ p.pc = "decide" /\ p.failed # {}
     /\ \/ Raise(a)
        \/ /\ MayReplan(p)
           /\ \E plan \in Proposals(p.plan.version + 1, Remaining) :
                IF MayApply(p, plan)
                  THEN /\ Becomes(a, [p EXCEPT !.plan = plan, !.replans = @ + 1,
                                               !.done = {}, !.failed = {}])
                       /\ UNCHANGED outbox
                  ELSE Propose(a, p, plan, p.replans + 1)
     /\ UNCHANGED <<rootVars, child, work, stored, result, historyVars>>

\* Mutant: a plan is finished when no task of it is left to start.
FinishedIfStarted(p) ==
  \A k \in DOMAIN p.plan.tasks : child[<<p.plan.version, k>>] # "absent"

\* As many results as tasks.
Finished(p) == Cardinality(p.done) = Cardinality(DOMAIN p.plan.tasks)

\* Tasks without a result whose dependencies are done.
ReadyTasks(p) ==
  {k \in DOMAIN p.plan.tasks \ p.done : After[k] \cap DOMAIN p.plan.tasks \subseteq p.done}

\* The next tasks, at most Width at once, or the end.
Proceed(a) ==
  LET p == proc[a]
      nodes == {<<p.plan.version, k>> : k \in DOMAIN p.plan.tasks}
  IN /\ p.pc = "decide" /\ p.failed = {}
     /\ IF Finished(p)
          THEN Raise(a) \/ (Puts(a, Succeed(nodes)) /\ SupervisorEnds(a))
        ELSE IF ReadyTasks(p) = {} THEN Raise(a)
        ELSE /\ \E next \in SUBSET ReadyTasks(p) :
                  /\ Cardinality(next) = IF Cardinality(ReadyTasks(p)) < Width
                                           THEN Cardinality(ReadyTasks(p)) ELSE Width
                  /\ Becomes(a, [p EXCEPT !.pc = "create", !.todo = next, !.active = {}])
             /\ UNCHANGED outbox
     /\ UNCHANGED <<rootVars, child, work, stored, result, historyVars>>

\* _create_task_run, for one task; then the process waits for all of them.
CreateTask(a) ==
  LET p == proc[a]
  IN /\ p.pc = "create"
     /\ \/ \E k \in p.todo :
             /\ CreateOrLoad(<<p.plan.version, k>>, p.plan.tasks[k])
             /\ Becomes(a, [p EXCEPT !.todo = @ \ {k},
                                     !.active = @ \cup {<<p.plan.version, k>>}])
             /\ UNCHANGED outbox
        \/ /\ p.todo = {}
           /\ Puts(a, Wait(p.active, Saved(p, p.plan, p.replans, None)))
           /\ SupervisorEnds(a) /\ UNCHANGED <<child, work>>
     /\ UNCHANGED <<rootVars, stored, result, historyVars>>

SupervisorStep(a) ==
  /\ proc[a] # None
  /\ \/ MakePlan(a) \/ TakeCommand(a) \/ ForwardCommand(a) \/ ReadResults(a)
     \/ AskForChild(a) \/ Replan(a) \/ Proceed(a) \/ CreateTask(a)

\* The user answers what the root waits with: a plan, or a child's question.
Reply ==
  /\ status = "waiting_input"
  /\ \/ /\ checkpoint.asker # None
        /\ Answer("answer") /\ UNCHANGED historyVars
     \/ /\ checkpoint.asker = None
        /\ Answer("approve_plan")
        /\ approved' = approved \cup Members(checkpoint.plan)
        /\ UNCHANGED <<revisions, ignored>>
     \/ /\ checkpoint.asker = None /\ revisions < MaxRevisions
        /\ Answer("revise_plan")
        /\ revisions' = revisions + 1
        /\ UNCHANGED <<approved, ignored>>

\* The open attempt ends, and a revision it was told to make with it.
Forgets ==
  LET forgets == /\ executor = "supervisor" /\ leased /\ ~leased'
                 /\ proc[attempt].told = "revise_plan"
                 /\ checkpoint' = checkpoint
  IN ignored' = (ignored \/ forgets)

NextSupervisor ==
  /\ executor = "supervisor"
  /\ \/ Claim(SupervisorBegins) /\ UNCHANGED historyVars
     \/ Reply
     \/ \E a \in Attempt : SupervisorStep(a)
=============================================================================
