------------------------------ MODULE Workflow ------------------------------
(***************************************************************************)
(* The workflow DAG executor (_execute_workflow_durable in                 *)
(* modules/execution/runtime/builtin.py): a process that rebuilds its      *)
(* results from the child Runs and the events of the root, creates the     *)
(* child Runs of the steps that are ready, and suspends until one of them  *)
(* ends.                                                                   *)
(***************************************************************************)
EXTENDS RootRun

CONSTANTS
  Position,    \* [Step -> place of its key in the order of the keys]
  DependsOn,   \* [Step -> steps it depends on]
  Conditional, \* steps that have a condition
  Parallelism  \* EXECUTION_WORKFLOW_MAX_PARALLELISM

ASSUME WorkflowAssumption ==
  /\ Position \in [Step -> Nat]
  /\ \A s, t \in Step : Position[s] = Position[t] => s = t
  /\ DependsOn \in [Step -> SUBSET Step] /\ Conditional \subseteq Step
  /\ Parallelism \in Nat \ {0}

VARIABLES
  unmet,   \* the steps whose condition the input and the results do not meet
  reused   \* initial_results: steps done in an ended Run that this one repeats

Earlier(s, steps)  == {t \in steps : Position[t] < Position[s]}
IsFirst(s, steps)  == s \in steps /\ Earlier(s, steps) = {}
FirstOf(steps, n)  == {s \in steps : Cardinality(Earlier(s, steps)) < n}

\* Local state: the steps with a result, those of the layer still to create,
\* the child Runs of the layer still to look at, and what was found so far.
WorkflowProcess ==
  [pc : {"forward", "read", "layer", "run", "collect", "over"},
   saved : Step \cup {None}, told : BOOLEAN,
   results : SUBSET Step, todo : SUBSET Step, layer : SUBSET Step,
   got : SUBSET Step, active : SUBSET Step]

ASSUME NoWorkflowAssumption == None \notin WorkflowProcess

WorkflowAt(pc, saved, told) ==
  [pc |-> pc, saved |-> saved, told |-> told,
   results |-> {}, todo |-> {}, layer |-> {}, got |-> {}, active |-> {}]

WorkflowBegins ==
  [WorkflowAt("forward", checkpoint, command # None) EXCEPT !.results = reused]
WorkflowEnds(a) == Becomes(a, WorkflowAt("over", None, FALSE))

\* rerun_keys of retry_step: the step to run again, and with every step those
\* that depend on it.
RunAgain(steps) ==
  steps # {} /\ \A s \in Step : DependsOn[s] \cap steps # {} => s \in steps

\* The root runs every step, or what retry_step leaves of an ended Run: of the
\* steps that need not run again, those that succeeded there are reused.
InitReused ==
  \/ reused = {}
  \/ reused \in SUBSET Step /\ \E steps \in SUBSET (Step \ reused) : RunAgain(steps)

\* The condition of a step that is reused is not looked at.
InitWorkflow ==
  executor = "workflow-dag" /\ InitReused /\ unmet \in SUBSET (Conditional \ reused)

-----------------------------------------------------------------------------
\* _forward_resume_to_child: the child that asked is named by the checkpoint.
ForwardResume(a) ==
  LET p == proc[a]
  IN /\ p.pc = "forward"
     /\ IF p.told /\ p.saved # None THEN Forward(p.saved) ELSE UNCHANGED child
     /\ Becomes(a, [p EXCEPT !.pc = "read"])
     /\ UNCHANGED <<rootVars, work, stored, outbox, result, unmet, reused>>

\* Mutant: what the events tell is not looked at.
UnannouncedAll(steps) == steps

\* Those of some steps that no earlier attempt has announced as completed.
Unannounced(steps) == steps \ Emitted("completed", Step)

\* The results are rebuilt: the child Runs are added to the steps reused.  The
\* child Runs come in no order, so that a failed one ends the attempt before
\* all others are announced, and before the steps reused are.
ReadRuns(a) ==
  LET p == proc[a]
      failed == Children(Step, Unsuccessful)
      done   == Children(Step, {"succeeded"})
  IN /\ p.pc = "read"
     /\ IF failed # {}
          THEN /\ \E n \in failed, before \in SUBSET Unannounced(done) :
                    Puts(a, Events("completed", before) \o Events("failed", {n}) \o Fail)
               /\ WorkflowEnds(a)
          ELSE /\ Puts(a, Events("completed", Unannounced(done \cup p.results)))
               /\ Becomes(a, [p EXCEPT !.pc = "layer",
                    !.results = @ \cup done \cup Emitted("skipped", Step)])
     /\ UNCHANGED <<rootVars, child, work, stored, result, unmet, reused>>

Ready(results) == {s \in Step \ results : DependsOn[s] \subseteq results}

\* One round of the loop: the steps that are ready are skipped or run, or all
\* have a result.
Layer(a) ==
  LET p == proc[a]
      skipped == Ready(p.results) \cap unmet
      run == FirstOf(Ready(p.results) \ unmet, Parallelism)
  IN /\ p.pc = "layer"
     /\ IF p.results = Step
          THEN Puts(a, Succeed(p.results)) /\ WorkflowEnds(a)
        ELSE IF Ready(p.results) = {}
          THEN Puts(a, Fail) /\ WorkflowEnds(a)
        ELSE /\ Puts(a, Events("skipped", skipped))
             /\ Becomes(a, [p EXCEPT !.pc = "run", !.results = @ \cup skipped,
                              !.todo = run, !.layer = run, !.got = {}, !.active = {}])
     /\ UNCHANGED <<rootVars, child, work, stored, result, unmet, reused>>

\* _create_or_load_step_run, for one step of the layer.
CreateStep(a) ==
  LET p == proc[a]
  IN /\ p.pc = "run"
     /\ \E s \in p.todo :
          /\ IsFirst(s, p.todo)
          /\ CreateOrLoad(s, None)
          /\ Becomes(a, [p EXCEPT !.todo = @ \ {s}])
     /\ UNCHANGED <<rootVars, stored, outbox, result, unmet, reused>>

\* _wait_for_step_runs, when the process has been told to stop: the child Runs
\* are cancelled, those that run only by and by.
StopWaiting(a) ==
  LET p == proc[a]
  IN /\ p.pc = "run" /\ p.todo = {}
     /\ MayBeCancelled(a)
     /\ IF status = "cancelling"
          THEN \E stops \in SUBSET Children(Step, {"active"}) :
                 child' = [n \in Node |->
                   IF n \in stops \cup Children(Step, {"waiting"})
                     THEN "cancelled" ELSE child[n]]
          ELSE UNCHANGED child
     /\ Puts(a, Stopped)
     /\ WorkflowEnds(a)
     /\ UNCHANGED <<rootVars, work, stored, result, unmet, reused>>

\* All child Runs of the layer exist, and cancel_event has been looked at.
Collecting(p) == p.pc = "collect" \/ (p.pc = "run" /\ p.todo = {})

\* The next child Run of the layer.
Collect(a) ==
  LET p == proc[a]
  IN /\ Collecting(p)
     /\ \E s \in p.layer :
          LET later == [p EXCEPT !.pc = "collect", !.layer = @ \ {s}]
          IN /\ IsFirst(s, p.layer)
             /\ \/ /\ child[s] = "waiting"
                   /\ Puts(a, Suspend(s)) /\ WorkflowEnds(a)
                \/ /\ child[s] \in Unsuccessful
                   /\ Puts(a, Events("failed", {s}) \o Fail) /\ WorkflowEnds(a)
                \/ /\ child[s] = "succeeded"
                   /\ Becomes(a, [later EXCEPT !.got = @ \cup {s}]) /\ UNCHANGED outbox
                \/ /\ child[s] = "active"
                   /\ Becomes(a, [later EXCEPT !.active = @ \cup {s}]) /\ UNCHANGED outbox
     /\ UNCHANGED <<rootVars, child, work, stored, result, unmet, reused>>

\* The layer suspends while a child Run of it is active, or is complete.
EndLayer(a) ==
  LET p == proc[a]
  IN /\ Collecting(p) /\ p.layer = {}
     /\ IF p.active # {}
          THEN Puts(a, Wait(p.active, None)) /\ WorkflowEnds(a)
          ELSE /\ Puts(a, Events("completed", p.got))
               /\ Becomes(a, [p EXCEPT !.pc = "layer", !.results = @ \cup p.got])
     /\ UNCHANGED <<rootVars, child, work, stored, result, unmet, reused>>

WorkflowStep(a) ==
  /\ proc[a] # None
  /\ \/ ForwardResume(a) \/ ReadRuns(a) \/ Layer(a) \/ CreateStep(a)
     \/ StopWaiting(a) \/ Collect(a) \/ EndLayer(a)

NextWorkflow ==
  /\ executor = "workflow-dag"
  /\ \/ Claim(WorkflowBegins) /\ UNCHANGED <<unmet, reused>>
     \/ Answer("answer") /\ UNCHANGED <<unmet, reused>>
     \/ \E a \in Attempt : WorkflowStep(a)
=============================================================================
