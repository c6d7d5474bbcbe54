--------------------------- MODULE MCOrchestration ---------------------------
(***************************************************************************)
(* An instance of Orchestration for TLC: a workflow in which one step      *)
(* depends on two others, run in full or again from any step, and a        *)
(* supervisor of two targets that may revise and replan once.              *)
(***************************************************************************)
EXTENDS Orchestration

CONSTANTS draft, check, publish, research, write, near, far

ThreeSteps == {draft, check, publish}
Attempts   == [x \in Executor |-> IF x = "supervisor" THEN 5 ELSE 4]
InOrder    == [s \in ThreeSteps |-> IF s = draft THEN 1 ELSE IF s = check THEN 2 ELSE 3]
Join       == [s \in ThreeSteps |-> IF s = publish THEN {draft, check} ELSE {}]

TwoTasks      == {research, write}
ResearchFirst == [k \in TwoTasks |-> IF k = write THEN {research} ELSE {}]

\* One task, two of them in order, and another target.
ThreePlans ==
  {[k \in {research} |-> near], [k \in TwoTasks |-> near], [k \in {write} |-> far]}
=============================================================================
