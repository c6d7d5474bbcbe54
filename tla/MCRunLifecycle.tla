--------------------------- MODULE MCRunLifecycle ---------------------------
(***************************************************************************)
(* Instances of RunLifecycle for TLC: a workflow and the children it runs. *)
(***************************************************************************)
EXTENDS RunLifecycle

CONSTANTS flow, child, other

\* A workflow with one child: the smallest tree in which workers, users,
\* callbacks and the reaper meet on a parent.
OneChild       == {flow, child}
OneChildParent == [r \in OneChild |-> IF r = flow THEN NoRun ELSE flow]

\* With two children a cascade has an order and can stop half way.
TwoChildren       == {flow, child, other}
TwoChildrenParent == [r \in TwoChildren |-> IF r = flow THEN NoRun ELSE flow]

\* One Run on its own, to follow it through more attempts.
Alone       == {child}
AloneParent == [r \in Alone |-> NoRun]

\* The adapter of the child keeps its process for input; that of a workflow
\* never does.
LiveChild == {child}
NoLive    == {}

\* What the environment may do in each run.
Undisturbed  == {}
WorkersFail  == {"crash", "slow_worker", "input_expiry"}
AllInTime    == DisturbanceKinds \ {"slow_worker"}
=============================================================================
