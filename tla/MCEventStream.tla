--------------------------- MODULE MCEventStream ---------------------------
(***************************************************************************)
(* Instances of EventStream for TLC.                                       *)
(***************************************************************************)
EXTENDS EventStream

\* One type of each sort that both folds treat alike.
AgreedKinds == OwnKinds \cup {"workflow.step.output.delta"}

\* What a supervisor and its children put into the log.
SupervisorKinds == {"supervisor.task.output.delta", "end"}
=============================================================================
