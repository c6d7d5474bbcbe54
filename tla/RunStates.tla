------------------------------ MODULE RunStates ------------------------------
(***************************************************************************)
(* The vocabulary of the durable Run queue: the statuses of a Run, the     *)
(* transitions the code declares legal, and the fold that turns the event  *)
(* stream of a Run into the status shown to clients.                       *)
(***************************************************************************)

\* Run.Status (models.py).
Status == {"queued", "running", "waiting_input", "waiting_children",
           "cancelling", "succeeded", "failed", "cancelled"}

TERMINAL_STATUSES == {"succeeded", "failed", "cancelled"}

\* A Run whose row has not been inserted yet.
Absent == "absent"

ALLOWED_TRANSITIONS ==
  [ queued           |-> {"running", "cancelled"},
    running          |-> {"waiting_input", "waiting_children", "cancelling",
                          "queued", "succeeded", "failed"},
    waiting_input    |-> {"running", "queued", "cancelling", "cancelled",
                          "failed"},
    waiting_children |-> {"queued", "cancelled"},
    cancelling       |-> {"cancelled"},
    succeeded        |-> {},
    failed           |-> {},
    cancelled        |-> {} ]

\* RunAttempt.Status; "none" is an attempt number not claimed yet.
AttemptStatus == {"none", "running", "suspended", "succeeded", "failed",
                  "interrupted", "cancelled"}

\* The life of a RunLease: "held" until expires_at passes, "expired" while
\* released_at is still null, "released" once released_at is set.
LeaseState == {"none", "held", "expired", "released"}

(***************************************************************************)
(* Events carry what the fold reads of their payload: live of              *)
(* input.accepted, status of input.expired.  Those that announce a status, *)
(* run.queued and so on, are named without their prefix.                   *)
(***************************************************************************)
Event(type)           == [type |-> type]
InputAccepted(live)   == [type |-> "input.accepted", live |-> live]
InputExpired(outcome) == [type |-> "input.expired", status |-> outcome]

\* Mutant: the status is taken to be the name of the event.
StatusNamedByEvent ==
  [ queued |-> "queued", started |-> "started", cancelling |-> "cancelling",
    waiting_input |-> "waiting_input", waiting_children |-> "waiting_children",
    dependencies_ready |-> "queued", retry_scheduled |-> "queued",
    succeeded |-> "succeeded", failed |-> "failed", cancelled |-> "cancelled" ]

STATUS_BY_EVENT ==
  [ queued |-> "queued", started |-> "running", cancelling |-> "cancelling",
    waiting_input |-> "waiting_input", waiting_children |-> "waiting_children",
    dependencies_ready |-> "queued", retry_scheduled |-> "queued",
    succeeded |-> "succeeded", failed |-> "failed", cancelled |-> "cancelled" ]

\* apply_projection_event, restricted to the status field of a projection.
Project(shown, event) ==
  IF event.type \in DOMAIN STATUS_BY_EVENT THEN STATUS_BY_EVENT[event.type]
  ELSE IF event.type = "input.required" THEN "waiting_input"
  ELSE IF event.type = "input.accepted" THEN IF event.live THEN "running" ELSE "queued"
  ELSE IF event.type = "input.resolved" THEN "running"
  ELSE IF event.type = "input.expired"  THEN event.status
  ELSE shown
=============================================================================
