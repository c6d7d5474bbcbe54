----------------------------- MODULE RunProtocol -----------------------------
(***************************************************************************)
(* What the execution module promises of one Run, whatever the handlers,   *)
(* workers and users do: its status moves only along ALLOWED_TRANSITIONS,  *)
(* at most one attempt owns it at a time, every new owner has a higher     *)
(* epoch than all the owners before it, and a Run that an attempt owns is  *)
(* in one of the three statuses in which an attempt may be at work.        *)
(***************************************************************************)
EXTENDS Integers, RunStates

CONSTANT Run

VARIABLES
  status,   \* status of each Run
  owner,    \* epoch of the attempt that owns the Run, 0 if none does
  epoch     \* highest epoch ever given out for the Run

vars == <<status, owner, epoch>>

Owned   == {"running", "waiting_input", "cancelling"}
Unowned == Status \ {"running", "cancelling"}

Init ==
  /\ status = [r \in Run |-> Absent]
  /\ owner = [r \in Run |-> 0]
  /\ epoch = [r \in Run |-> 0]

\* A Run comes into being queued.
Create(r) ==
  /\ status[r] = Absent
  /\ status' = [status EXCEPT ![r] = "queued"]
  /\ UNCHANGED <<owner, epoch>>

\* A queued Run is given to a fresh owner.
Start(r) ==
  /\ status[r] = "queued"
  /\ owner[r] = 0
  /\ status' = [status EXCEPT ![r] = "running"]
  /\ epoch' = [epoch EXCEPT ![r] = @ + 1]
  /\ owner' = [owner EXCEPT ![r] = epoch[r] + 1]

\* The Run changes status under its owner.
Advance(r) ==
  /\ owner[r] # 0
  /\ status[r] \in Owned
  /\ \E s \in ALLOWED_TRANSITIONS[status[r]] \cap Owned :
       status' = [status EXCEPT ![r] = s]
  /\ UNCHANGED <<owner, epoch>>

\* The owner gives the Run up, or loses it.
Release(r) ==
  /\ owner[r] # 0
  /\ status[r] \in Owned
  /\ \E s \in ALLOWED_TRANSITIONS[status[r]] \cap Unowned :
       status' = [status EXCEPT ![r] = s]
  /\ owner' = [owner EXCEPT ![r] = 0]
  /\ UNCHANGED epoch

\* A Run nobody owns changes status.
Move(r) ==
  /\ owner[r] = 0
  /\ status[r] \in Unowned
  /\ \E s \in ALLOWED_TRANSITIONS[status[r]] \cap Unowned :
       status' = [status EXCEPT ![r] = s]
  /\ UNCHANGED <<owner, epoch>>

Next == \E r \in Run : Create(r) \/ Start(r) \/ Advance(r) \/ Release(r) \/ Move(r)

Spec == Init /\ [][Next]_vars
=============================================================================
