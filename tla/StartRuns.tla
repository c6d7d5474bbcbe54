------------------------------ MODULE StartRuns ------------------------------
(***************************************************************************)
(* Requests that create a Run exactly once, over a database that may leave *)
(* them without an answer: start_application_run, start_agent_run,         *)
(* start_workflow_run and start_supervisor_run of modules/execution, as    *)
(* clients of the data service.                                            *)
(*                                                                         *)
(* A caller comes with an idempotency key.  Its process looks for the      *)
(* record of an earlier request, opens a transaction, looks again, writes  *)
(* the record and the Run, and commits; when a statement fails it tells    *)
(* the caller, who does not know what has happened and may come back with  *)
(* the same key, over a new connection, while the session of the old one   *)
(* may still be waiting for its turn.                                      *)
(***************************************************************************)
EXTENDS DataService

CONSTANTS
  Client,       \* callers
  Submissions,  \* [Client -> bound on how often it submits its request]
  MaxTries,     \* max_retries
  Scenarios     \* what the callers want: a subset of [Client -> Request]

ASSUME SubmissionBounds == Submissions \in [Client -> Nat] /\ MaxTries \in Nat \ {0}
ASSUME SessionAssumption ==
  Session = UNION {{<<c, n>> : n \in 1..Submissions[c]} : c \in Client}

Operation == {"application", "agent", "workflow", "supervisor"}
Request == [op : Operation, key : Key, body : Body, of : Conversation \cup {Apart}]

\* Only the Runs of supervisors belong to a conversation here.
ASSUME ScenarioAssumption ==
  /\ Scenarios \subseteq [Client -> Request]
  /\ \A w \in Scenarios, c \in Client : w[c].of # Apart => w[c].op = "supervisor"

VARIABLES
  wants,    \* [Client -> the request, fixed]
  pc,       \* [Client -> the statement its process is at]
  conn,     \* [Client -> number of its connection], 0 before the first
  tries,    \* [Client -> retry_no]
  after,    \* [Client -> where a rollback leads]
  answer    \* [Client -> the Run it was told, or None]

clientVars == <<wants, pc, conn, tries, after, answer>>
vars == <<serviceVars, clientVars>>

Point == {"idle", "check", "begin", "recheck", "record", "run", "commit",
          "rollback", "done", "failed", "rejected"}
Final == {"done", "failed", "rejected"}

At(c) == <<c, conn[c]>>

\* Waiting for the reply to a statement.
Awaits(c) == request[At(c)] # None \/ reply[At(c)] # None

Init ==
  /\ ServiceInit
  /\ wants \in Scenarios
  /\ pc = [c \in Client |-> "idle"]
  /\ conn = [c \in Client |-> 0]
  /\ tries = [c \in Client |-> 0]
  /\ after = [c \in Client |-> "failed"]
  /\ answer = [c \in Client |-> None]

-----------------------------------------------------------------------------
(* What the request functions do with what they read. *)

\* _load_replay: the record of this key, the Run it names, or neither.
Recorded(c, seen) == {r \in seen.records : r.key = wants[c].key}
Reused(c, seen)   == \E r \in Recorded(c, seen) : r.body # wants[c].body
Replays(c, seen)  == {r.run : r \in {x \in Recorded(c, seen) :
                                        \E row \in seen.runs : row.run = x.run}}

\* Only application requests are retried, after a failure of the database to
\* serve them in time, or after somebody else took the key.
Retries(c) == wants[c].op = "application"

\* Mutant: one try too many.
MayRetryOnceMore(c) == Retries(c) /\ tries[c] < MaxTries

MayRetry(c) == Retries(c) /\ tries[c] + 1 < MaxTries

\* The first look is taken by all, the second one within the transaction by
\* all but agents.
AfterBegin(c) == IF wants[c].op = "agent" THEN "record" ELSE "recheck"

Goes(c, point) == pc' = [pc EXCEPT ![c] = point]
Told(c, run)   == answer' = [answer EXCEPT ![c] = run]
Raises(c, point) ==
  /\ Goes(c, "rollback")
  /\ after' = [after EXCEPT ![c] = point]

\* The statement sent at each point; the Run carries the name of its session.
StatementAt(c) ==
  CASE pc[c] \in {"check", "recheck"} -> Say("select")
    [] pc[c] \in {"begin", "commit", "rollback"} -> Say(pc[c])
    [] pc[c] = "record" -> [op |-> "record",
         row |-> [key |-> wants[c].key, body |-> wants[c].body, run |-> At(c)]]
    [] pc[c] = "run" -> [op |-> "run", row |-> [run |-> At(c), of |-> wants[c].of]]

-----------------------------------------------------------------------------
(* A submission. *)

Submit(c) ==
  /\ pc[c] \in {"idle", "failed"} /\ conn[c] < Submissions[c]
  /\ conn' = [conn EXCEPT ![c] = @ + 1]
  /\ tries' = [tries EXCEPT ![c] = 0]
  /\ IF Accepts
       THEN Goes(c, "check") /\ Connect(<<c, conn[c] + 1>>)
       ELSE Goes(c, "failed") /\ UNCHANGED serviceVars
  /\ UNCHANGED <<wants, after, answer>>

Ask(c) ==
  /\ pc[c] \notin Final \cup {"idle"} /\ ~Awaits(c)
  /\ link[At(c)] = "open"
  /\ Send(At(c), StatementAt(c))
  /\ UNCHANGED clientVars

\* OperationalError, "transaction queue is busy"; outside a transaction.
ReadBusy(c) ==
  /\ reply[At(c)].verdict = "busy"
  /\ IF MayRetry(c)
       THEN /\ Goes(c, "check")
            /\ tries' = [tries EXCEPT ![c] = @ + 1]
            /\ Read(At(c), FALSE)
       ELSE Goes(c, "failed") /\ Read(At(c), TRUE) /\ UNCHANGED tries
  /\ UNCHANGED <<after, answer>>

\* The first look, outside the transaction.
ReadCheck(c) ==
  LET seen == reply[At(c)].seen
  IN /\ pc[c] = "check"
     /\ \/ /\ Reused(c, seen)
           /\ Goes(c, "rejected") /\ Read(At(c), TRUE) /\ UNCHANGED answer
        \/ /\ ~Reused(c, seen)
           /\ \E run \in Replays(c, seen) : Goes(c, "done") /\ Told(c, run)
           /\ Read(At(c), TRUE)
        \/ /\ ~Reused(c, seen) /\ Replays(c, seen) = {}
           /\ Goes(c, "begin") /\ Read(At(c), FALSE) /\ UNCHANGED answer
     /\ UNCHANGED <<tries, after>>

\* Mutant: the record is not looked for again.
RecheckBlindly(c) ==
  LET seen == reply[At(c)].seen
  IN /\ pc[c] = "recheck"
     /\ Goes(c, "record") /\ UNCHANGED <<after, answer>>

\* The second look.  For a supervisor it is for an active Run of the same
\* conversation instead; no Run ends here.
Recheck(c) ==
  LET seen == reply[At(c)].seen
      taken == \E row \in seen.runs : row.of = wants[c].of /\ row.of # Apart
  IN /\ pc[c] = "recheck"
     /\ IF wants[c].op = "supervisor"
          THEN /\ IF taken THEN Raises(c, "rejected")
                           ELSE Goes(c, "record") /\ UNCHANGED after
               /\ UNCHANGED answer
        ELSE IF Reused(c, seen)
          THEN Raises(c, "rejected") /\ UNCHANGED answer
        ELSE IF Replays(c, seen) # {}
          THEN /\ \E run \in Replays(c, seen) : Told(c, run)
               /\ Goes(c, "commit") /\ UNCHANGED after
        ELSE Goes(c, "record") /\ UNCHANGED <<after, answer>>

\* Somebody else has taken the key: an IntegrityError.
KeyTaken(c) ==
  IF MayRetry(c)
    THEN Raises(c, "check") /\ tries' = [tries EXCEPT ![c] = @ + 1]
    ELSE Raises(c, "failed") /\ UNCHANGED tries

\* The replies inside the transaction.  A Run is told once it is committed.
ReadInside(c) ==
  /\ \/ /\ pc[c] = "begin"
        /\ Goes(c, AfterBegin(c)) /\ UNCHANGED <<tries, after, answer>>
     \/ Recheck(c) /\ UNCHANGED tries
     \/ /\ pc[c] = "record"
        /\ IF reply[At(c)].verdict = "integrity"
             THEN KeyTaken(c)
             ELSE Goes(c, "run") /\ UNCHANGED <<tries, after>>
        /\ UNCHANGED answer
     \/ pc[c] = "run" /\ Goes(c, "commit") /\ Told(c, At(c)) /\ UNCHANGED <<tries, after>>
  /\ Read(At(c), FALSE)

\* COMMIT and ROLLBACK end the submission, or this try.
ReadEnd(c) ==
  /\ pc[c] \in {"commit", "rollback"}
  /\ LET next == IF pc[c] = "commit" THEN "done" ELSE after[c]
     IN Goes(c, next) /\ Read(At(c), next \in Final)
  /\ UNCHANGED <<tries, after, answer>>

Reads(c) ==
  /\ pc[c] \notin Final \cup {"idle"}
  /\ reply[At(c)] # None
  /\ \/ ReadBusy(c)
     \/ reply[At(c)].verdict # "busy" /\ (ReadCheck(c) \/ ReadInside(c) \/ ReadEnd(c))
  /\ UNCHANGED <<wants, conn>>

\* The connection is lost, and with it what was or may have been replied: an
\* OperationalError that is not retried, for its outcome is unknown.
Loses(c) ==
  /\ pc[c] \notin Final \cup {"idle"}
  /\ link[At(c)] = "closed"
  /\ Goes(c, "failed")
  /\ answer' = [answer EXCEPT ![c] = None]
  /\ UNCHANGED <<serviceVars, wants, conn, tries, after>>

-----------------------------------------------------------------------------
Caller(c) == Submit(c) \/ Ask(c) \/ Reads(c) \/ Loses(c)

Next ==
  \/ Service /\ UNCHANGED clientVars
  \/ \E s \in Session : Drop(s) /\ UNCHANGED clientVars
  \/ \E c \in Client : Caller(c)

Spec == Init /\ [][Next]_vars

\* The threads of the service run and its timeouts pass.  Nothing is assumed
\* of the callers.
Fairness ==
  \A s \in Session :
    /\ WF_vars(Receive(s) /\ UNCHANGED clientVars)
    /\ WF_vars((Admit(s) \/ GiveUp(s)) /\ UNCHANGED clientVars)
    /\ WF_vars(Execute(s) /\ UNCHANGED clientVars)
    /\ WF_vars((Hangup(s) \/ IdleTimeout(s)) /\ UNCHANGED clientVars)

FairSpec == Spec /\ Fairness

-----------------------------------------------------------------------------
(* Properties. *)

TypeOK ==
  /\ up \in BOOLEAN
  /\ faults \in 0..MaxFaults
  /\ owner \in Session \cup {None}
  /\ waiters \in Seq(Session)
  /\ \A s \in Session :
       handler[s] = "waiting" <=> Cardinality({i \in DOMAIN waiters : waiters[i] = s}) = 1
  /\ handler \in [Session -> HandlerState]
  /\ inside \subseteq Session
  /\ durable \in Tables
  /\ working \in [Session -> Tables]
  /\ link \in [Session -> LinkState]
  /\ request \in [Session -> Statement \cup {None}]
  /\ reply \in [Session -> Reply \cup {None}]
  /\ wants \in Scenarios
  /\ pc \in [Client -> Point]
  /\ conn \in [Client -> Nat]
  /\ tries \in [Client -> 0..(MaxTries - 1)]
  /\ after \in [Client -> Final \cup {"check"}]
  /\ answer \in [Client -> Session \cup {None}]

\* Transactions do not overlap: only the session whose turn it is has one
\* open, and nobody has the turn who is waiting for it, or is over.
SerialTransactions ==
  /\ inside \subseteq {owner}
  /\ owner # None => handler[owner] \in {"reading", "serving"}

\* A request leads to one Run at most, however often replies are lost and
\* callers come back: a key has one record, with one Run that is stored with it
\* or not at all; a conversation has one active Run; and a caller that got a Run
\* got the one stored for its own request.
OneRunEach ==
  /\ \A r1, r2 \in durable.records : r1.key = r2.key => r1 = r2
  /\ {r.run : r \in durable.records} = {row.run : row \in durable.runs}
  /\ \A row1, row2 \in durable.runs : row1.of = row2.of /\ row1.of # Apart => row1 = row2
  /\ \A c \in Client : pc[c] = "done" =>
       [key |-> wants[c].key, body |-> wants[c].body, run |-> answer[c]]
         \in durable.records

\* The turn comes back, also from a client that hangs, leaves, or is lost
\* within a transaction.
TurnComesBack == \A s \in Session : owner = s ~> owner # s
=============================================================================
