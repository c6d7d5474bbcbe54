----------------------------- MODULE DataService -----------------------------
(***************************************************************************)
(* The SQLite data service (backend/core/sqlite_service): the one process  *)
(* that opens the database file, and a session for every connection of the *)
(* processes that use it.                                                  *)
(*                                                                         *)
(* A session has a thread (Handler.handle) that reads one statement at a   *)
(* time, waits for its turn in the queue of the TransactionScheduler,      *)
(* executes it and replies.  A session inside a transaction keeps its turn *)
(* until the transaction ends, by a statement, by a client that leaves, or *)
(* by one that stays idle for too long.  Replies may be lost: the service  *)
(* keeps going without knowing.                                            *)
(*                                                                         *)
(* The tables are those the callers in StartRuns use: Runs, and records of *)
(* idempotency with a unique key.                                          *)
(***************************************************************************)
EXTENDS Integers, FiniteSets, SequencesExt

CONSTANTS
  Session,       \* connections that may be made
  None,          \* no session, no row, no statement, no reply
  Key,           \* keys of idempotency records
  Body,          \* fingerprints of requests
  Conversation,  \* what a Run may be the only active one of
  Apart,         \* a Run that does not belong to a conversation
  Capacity,      \* max_sessions
  MaxFaults      \* bound on lost connections and stops of the service

ASSUME ServiceBounds == Capacity \in Nat \ {0} /\ MaxFaults \in Nat

VARIABLES
  up,        \* the service process is running
  faults,    \* faults so far
  owner,     \* scheduler.owner
  waiters,   \* scheduler.waiters
  handler,   \* [Session -> HandlerState]
  inside,    \* sessions whose connection is in a transaction
  durable,   \* the tables as committed
  working,   \* [Session -> the tables as its transaction sees them]
  link,      \* [Session -> LinkState], of the transport
  request,   \* [Session -> the statement sent and not answered]
  reply      \* [Session -> the reply sent and not read]

serviceVars == <<up, faults, owner, waiters, handler, inside, durable, working,
                 link, request, reply>>

HandlerState == {"none", "reading", "waiting", "serving", "over"}
LinkState    == {"none", "open", "closed"}

\* Rows: a Run is named by the session whose transaction created it.
Record == [key : Key, body : Body, run : Session]
RunRow == [run : Session, of : Conversation \cup {Apart}]
Tables == [records : SUBSET Record, runs : SUBSET RunRow]
Empty  == [records |-> {}, runs |-> {}]

\* A statement names an operation and, for the two inserts, a row.
Statement ==
  [op : {"select", "begin", "commit", "rollback"}, row : {None}]
    \cup [op : {"record"}, row : Record] \cup [op : {"run"}, row : RunRow]
Say(op) == [op |-> op, row |-> None]

\* A reply is a verdict, with the tables as a select saw them.
Verdict == {"ok", "busy", "integrity"}
Reply   == [verdict : Verdict, seen : Tables]

ASSUME NoneAssumption == None \notin Session \cup Statement \cup Reply

ServiceInit ==
  /\ up = TRUE
  /\ faults = 0
  /\ owner = None
  /\ waiters = <<>>
  /\ handler = [s \in Session |-> "none"]
  /\ inside = {}
  /\ durable = Empty
  /\ working = [s \in Session |-> Empty]
  /\ link = [s \in Session |-> "none"]
  /\ request = [s \in Session |-> None]
  /\ reply = [s \in Session |-> None]

-----------------------------------------------------------------------------
(* TransactionScheduler *)

\* Mutant: only a session that finds a transaction open gets a ticket.
JoinsBusy(s) == inside # {} /\ owner # s

\* A statement of the owner runs at once, any other gets a ticket.
Joins(s) == owner # s

\* The ticket is removed however the wait ends.
Leaves(s) == \E i \in DOMAIN waiters : waiters[i] = s /\ waiters' = RemoveAt(waiters, i)

Admissible(s) == owner = None /\ Head(waiters) = s

\* What a session sees: its transaction, or what is committed.
Seen(s) == IF s \in inside THEN working[s] ELSE durable

\* Mutant: a session that ends leaves the turn to itself.
EndsKeepingTurn(s) ==
  /\ handler' = [handler EXCEPT ![s] = "over"]
  /\ inside' = inside \ {s}
  /\ working' = [working EXCEPT ![s] = Empty]
  /\ link' = [link EXCEPT ![s] = "closed"]
  /\ owner' = IF owner = s /\ s \notin inside THEN None ELSE owner

\* The end of Handler.handle: roll back, close, release.
Ends(s) ==
  /\ handler' = [handler EXCEPT ![s] = "over"]
  /\ inside' = inside \ {s}
  /\ working' = [working EXCEPT ![s] = Empty]
  /\ link' = [link EXCEPT ![s] = "closed"]
  /\ owner' = IF owner = s THEN None ELSE owner

-----------------------------------------------------------------------------
(* Handler.handle *)

\* A statement is read; one that came before the connection was lost, too.
Receive(s) ==
  /\ handler[s] = "reading" /\ request[s] # None
  /\ IF Joins(s)
       THEN /\ waiters' = Append(waiters, s)
            /\ handler' = [handler EXCEPT ![s] = "waiting"]
       ELSE /\ handler' = [handler EXCEPT ![s] = "serving"]
            /\ UNCHANGED waiters
  /\ UNCHANGED <<up, faults, owner, inside, durable, working, link, request, reply>>

Admit(s) ==
  /\ handler[s] = "waiting"
  /\ Admissible(s)
  /\ owner' = s
  /\ Leaves(s)
  /\ handler' = [handler EXCEPT ![s] = "serving"]
  /\ UNCHANGED <<up, faults, inside, durable, working, link, request, reply>>

\* The admission timeout has passed; it is looked at only by those who cannot
\* go on.
GiveUp(s) ==
  /\ handler[s] = "waiting"
  /\ ~Admissible(s)
  /\ Leaves(s)
  /\ handler' = [handler EXCEPT ![s] = "reading"]
  /\ request' = [request EXCEPT ![s] = None]
  /\ reply' = [reply EXCEPT ![s] = [verdict |-> "busy", seen |-> Empty]]
  /\ UNCHANGED <<up, faults, owner, inside, durable, working, link>>

\* The tables after an insert, if the unique constraint of the records allows
\* it.
Clashes(tables, st) ==
  st.op = "record" /\ \E r \in tables.records : r.key = st.row.key
Inserted(tables, st) ==
  IF st.op = "record" THEN [tables EXCEPT !.records = @ \cup {st.row}]
                      ELSE [tables EXCEPT !.runs = @ \cup {st.row}]

\* Whether the connection is in a transaction after the statement.
StaysInside(s, op) == op = "begin" \/ (s \in inside /\ op \notin {"commit", "rollback"})

\* dispatch, the release of the turn unless the session is in a transaction,
\* and the reply.  Every transaction is begun as IMMEDIATE.
Execute(s) ==
  LET st == request[s]
      failed == Clashes(Seen(s), st)
      write == st.op \in {"record", "run"} /\ ~failed
  IN /\ handler[s] = "serving"
     /\ inside' = IF StaysInside(s, st.op) THEN inside \cup {s} ELSE inside \ {s}
     /\ working' = [working EXCEPT ![s] =
          IF st.op = "begin" /\ s \notin inside THEN durable
          ELSE IF s \notin inside \/ st.op \in {"commit", "rollback"} THEN Empty
          ELSE IF write THEN Inserted(@, st) ELSE @]
     /\ durable' =
          IF s \in inside THEN IF st.op = "commit" THEN working[s] ELSE durable
          ELSE IF write THEN Inserted(durable, st) ELSE durable
     /\ owner' = IF StaysInside(s, st.op) THEN owner ELSE None
     /\ handler' = [handler EXCEPT ![s] = "reading"]
     /\ request' = [request EXCEPT ![s] = None]
     /\ reply' = [reply EXCEPT ![s] =
          [verdict |-> IF failed THEN "integrity" ELSE "ok",
           seen |-> IF st.op = "select" THEN Seen(s) ELSE Empty]]
     /\ UNCHANGED <<up, faults, waiters, link>>

\* The client is gone: reading fails, or sending the reply does.  A statement
\* that has not been read may be lost with the connection.
Hangup(s) ==
  /\ handler[s] = "reading" /\ link[s] = "closed"
  /\ Ends(s)
  /\ UNCHANGED <<up, faults, waiters, durable, request, reply>>

\* transaction_idle_timeout
IdleTimeout(s) ==
  /\ handler[s] = "reading" /\ s \in inside /\ request[s] = None
  /\ Ends(s)
  /\ UNCHANGED <<up, faults, waiters, durable, request, reply>>

\* The service is stopped or killed: nothing is left but what is committed.
Stop ==
  /\ up /\ faults < MaxFaults
  /\ up' = FALSE
  /\ faults' = faults + 1
  /\ owner' = None
  /\ waiters' = <<>>
  /\ handler' = [s \in Session |-> IF handler[s] = "none" THEN "none" ELSE "over"]
  /\ inside' = {}
  /\ working' = [s \in Session |-> Empty]
  /\ link' = [s \in Session |-> IF link[s] = "none" THEN "none" ELSE "closed"]
  /\ UNCHANGED <<durable, request, reply>>

Start ==
  /\ ~up
  /\ up' = TRUE
  /\ UNCHANGED <<faults, owner, waiters, handler, inside, durable, working,
                 link, request, reply>>

Thread(s) == Receive(s) \/ Admit(s) \/ GiveUp(s) \/ Execute(s) \/ Hangup(s) \/ IdleTimeout(s)

Service == (\E s \in Session : Thread(s)) \/ Stop \/ Start

-----------------------------------------------------------------------------
(* The client's side of a connection. *)

Live == {s \in Session : handler[s] \in {"reading", "waiting", "serving"}}

\* A connection is refused when the service is down or has no session left.
Accepts == up /\ Cardinality(Live) < Capacity

Connect(s) ==
  /\ link' = [link EXCEPT ![s] = "open"]
  /\ handler' = [handler EXCEPT ![s] = "reading"]
  /\ UNCHANGED <<up, faults, owner, waiters, inside, durable, working, request, reply>>

Send(s, st) ==
  /\ request' = [request EXCEPT ![s] = st]
  /\ UNCHANGED <<up, faults, owner, waiters, handler, inside, durable, working,
                 link, reply>>

\* The client reads a reply, and may close the connection.
Read(s, close) ==
  /\ reply' = [reply EXCEPT ![s] = None]
  /\ link' = [link EXCEPT ![s] = IF close THEN "closed" ELSE @]
  /\ UNCHANGED <<up, faults, owner, waiters, handler, inside, durable, working,
                 request>>

\* The transport fails, or the client gives up after its own timeout.
Drop(s) ==
  /\ link[s] = "open" /\ faults < MaxFaults
  /\ faults' = faults + 1
  /\ link' = [link EXCEPT ![s] = "closed"]
  /\ UNCHANGED <<up, owner, waiters, handler, inside, durable, working, request,
                 reply>>
=============================================================================
