-------------------------- MODULE StartRuns_proofs --------------------------
(***************************************************************************)
(* Proofs about StartRuns and the data service below it, for every set of  *)
(* callers, requests and connections, and every number of faults.          *)
(*                                                                         *)
(* A lemma ATypes says that action A keeps the types, AStep that it keeps  *)
(* the invariant of its section; TypedStep, TurnStep, InvStep, QueueStep   *)
(* and CountedStep say so of every step.                                   *)
(***************************************************************************)
EXTENDS StartRuns, FiniteSetTheorems, TLAPS

-----------------------------------------------------------------------------
(* Types.  The queue of the scheduler and the counters come at the end:     *)
(* nothing before them depends on them.                                     *)

ServiceTypes ==
  /\ owner \in Session \cup {None}
  /\ handler \in [Session -> HandlerState]
  /\ inside \in SUBSET Session
  /\ durable \in Tables
  /\ working \in [Session -> Tables]
  /\ link \in [Session -> LinkState]
  /\ request \in [Session -> Statement \cup {None}]
  /\ reply \in [Session -> Reply \cup {None}]

ClientTypes ==
  /\ wants \in Scenarios
  /\ pc \in [Client -> Point]
  /\ conn \in [Client -> Nat]
  /\ after \in [Client -> {"failed", "rejected", "check"}]
  /\ answer \in [Client -> Session \cup {None}]
  /\ \A c \in Client : conn[c] <= Submissions[c] /\ (pc[c] # "idle" => conn[c] >= 1)

\* A session whose statement is being served has one.
HasStatement ==
  \A s \in Session : handler[s] \in {"waiting", "serving"} => request[s] # None

\* Only the session whose turn it is executes statements.
Turn ==
  /\ SerialTransactions
  /\ \A s \in Session : handler[s] = "serving" => owner = s

Typed == ServiceTypes /\ ClientTypes /\ HasStatement

USE NoneAssumption, SubmissionBounds, ScenarioAssumption

\* A session is a connection of a caller.
LEMMA Connections ==
  /\ \A c \in Client : \A n \in 1..Submissions[c] :
       <<c, n>> \in Session /\ <<c, n>>[1] = c /\ <<c, n>>[2] = n
  /\ \A s \in Session :
       s[1] \in Client /\ s[2] \in 1..Submissions[s[1]] /\ s = <<s[1], s[2]>>
BY SessionAssumption

LEMMA CurrentConnection ==
  ASSUME ClientTypes, NEW c \in Client, pc[c] # "idle"
  PROVE  At(c) \in Session /\ At(c)[1] = c /\ At(c)[2] = conn[c]
<1>1. conn[c] \in 1..Submissions[c]  BY DEF ClientTypes
<1> QED  BY <1>1, Connections DEF At

LEMMA Wanted ==
  ASSUME ClientTypes, NEW c \in Client
  PROVE  /\ wants[c] \in Request
         /\ wants[c].of # Apart => wants[c].op = "supervisor"
BY DEF ClientTypes

\* What an insert does to tables.
LEMMA InsertedTables ==
  ASSUME NEW T \in Tables, NEW st \in Statement, st.op \in {"record", "run"}
  PROVE  /\ Inserted(T, st) \in Tables
         /\ st.op = "record" =>
              /\ st.row \in Record
              /\ Inserted(T, st) = [records |-> T.records \cup {st.row}, runs |-> T.runs]
         /\ st.op = "run" =>
              /\ st.row \in RunRow
              /\ Inserted(T, st) = [records |-> T.records, runs |-> T.runs \cup {st.row}]
BY DEF Inserted, Tables, Statement

LEMMA SaidIsStatement ==
  ASSUME NEW op \in {"select", "begin", "commit", "rollback"}
  PROVE  Say(op) \in Statement
BY DEF Say, Statement

LEMMA StatementTypes ==
  ASSUME ClientTypes, NEW c \in Client, pc[c] \notin Final \cup {"idle"}
  PROVE  /\ StatementAt(c) \in Statement
         /\ pc[c] \in {"check", "recheck"} => StatementAt(c) = Say("select")
         /\ pc[c] \in {"begin", "commit", "rollback"} => StatementAt(c) = Say(pc[c])
         /\ pc[c] = "record" => StatementAt(c) = [op |-> "record",
              row |-> [key |-> wants[c].key, body |-> wants[c].body, run |-> At(c)]]
         /\ pc[c] = "run" =>
              StatementAt(c) = [op |-> "run", row |-> [run |-> At(c), of |-> wants[c].of]]
<1>1. At(c) \in Session /\ wants[c] \in Request  BY CurrentConnection, Wanted DEF Final
<1>2. pc[c] \in {"check", "recheck", "begin", "commit", "rollback", "record", "run"}
  BY DEF ClientTypes, Point, Final
<1>3. CASE pc[c] \in {"check", "recheck"}
  BY <1>3, SaidIsStatement DEF StatementAt
<1>4. CASE pc[c] \in {"begin", "commit", "rollback"}
  BY <1>4, SaidIsStatement DEF StatementAt
<1>5. CASE pc[c] = "record"
  <2>1. StatementAt(c) = [op |-> "record",
          row |-> [key |-> wants[c].key, body |-> wants[c].body, run |-> At(c)]]
    BY <1>5 DEF StatementAt
  <2> QED  BY <1>1, <1>5, <2>1 DEF Statement, Record, Request
<1>6. CASE pc[c] = "run"
  <2>1. StatementAt(c) = [op |-> "run", row |-> [run |-> At(c), of |-> wants[c].of]]
    BY <1>6 DEF StatementAt
  <2> QED  BY <1>1, <1>6, <2>1 DEF Statement, RunRow, Request
<1> QED  BY <1>2, <1>3, <1>4, <1>5, <1>6

-----------------------------------------------------------------------------
(* The steps of the service preserve the types. *)

LEMMA ExecuteTypes ==
  ASSUME Typed, NEW s \in Session, Execute(s)
  PROVE  ServiceTypes' /\ HasStatement'
<1> DEFINE st == request[s]
<1>1. st \in Statement  BY DEF Typed, ServiceTypes, HasStatement, Execute
<1>2. /\ durable \in Tables
      /\ working[s] \in Tables
      /\ Seen(s) \in Tables
      /\ Empty \in Tables
  BY DEF Typed, ServiceTypes, Seen, Empty, Tables
<1>3. durable' \in Tables
  BY <1>1, <1>2, InsertedTables DEF Execute
<1>4. working' \in [Session -> Tables]
  <2>1. \A T \in Tables : st.op \in {"record", "run"} => Inserted(T, st) \in Tables
    BY <1>1, InsertedTables
  <2> QED  BY <1>2, <2>1 DEF Execute, Typed, ServiceTypes
<1>5. \A v \in Verdict, T \in Tables : [verdict |-> v, seen |-> T] \in Reply
  BY DEF Reply
<1>6. reply' \in [Session -> Reply \cup {None}]
  BY <1>2, <1>5 DEF Execute, Typed, ServiceTypes, Verdict
<1> QED
  BY <1>3, <1>4, <1>6 DEF Execute, Typed, ServiceTypes, HasStatement, HandlerState

LEMMA GiveUpTypes ==
  ASSUME Typed, NEW s \in Session, GiveUp(s)
  PROVE  ServiceTypes' /\ HasStatement'
<1>1. [verdict |-> "busy", seen |-> Empty] \in Reply
  BY DEF Reply, Verdict, Tables, Empty
<1> QED  BY <1>1 DEF GiveUp, Typed, ServiceTypes, HasStatement, HandlerState

LEMMA EndsTypes ==
  ASSUME Typed, NEW s \in Session, Hangup(s) \/ IdleTimeout(s)
  PROVE  ServiceTypes' /\ HasStatement'
<1>1. Empty \in Tables  BY DEF Tables, Empty
<1> QED
  BY <1>1 DEF Hangup, IdleTimeout, Ends, Typed, ServiceTypes, HasStatement,
              HandlerState, LinkState

LEMMA StopTypes ==
  ASSUME Typed, Stop
  PROVE  ServiceTypes' /\ HasStatement'
<1>1. Empty \in Tables  BY DEF Tables, Empty
<1> QED
  BY <1>1 DEF Stop, Typed, ServiceTypes, HasStatement, HandlerState, LinkState

LEMMA ServiceStepTypes ==
  ASSUME Typed, Service \/ \E s \in Session : Drop(s)
  PROVE  ServiceTypes' /\ HasStatement'
<1>1. ASSUME NEW s \in Session, Receive(s) PROVE ServiceTypes' /\ HasStatement'
  BY <1>1 DEF Receive, Typed, ServiceTypes, HasStatement, HandlerState
<1>2. ASSUME NEW s \in Session, Admit(s) PROVE ServiceTypes' /\ HasStatement'
  BY <1>2 DEF Admit, Typed, ServiceTypes, HasStatement, HandlerState
<1>3. CASE Start
  BY <1>3 DEF Start, Typed, ServiceTypes, HasStatement
<1>4. ASSUME NEW s \in Session, Drop(s) PROVE ServiceTypes' /\ HasStatement'
  BY <1>4 DEF Drop, Typed, ServiceTypes, HasStatement, LinkState
<1> QED
  BY <1>1, <1>2, <1>3, <1>4, ExecuteTypes, GiveUpTypes, EndsTypes, StopTypes
     DEF Service, Thread

-----------------------------------------------------------------------------
(* The steps of the callers preserve the types. *)

\* A caller that starts: its connection has not been used.
LEMMA SubmitFacts ==
  ASSUME Typed, NEW c \in Client, Submit(c)
  PROVE  /\ conn' = [conn EXCEPT ![c] = conn[c] + 1]
         /\ conn[c] + 1 \in 1..Submissions[c]
         /\ <<c, conn[c] + 1>> \in Session
         /\ At(c)' = <<c, conn[c] + 1>>
         /\ \A d \in Client : d # c => conn'[d] = conn[d] /\ pc'[d] = pc[d]
<1>1. conn[c] \in Nat /\ conn[c] < Submissions[c] /\ Submissions[c] \in Nat
  BY DEF Submit, Typed, ClientTypes
<1>2. conn' = [conn EXCEPT ![c] = conn[c] + 1]  BY DEF Submit
<1>3. conn'[c] = conn[c] + 1  BY <1>2 DEF Typed, ClientTypes
<1>4. conn[c] + 1 \in 1..Submissions[c]  BY <1>1
<1> QED
  BY <1>2, <1>3, <1>4, Connections DEF At, Submit, Goes, Typed, ClientTypes

LEMMA SubmitTypes ==
  ASSUME Typed, NEW c \in Client, Submit(c)
  PROVE  Typed'
<1> DEFINE s == <<c, conn[c] + 1>>
<1>1. s \in Session /\ conn[c] + 1 \in 1..Submissions[c]  BY SubmitFacts
<1>2. ClientTypes'
  BY <1>1, SubmitFacts DEF Submit, Goes, Typed, ClientTypes, Point
<1>3. ServiceTypes' /\ HasStatement'
  <2>1. CASE UNCHANGED serviceVars
    BY <2>1 DEF serviceVars, Typed, ServiceTypes, HasStatement
  <2>2. CASE Connect(s)
    BY <1>1, <2>2 DEF Connect, Typed, ServiceTypes, HasStatement, HandlerState, LinkState
  <2> QED  BY <2>1, <2>2 DEF Submit
<1> QED  BY <1>2, <1>3 DEF Typed

LEMMA AskTypes ==
  ASSUME Typed, NEW c \in Client, Ask(c)
  PROVE  Typed'
<1>1. StatementAt(c) \in Statement  BY StatementTypes DEF Ask, Typed
<1>2. ServiceTypes' /\ HasStatement'
  BY <1>1 DEF Ask, Send, Typed, ServiceTypes, HasStatement
<1>3. ClientTypes'  BY DEF Ask, clientVars, Typed, ClientTypes
<1> QED  BY <1>2, <1>3 DEF Typed

LEMMA LosesTypes ==
  ASSUME Typed, NEW c \in Client, Loses(c)
  PROVE  Typed'
<1>1. ServiceTypes' /\ HasStatement'
  BY DEF Loses, serviceVars, Typed, ServiceTypes, HasStatement
<1>2. ClientTypes'
  BY DEF Loses, Goes, Typed, ClientTypes, Point, Final
<1> QED  BY <1>1, <1>2 DEF Typed

\* A reply is read once, whatever is done with it.
LEMMA ReadsReply ==
  ASSUME NEW c \in Client, Reads(c)
  PROVE  \E close \in BOOLEAN : Read(At(c), close)
<1>1. CASE ReadBusy(c) \/ ReadCheck(c)  BY <1>1 DEF ReadBusy, ReadCheck
<1>2. CASE ReadInside(c)  BY <1>2 DEF ReadInside
<1>3. CASE ReadEnd(c)
  <2> DEFINE next == IF pc[c] = "commit" THEN "done" ELSE after[c]
             close == next \in Final
  <2>1. close \in BOOLEAN  OBVIOUS
  <2>2. Read(At(c), close)  BY <1>3 DEF ReadEnd
  <2> HIDE DEF close
  <2> QED  BY <2>1, <2>2
<1> QED  BY <1>1, <1>2, <1>3 DEF Reads

\* What a caller reads, and what it does with it: its own reply goes, its own
\* place moves, and nothing of the service changes but the connection.
LEMMA ReadsFrame ==
  ASSUME Typed, NEW c \in Client, Reads(c)
  PROVE  /\ At(c) \in Session /\ At(c)[1] = c /\ At(c)[2] = conn[c]
         /\ reply[At(c)] \in Reply /\ reply[At(c)].seen \in Tables
         /\ reply' = [reply EXCEPT ![At(c)] = None]
         /\ \/ UNCHANGED link
            \/ link' = [link EXCEPT ![At(c)] = "closed"]
         /\ UNCHANGED <<owner, handler, inside, durable, working, request, wants, conn>>
         /\ \A d \in Client : d # c => pc'[d] = pc[d] /\ answer'[d] = answer[d]
<1>1. At(c) \in Session /\ At(c)[1] = c /\ At(c)[2] = conn[c]
  BY CurrentConnection DEF Reads, Typed
<1>2. reply[At(c)] \in Reply  BY <1>1 DEF Reads, Typed, ServiceTypes
<1>3. reply[At(c)].seen \in Tables  BY <1>2 DEF Reply
<1>4. \E close \in BOOLEAN : Read(At(c), close)  BY ReadsReply
<1>5. UNCHANGED <<wants, conn>>  BY DEF Reads
<1>6. \A d \in Client : d # c => pc'[d] = pc[d]
  BY DEF Reads, ReadBusy, ReadCheck, ReadInside, ReadEnd, Recheck, KeyTaken, Raises,
         Goes, Typed, ClientTypes
<1>7. \A d \in Client : d # c => answer'[d] = answer[d]
  BY DEF Reads, ReadBusy, ReadCheck, ReadInside, ReadEnd, Recheck, Told, Typed,
         ClientTypes
<1>8. PICK close \in BOOLEAN : Read(At(c), close)  BY <1>4
<1>9. UNCHANGED link \/ link' = [link EXCEPT ![At(c)] = "closed"]
  <2>1. CASE close  BY <1>8, <2>1 DEF Read
  <2>2. CASE ~close  BY <1>8, <2>2 DEF Read, Typed, ServiceTypes
  <2> QED  BY <2>1, <2>2
<1>10. /\ reply' = [reply EXCEPT ![At(c)] = None]
       /\ UNCHANGED <<owner, handler, inside, durable, working, request>>
  BY <1>8 DEF Read
<1> QED  BY <1>1, <1>2, <1>3, <1>5, <1>6, <1>7, <1>9, <1>10

LEMMA ReplayTypes ==
  ASSUME ClientTypes, NEW c \in Client, NEW seen \in Tables,
         NEW run \in Replays(c, seen), ~Reused(c, seen)
  PROVE  /\ run \in Session
         /\ [key |-> wants[c].key, body |-> wants[c].body, run |-> run] \in seen.records
<1>1. PICK x \in Recorded(c, seen) : x.run = run  BY DEF Replays
<1>2. x \in seen.records /\ x.key = wants[c].key  BY <1>1 DEF Recorded
<1>3. x \in Record  BY <1>2 DEF Tables
<1>4. x.body = wants[c].body  BY <1>1 DEF Reused
<1>5. x = [key |-> wants[c].key, body |-> wants[c].body, run |-> run]
  BY <1>1, <1>2, <1>3, <1>4 DEF Record
<1> QED  BY <1>1, <1>2, <1>3, <1>5 DEF Record

LEMMA ReadsTypes ==
  ASSUME Typed, NEW c \in Client, Reads(c)
  PROVE  Typed'
<1> DEFINE seen == reply[At(c)].seen
<1>1. /\ At(c) \in Session
      /\ seen \in Tables
      /\ reply' = [reply EXCEPT ![At(c)] = None]
      /\ UNCHANGED link \/ link' = [link EXCEPT ![At(c)] = "closed"]
      /\ UNCHANGED <<owner, handler, inside, durable, working, request, wants, conn>>
  BY ReadsFrame
<1>2. ServiceTypes' /\ HasStatement'
  BY <1>1 DEF Typed, ServiceTypes, HasStatement, LinkState
<1>3. pc' \in [Client -> Point] /\ \A d \in Client : pc'[d] # "idle" => pc[d] # "idle"
  <2>1. ASSUME NEW p \in Point \ {"idle"}, Goes(c, p)
        PROVE  /\ pc' \in [Client -> Point]
               /\ \A d \in Client : pc'[d] # "idle" => pc[d] # "idle"
    BY <2>1 DEF Goes, Reads, Typed, ClientTypes
  <2>2. \E p \in Point \ {"idle"} : Goes(c, p)
    <3>1. CASE ReadBusy(c)  BY <3>1 DEF ReadBusy, Point
    <3>2. CASE ReadCheck(c)  BY <3>2 DEF ReadCheck, Point
    <3>3. CASE Recheck(c)  BY <3>3 DEF Recheck, Raises, Point
    <3>4. CASE ReadInside(c)
      BY <3>3, <3>4 DEF ReadInside, KeyTaken, AfterBegin, Raises, Point
    <3>5. CASE ReadEnd(c)
      <4>1. CASE pc[c] = "commit"  BY <3>5, <4>1 DEF ReadEnd, Point
      <4>2. CASE pc[c] = "rollback"
        <5>1. after[c] \in {"failed", "rejected", "check"}  BY DEF Typed, ClientTypes
        <5> QED  BY <3>5, <4>2, <5>1 DEF ReadEnd, Point, Final
      <4> QED  BY <3>5, <4>1, <4>2 DEF ReadEnd
    <3> QED  BY <3>1, <3>2, <3>4, <3>5 DEF Reads
  <2> QED  BY <2>1, <2>2
<1>4. answer' \in [Client -> Session \cup {None}]
  <2>1. ASSUME NEW run \in Session, Told(c, run)
        PROVE  answer' \in [Client -> Session \cup {None}]
    BY <2>1 DEF Told, Typed, ClientTypes
  <2>2. CASE UNCHANGED answer  BY <2>2 DEF Typed, ClientTypes
  <2>3. ASSUME NEW run \in Replays(c, seen), ~Reused(c, seen) PROVE run \in Session
    BY <1>1, <2>3, ReplayTypes DEF Typed
  <2>4. CASE ReadCheck(c)  BY <2>1, <2>2, <2>3, <2>4 DEF ReadCheck
  <2>5. CASE Recheck(c)  BY <2>1, <2>2, <2>3, <2>5 DEF Recheck
  <2>6. CASE ReadInside(c)  BY <1>1, <2>1, <2>2, <2>5, <2>6 DEF ReadInside
  <2> QED  BY <2>2, <2>4, <2>6 DEF Reads, ReadBusy, ReadEnd
<1>5. after' \in [Client -> {"failed", "rejected", "check"}]
  BY DEF Reads, ReadBusy, ReadCheck, ReadInside, ReadEnd, Recheck, KeyTaken, Raises,
         Typed, ClientTypes
<1>6. ClientTypes'  BY <1>1, <1>3, <1>4, <1>5 DEF Typed, ClientTypes
<1> QED  BY <1>2, <1>6 DEF Typed

-----------------------------------------------------------------------------
(* Transactions do not overlap. *)

LEMMA TypedStep ==
  ASSUME Typed, [Next]_vars
  PROVE  Typed'
<1>1. CASE UNCHANGED clientVars /\ (Service \/ \E s \in Session : Drop(s))
  <2>1. ClientTypes'  BY <1>1 DEF clientVars, Typed, ClientTypes
  <2> QED  BY <1>1, <2>1, ServiceStepTypes DEF Typed
<1>2. ASSUME NEW c \in Client, Caller(c) PROVE Typed'
  BY <1>2, SubmitTypes, AskTypes, ReadsTypes, LosesTypes DEF Caller
<1>3. CASE UNCHANGED vars
  BY <1>3 DEF vars, serviceVars, clientVars, Typed, ServiceTypes, ClientTypes,
              HasStatement
<1> QED  BY <1>1, <1>2, <1>3 DEF Next

\* The caller's steps leave the turn alone; a session that starts to read
\* has none.
LEMMA CallerTurn ==
  ASSUME Typed, Turn, NEW c \in Client, Caller(c)
  PROVE  Turn'
<1>1. CASE UNCHANGED <<owner, handler, inside>>
  BY <1>1 DEF Turn, SerialTransactions
<1>2. CASE Submit(c) /\ Connect(<<c, conn[c] + 1>>)
  BY <1>2, SubmitFacts DEF Turn, SerialTransactions, Connect, Typed, ServiceTypes
<1>3. CASE Submit(c) /\ UNCHANGED serviceVars
  BY <1>1, <1>3 DEF serviceVars
<1>4. CASE Ask(c)  BY <1>1, <1>4 DEF Ask, Send
<1>5. CASE Reads(c)  BY <1>1, <1>5, ReadsFrame
<1>6. CASE Loses(c)  BY <1>1, <1>6 DEF Loses, serviceVars
<1>7. CASE Submit(c)  BY <1>2, <1>3, <1>7 DEF Submit
<1> QED  BY <1>4, <1>5, <1>6, <1>7 DEF Caller

LEMMA ThreadTurn ==
  ASSUME Typed, Turn, NEW s \in Session, Thread(s)
  PROVE  Turn'
<1> USE DEF Typed, ServiceTypes, Turn, SerialTransactions
<1>1. CASE Receive(s)  BY <1>1 DEF Receive, Joins
<1>2. CASE Admit(s)  BY <1>2 DEF Admit, Admissible
<1>3. CASE GiveUp(s)  BY <1>3 DEF GiveUp
<1>4. CASE Execute(s)
  <2>1. owner = s /\ inside \subseteq {s}  BY <1>4 DEF Execute
  <2>2. CASE StaysInside(s, request[s].op)  BY <1>4, <2>1, <2>2 DEF Execute
  <2>3. CASE ~StaysInside(s, request[s].op)  BY <1>4, <2>1, <2>3 DEF Execute
  <2> QED  BY <2>2, <2>3
<1>5. CASE Hangup(s)  BY <1>5 DEF Hangup, Ends
<1>6. CASE IdleTimeout(s)  BY <1>6 DEF IdleTimeout, Ends
<1> QED  BY <1>1, <1>2, <1>3, <1>4, <1>5, <1>6 DEF Thread

LEMMA TurnStep ==
  ASSUME Typed, Turn, [Next]_vars
  PROVE  Turn'
<1>1. CASE \E s \in Session : Thread(s)  BY <1>1, ThreadTurn
<1>2. CASE Stop  BY <1>2 DEF Stop, Turn, SerialTransactions
<1>3. CASE UNCHANGED <<owner, handler, inside>>
  BY <1>3 DEF Turn, SerialTransactions
<1>4. CASE Start  BY <1>3, <1>4 DEF Start
<1>5. CASE \E s \in Session : Drop(s)  BY <1>3, <1>5 DEF Drop
<1>6. CASE \E c \in Client : Caller(c)  BY <1>6, CallerTurn
<1>7. CASE UNCHANGED vars  BY <1>3, <1>7 DEF vars, serviceVars
<1> QED  BY <1>1, <1>2, <1>4, <1>5, <1>6, <1>7 DEF Next, Service

LEMMA InitTyped ==
  ASSUME Init
  PROVE  Typed /\ Turn
<1>1. Empty \in Tables  BY DEF Empty, Tables
<1>2. ServiceTypes /\ HasStatement
  BY <1>1 DEF Init, ServiceInit, ServiceTypes, HasStatement, HandlerState, LinkState
<1>3. ClientTypes  BY DEF Init, ClientTypes, Point, Final
<1>4. Turn  BY DEF Init, ServiceInit, Turn, SerialTransactions
<1> QED  BY <1>2, <1>3, <1>4 DEF Typed

-----------------------------------------------------------------------------
(* One Run for a request.  The invariant says what a transaction has done   *)
(* when it is at a statement: for a session whose statement is still to be  *)
(* served, though its caller may have left; for a caller that is about to   *)
(* send one or waits for its reply; and for one that has the reply.         *)

UniqueKeys(T)   == \A r1, r2 \in T.records : r1.key = r2.key => r1 = r2
EveryRun(T)     == \A w \in T.runs : \E r \in T.records : r.run = w.run
OneInTalk(T)    == \A w1, w2 \in T.runs : w1.of = w2.of /\ w1.of # Apart => w1 = w2
Stored(T, r)    == \E w \in T.runs : w.run = r.run

\* Tables between requests, and those of a transaction that has written its
\* record and not yet its Run.
Complete(T) ==
  /\ UniqueKeys(T) /\ EveryRun(T) /\ OneInTalk(T)
  /\ \A r \in T.records : Stored(T, r)
Half(T, rec) ==
  /\ UniqueKeys(T) /\ EveryRun(T) /\ OneInTalk(T)
  /\ rec \in T.records
  /\ \A r \in T.records : r.run = rec.run \/ Stored(T, r)

\* No other Run of the conversation.
Free(T, of) == of = Apart \/ \A w \in T.runs : w.of # of

RecordOf(s, run) == [key |-> wants[s[1]].key, body |-> wants[s[1]].body, run |-> run]
RunOf(s)         == [run |-> s, of |-> wants[s[1]].of]

LiveSession(s) == handler[s] \in {"reading", "waiting", "serving"}

\* What a session has done when it is at a statement.
Ready(s, point) ==
  /\ point \in {"check", "begin"} => s \notin inside
  /\ point \in {"recheck", "record", "run", "commit"} => s \in inside
  /\ point \in {"recheck", "record", "commit"} => Complete(working[s])
  /\ point \in {"record", "run"} => Free(working[s], wants[s[1]].of)
  /\ point = "run" => Half(working[s], RecordOf(s, s))

\* A statement that is still to be served.
Pending(s) ==
  LiveSession(s) /\ request[s] # None =>
    /\ request[s].op # "select" => Ready(s, request[s].op)
    /\ request[s].op = "record" => request[s].row = RecordOf(s, s)
    /\ request[s].op = "run" => request[s].row = RunOf(s)

Active(c) == pc[c] \notin Final \cup {"idle"}

\* A caller waits for one answer at a time.
Asked(c) ==
  Active(c) /\ request[At(c)] # None =>
    request[At(c)] = StatementAt(c) /\ reply[At(c)] = None

\* A caller without a reply.
Before(c) ==
  Active(c) /\ LiveSession(At(c)) /\ reply[At(c)] = None =>
    /\ Ready(At(c), pc[c])
    /\ pc[c] = "commit" => RecordOf(At(c), answer[c]) \in working[At(c)].records

\* A caller with a reply.
After(c) ==
  Active(c) /\ LiveSession(At(c)) /\ reply[At(c)] # None =>
    IF reply[At(c)].verdict = "busy" THEN At(c) \notin inside
    ELSE /\ pc[c] = "check" => At(c) \notin inside
         /\ pc[c] \in {"begin", "recheck"} => Ready(At(c), "recheck")
         /\ pc[c] = "recheck" => reply[At(c)].seen = working[At(c)]
         /\ pc[c] = "record" /\ reply[At(c)].verdict # "integrity" => Ready(At(c), "run")
         /\ pc[c] = "run" =>
              Ready(At(c), "commit") /\ RecordOf(At(c), At(c)) \in working[At(c)].records
         /\ pc[c] = "rollback" => At(c) \notin inside

\* What a caller knows to be committed.
Known(c) ==
  /\ pc[c] = "done" => RecordOf(At(c), answer[c]) \in durable.records
  /\ Active(c) /\ reply[At(c)] # None /\ reply[At(c)].verdict # "busy" =>
       /\ pc[c] = "check" => reply[At(c)].seen.records \subseteq durable.records
       /\ pc[c] = "commit" => RecordOf(At(c), answer[c]) \in durable.records

\* A connection that has not been made.
Unused ==
  \A s \in Session : s[2] > conn[s[1]] =>
    handler[s] = "none" /\ request[s] = None /\ reply[s] = None

\* A transaction has what is committed.
Based == \A s \in inside : durable.records \subseteq working[s].records

Callers == \A c \in Client : Asked(c) /\ Before(c) /\ After(c) /\ Known(c)

Sessions == \A s \in Session : Pending(s)

Inv == Typed /\ Turn /\ Unused /\ Based /\ Complete(durable) /\ Sessions /\ Callers

\* A record without its Run, then its Run.
LEMMA RecordWritten ==
  ASSUME NEW T \in Tables, NEW rec \in Record, Complete(T),
         \A r \in T.records : r.key # rec.key
  PROVE  Half([records |-> T.records \cup {rec}, runs |-> T.runs], rec)
BY DEF Complete, Half, UniqueKeys, EveryRun, OneInTalk, Stored, Tables

LEMMA RunWritten ==
  ASSUME NEW T \in Tables, NEW rec \in Record, NEW row \in RunRow, Half(T, rec),
         row.run = rec.run, Free(T, row.of)
  PROVE  Complete([records |-> T.records, runs |-> T.runs \cup {row}])
<1> DEFINE U == [records |-> T.records, runs |-> T.runs \cup {row}]
<1>1. UniqueKeys(U)  BY DEF Half, UniqueKeys
<1>2. EveryRun(U)  BY DEF Half, EveryRun
<1>3. OneInTalk(U)  BY DEF Half, OneInTalk, Free
<1>4. \A r \in U.records : Stored(U, r)  BY DEF Half, Stored
<1> QED  BY <1>1, <1>2, <1>3, <1>4 DEF Complete

LEMMA InvariantImplies ==
  ASSUME Inv
  PROVE  OneRunEach
<1>1. Complete(durable) /\ Callers /\ ClientTypes  BY DEF Inv, Typed
<1>2. \A r1, r2 \in durable.records : r1.key = r2.key => r1 = r2
  BY <1>1 DEF Complete, UniqueKeys
<1>3. {r.run : r \in durable.records} = {row.run : row \in durable.runs}
  BY <1>1 DEF Complete, EveryRun, Stored
<1>4. \A row1, row2 \in durable.runs : row1.of = row2.of /\ row1.of # Apart => row1 = row2
  BY <1>1 DEF Complete, OneInTalk
<1>5. ASSUME NEW c \in Client, pc[c] = "done"
      PROVE  [key |-> wants[c].key, body |-> wants[c].body, run |-> answer[c]]
               \in durable.records
  <2>1. At(c)[1] = c  BY <1>1, <1>5, CurrentConnection
  <2> QED  BY <1>1, <1>5, <2>1 DEF Callers, Known, RecordOf
<1> QED  BY <1>2, <1>3, <1>4, <1>5 DEF OneRunEach

-----------------------------------------------------------------------------
(* Steps that answer nothing: a session's thread moves on or ends, the      *)
(* service stops or starts, a connection is lost.                           *)

LEMMA QuietFrame ==
  ASSUME Inv, UNCHANGED <<durable, request, reply, clientVars>>,
         \A s \in inside' : s \in inside /\ working'[s] = working[s],
         \A s \in Session :
           /\ LiveSession(s)' =>
                LiveSession(s) /\ (s \in inside <=> s \in inside') /\ working'[s] = working[s]
           /\ handler[s] = "none" => handler'[s] = "none"
  PROVE  Unused' /\ Based' /\ Complete(durable)' /\ Sessions' /\ Callers'
<1>1. UNCHANGED <<wants, pc, conn, answer>>  BY DEF clientVars
<1>2. \A c \in Client : At(c)' = At(c)  BY <1>1 DEF At
<1>3. Unused'  BY <1>1 DEF Inv, Unused
<1>4. Based' /\ Complete(durable)'  BY DEF Inv, Based
<1>5. Sessions'
  <2> SUFFICES ASSUME NEW s \in Session PROVE Pending(s)'
    BY DEF Sessions
  <2>1. Pending(s)  BY DEF Inv, Sessions
  <2>2. CASE ~LiveSession(s)'  BY <2>2 DEF Pending
  <2>3. CASE LiveSession(s)'
    BY <1>1, <2>1, <2>3 DEF Pending, Ready, RecordOf, RunOf
  <2> QED  BY <2>2, <2>3
<1>6. Callers'
  <2> SUFFICES ASSUME NEW c \in Client
               PROVE  Asked(c)' /\ Before(c)' /\ After(c)' /\ Known(c)'
    BY DEF Callers
  <2>1. Asked(c) /\ Before(c) /\ After(c) /\ Known(c)  BY DEF Inv, Callers
  <2>2. Asked(c)'
    BY <1>1, <1>2, <2>1 DEF Asked, Active, StatementAt
  <2>3. Known(c)'  BY <1>1, <1>2, <2>1 DEF Known, Active, RecordOf
  <2>4. CASE Active(c) /\ LiveSession(At(c))'
    <3>1. At(c) \in Session
      BY <2>4, CurrentConnection DEF Active, Inv, Typed
    <3>2. /\ LiveSession(At(c))
          /\ At(c) \in inside <=> At(c) \in inside'
          /\ working'[At(c)] = working[At(c)]
      BY <1>2, <2>4, <3>1
    <3>3. Before(c)'
      BY <1>1, <1>2, <2>1, <2>4, <3>2 DEF Before, Active, Ready, RecordOf
    <3>4. After(c)'
      BY <1>1, <1>2, <2>1, <2>4, <3>2 DEF After, Active, Ready, RecordOf
    <3> QED  BY <2>2, <2>3, <3>3, <3>4
  <2>5. CASE ~(Active(c) /\ LiveSession(At(c))')
    BY <1>1, <1>2, <2>2, <2>3, <2>5 DEF Before, After, Active
  <2> QED  BY <2>4, <2>5
<1> QED  BY <1>3, <1>4, <1>5, <1>6

LEMMA QuietSteps ==
  ASSUME Inv, UNCHANGED clientVars,
         \/ \E s \in Session : \/ Receive(s) \/ Admit(s) \/ Hangup(s) \/ IdleTimeout(s)
                               \/ Drop(s)
         \/ Stop \/ Start
  PROVE  Unused' /\ Based' /\ Complete(durable)' /\ Sessions' /\ Callers'
<1> DEFINE Quiet ==
      /\ UNCHANGED <<durable, request, reply, clientVars>>
      /\ \A s \in inside' : s \in inside /\ working'[s] = working[s]
      /\ \A s \in Session :
           /\ LiveSession(s)' =>
                LiveSession(s) /\ (s \in inside <=> s \in inside') /\ working'[s] = working[s]
           /\ handler[s] = "none" => handler'[s] = "none"
<1> USE DEF Inv, Typed, ServiceTypes, LiveSession
<1>1. ASSUME NEW s \in Session, Receive(s) PROVE Quiet  BY <1>1 DEF Receive
<1>2. ASSUME NEW s \in Session, Admit(s) PROVE Quiet  BY <1>2 DEF Admit
<1>3. ASSUME NEW s \in Session, Hangup(s) PROVE Quiet  BY <1>3 DEF Hangup, Ends
<1>4. ASSUME NEW s \in Session, IdleTimeout(s) PROVE Quiet  BY <1>4 DEF IdleTimeout, Ends
<1>5. ASSUME NEW s \in Session, Drop(s) PROVE Quiet  BY <1>5 DEF Drop
<1>6. ASSUME Stop PROVE Quiet  BY <1>6 DEF Stop
<1>7. ASSUME Start PROVE Quiet  BY <1>7 DEF Start
<1>8. Quiet  BY <1>1, <1>2, <1>3, <1>4, <1>5, <1>6, <1>7
<1> HIDE DEF Inv, Typed, ServiceTypes, LiveSession
<1> QED  BY <1>8, QuietFrame

-----------------------------------------------------------------------------
(* Steps that answer a statement. *)

\* The sessions and callers a step of one session does not concern.
LEMMA OthersFrame ==
  ASSUME Inv, UNCHANGED clientVars, NEW s \in Session,
         durable.records \subseteq durable'.records,
         \A t \in Session \ {s} :
           /\ request'[t] = request[t] /\ reply'[t] = reply[t]
           /\ LiveSession(t)' <=> LiveSession(t)
           /\ t \in inside' <=> t \in inside
           /\ working'[t] = working[t]
  PROVE  /\ \A t \in Session \ {s} : Pending(t)'
         /\ \A c \in Client : At(c) # s => Asked(c)' /\ Before(c)' /\ After(c)' /\ Known(c)'
         /\ \A c \in Client : pc[c] = "done" =>
              Asked(c)' /\ Before(c)' /\ After(c)' /\ Known(c)'
<1>1. UNCHANGED <<wants, pc, conn, answer>>  BY DEF clientVars
<1>2. \A c \in Client : At(c)' = At(c)  BY <1>1 DEF At
<1>3. ASSUME NEW t \in Session \ {s} PROVE Pending(t)'
  <2>1. Pending(t)  BY DEF Inv, Sessions
  <2> QED  BY <1>1, <2>1 DEF Pending, Ready, RecordOf, RunOf
<1>4. ASSUME NEW c \in Client, At(c) # s, Active(c)
      PROVE  Asked(c)' /\ Before(c)' /\ After(c)' /\ Known(c)'
  <2>1. Asked(c) /\ Before(c) /\ After(c) /\ Known(c)  BY DEF Inv, Callers
  <2>2. At(c) \in Session \ {s}
    BY <1>4, CurrentConnection DEF Active, Inv, Typed
  <2>3. /\ request'[At(c)] = request[At(c)] /\ reply'[At(c)] = reply[At(c)]
        /\ LiveSession(At(c))' <=> LiveSession(At(c))
        /\ At(c) \in inside' <=> At(c) \in inside
        /\ working'[At(c)] = working[At(c)]
    BY <1>2, <2>2
  <2>4. Asked(c)'  BY <1>1, <1>2, <2>1, <2>3 DEF Asked, Active, StatementAt
  <2>5. Before(c)'
    BY <1>1, <1>2, <2>1, <2>3 DEF Before, Active, Ready, RecordOf
  <2>6. After(c)'
    BY <1>1, <1>2, <2>1, <2>3 DEF After, Active, Ready, RecordOf
  <2>7. Known(c)'  BY <1>1, <1>2, <2>1, <2>3 DEF Known, Active, RecordOf
  <2> QED  BY <2>4, <2>5, <2>6, <2>7
<1>5. ASSUME NEW c \in Client, ~Active(c)
      PROVE  Asked(c)' /\ Before(c)' /\ After(c)' /\ Known(c)'
  <2>1. Known(c)  BY DEF Inv, Callers
  <2> QED  BY <1>1, <1>2, <1>5, <2>1 DEF Asked, Before, After, Known, Active, RecordOf
<1> QED  BY <1>3, <1>4, <1>5 DEF Active, Final

LEMMA GiveUpStep ==
  ASSUME Inv, UNCHANGED clientVars, NEW s \in Session, GiveUp(s)
  PROVE  Unused' /\ Based' /\ Complete(durable)' /\ Sessions' /\ Callers'
<1>1. /\ handler[s] = "waiting" /\ handler' = [handler EXCEPT ![s] = "reading"]
      /\ request' = [request EXCEPT ![s] = None]
      /\ reply' = [reply EXCEPT ![s] = [verdict |-> "busy", seen |-> Empty]]
      /\ UNCHANGED <<inside, durable, working>>
  BY DEF GiveUp
<1>2. s \notin inside
  BY <1>1 DEF Inv, Turn, SerialTransactions
<1>3. /\ handler \in [Session -> HandlerState]
      /\ request \in [Session -> Statement \cup {None}]
      /\ reply \in [Session -> Reply \cup {None}]
  BY DEF Inv, Typed, ServiceTypes
<1>4. /\ request'[s] = None /\ reply'[s].verdict = "busy" /\ reply'[s] # None
      /\ LiveSession(s)
  <2>1. [verdict |-> "busy", seen |-> Empty] \in Reply
    BY DEF Reply, Verdict, Tables, Empty
  <2> QED  BY <1>1, <1>3, <2>1 DEF LiveSession
<1>5. \A t \in Session \ {s} :
        /\ request'[t] = request[t] /\ reply'[t] = reply[t]
        /\ LiveSession(t)' <=> LiveSession(t)
        /\ handler'[t] = handler[t]
        /\ t \in inside' <=> t \in inside
        /\ working'[t] = working[t]
  BY <1>1, <1>3 DEF LiveSession
<1>6. UNCHANGED <<wants, pc, conn, answer>>  BY DEF clientVars
<1>7. Unused'
  BY <1>1, <1>5, <1>6 DEF Inv, Unused
<1>8. Based' /\ Complete(durable)'  BY <1>1 DEF Inv, Based
<1>9. /\ \A t \in Session \ {s} : Pending(t)'
      /\ \A c \in Client : At(c) # s => Asked(c)' /\ Before(c)' /\ After(c)' /\ Known(c)'
  BY <1>1, <1>5, OthersFrame
<1>10. Pending(s)'  BY <1>4 DEF Pending
<1>11. ASSUME NEW c \in Client, At(c) = s
       PROVE  Asked(c)' /\ Before(c)' /\ After(c)' /\ Known(c)'
  <2>1. At(c)' = s /\ Known(c)  BY <1>6, <1>11 DEF At, Inv, Callers
  <2>2. Known(c)'  BY <1>1, <1>4, <1>6, <1>11, <2>1 DEF Known, RecordOf, Active
  <2> QED  BY <1>1, <1>2, <1>4, <2>1, <2>2 DEF Asked, Before, After
<1>12. Sessions' /\ Callers'
  BY <1>9, <1>10, <1>11 DEF Sessions, Callers
<1> QED  BY <1>7, <1>8, <1>12

\* The effect of a statement on the sessions: the one that is served has its
\* answer, and the tables change as the operation says.
Effect(s) ==
  /\ request[s] \in Statement /\ LiveSession(s) /\ LiveSession(s)'
  /\ owner = s /\ inside \subseteq {s}
  /\ request'[s] = None /\ reply'[s] # None /\ reply'[s].verdict # "busy"
  /\ \A t \in Session \ {s} :
       /\ request'[t] = request[t] /\ reply'[t] = reply[t]
       /\ LiveSession(t)' <=> LiveSession(t)
       /\ handler'[t] = handler[t]
       /\ t \in inside' <=> t \in inside
       /\ working'[t] = working[t]
  /\ request[s].op = "select" =>
       /\ UNCHANGED <<inside, durable>>
       /\ s \in inside => working'[s] = working[s]
       /\ reply'[s].seen = Seen(s)
  /\ request[s].op = "begin" =>
       s \in inside' /\ working'[s] = durable /\ UNCHANGED durable
  /\ request[s].op = "commit" =>
       s \in inside /\ s \notin inside' /\ durable' = working[s]
  /\ request[s].op = "rollback" => s \notin inside' /\ UNCHANGED durable
  /\ request[s].op = "record" =>
       /\ s \in inside /\ s \in inside' /\ UNCHANGED durable
       /\ \/ reply'[s].verdict = "integrity" /\ working'[s] = working[s]
          \/ /\ reply'[s].verdict = "ok"
             /\ \A r \in working[s].records : r.key # request[s].row.key
             /\ working'[s] = [records |-> working[s].records \cup {request[s].row},
                               runs |-> working[s].runs]
  /\ request[s].op = "run" =>
       /\ s \in inside /\ s \in inside' /\ UNCHANGED durable
       /\ working'[s] = [records |-> working[s].records,
                         runs |-> working[s].runs \cup {request[s].row}]

LEMMA ExecuteEffect ==
  ASSUME Inv, NEW s \in Session, Execute(s)
  PROVE  Effect(s)
<1> DEFINE st == request[s]
           write == st.op \in {"record", "run"} /\ ~Clashes(Seen(s), st)
<1>1. /\ handler \in [Session -> HandlerState]
      /\ inside \in SUBSET Session
      /\ request \in [Session -> Statement \cup {None}]
      /\ reply \in [Session -> Reply \cup {None}]
      /\ working \in [Session -> Tables]
  BY DEF Inv, Typed, ServiceTypes
<1>2. handler[s] = "serving" /\ st \in Statement /\ LiveSession(s)
  BY <1>1 DEF Execute, Inv, Typed, HasStatement, LiveSession
<1>3. owner = s /\ inside \subseteq {s}
  BY <1>2 DEF Inv, Turn, SerialTransactions
<1>4. /\ handler' = [handler EXCEPT ![s] = "reading"]
      /\ request' = [request EXCEPT ![s] = None]
      /\ inside' = IF StaysInside(s, st.op) THEN inside \cup {s} ELSE inside \ {s}
      /\ reply' = [reply EXCEPT ![s] =
           [verdict |-> IF Clashes(Seen(s), st) THEN "integrity" ELSE "ok",
            seen |-> IF st.op = "select" THEN Seen(s) ELSE Empty]]
  BY DEF Execute
<1>5. /\ reply'[s].verdict = IF Clashes(Seen(s), st) THEN "integrity" ELSE "ok"
      /\ reply'[s].seen = IF st.op = "select" THEN Seen(s) ELSE Empty
  BY <1>1, <1>4
<1>6. reply'[s] \in Reply
  <2>1. Seen(s) \in Tables /\ Empty \in Tables
    BY DEF Inv, Typed, ServiceTypes, Seen, Tables, Empty
  <2>2. \A v \in Verdict, T \in Tables : [verdict |-> v, seen |-> T] \in Reply
    BY DEF Reply
  <2> QED  BY <1>1, <1>4, <2>1, <2>2 DEF Verdict
<1>7. \A t \in Session \ {s} :
        /\ request'[t] = request[t] /\ reply'[t] = reply[t]
        /\ LiveSession(t)' <=> LiveSession(t)
        /\ handler'[t] = handler[t]
        /\ t \in inside' <=> t \in inside
        /\ working'[t] = working[t]
  BY <1>1, <1>4 DEF LiveSession, Execute
<1>8. LiveSession(s)'  BY <1>1, <1>4 DEF LiveSession
<1>9. working'[s] =
        IF st.op = "begin" /\ s \notin inside THEN durable
        ELSE IF s \notin inside \/ st.op \in {"commit", "rollback"} THEN Empty
        ELSE IF write THEN Inserted(working[s], st) ELSE working[s]
  BY <1>1 DEF Execute
<1>10. durable' =
         IF s \in inside THEN IF st.op = "commit" THEN working[s] ELSE durable
         ELSE IF write THEN Inserted(durable, st) ELSE durable
  BY DEF Execute
<1>11. /\ st.op = "begin" => s \notin inside
       /\ st.op \in {"record", "run", "commit"} => s \in inside
  <2>1. Pending(s)  BY DEF Inv, Sessions
  <2> QED  BY <1>2, <2>1 DEF Pending, Ready
<1>12. s \in inside => Seen(s) = working[s]  BY DEF Seen
<1>13. CASE st.op \in {"select", "begin", "commit", "rollback"}
  <2>1. ~write  BY <1>13
  <2> HIDE DEF write
  <2> QED
    BY <1>1, <1>2, <1>3, <1>4, <1>5, <1>6, <1>7, <1>8, <1>9, <1>10, <1>11, <1>13, <2>1
       DEF StaysInside, Effect
<1>14. CASE st.op \in {"record", "run"}
  <2>1. s \in inside /\ s \in inside' /\ durable' = durable
    BY <1>4, <1>10, <1>11, <1>14 DEF StaysInside
  <2>2. working'[s] = IF ~Clashes(working[s], st) THEN Inserted(working[s], st)
                                                  ELSE working[s]
    BY <1>9, <1>12, <1>14, <2>1
  <2>3. Clashes(working[s], st) <=>
          st.op = "record" /\ \E r \in working[s].records : r.key = st.row.key
    BY DEF Clashes
  <2>4. /\ st.op = "record" => Inserted(working[s], st) =
             [records |-> working[s].records \cup {st.row}, runs |-> working[s].runs]
        /\ st.op = "run" => Inserted(working[s], st) =
             [records |-> working[s].records, runs |-> working[s].runs \cup {st.row}]
    BY <1>1, <1>2, <1>14, InsertedTables
  <2>5. reply'[s].verdict = IF Clashes(working[s], st) THEN "integrity" ELSE "ok"
    BY <1>5, <1>12, <2>1
  <2>6. st.op = "run" =>
          working'[s] = [records |-> working[s].records,
                         runs |-> working[s].runs \cup {st.row}]
    BY <2>2, <2>3, <2>4
  <2>7. st.op = "record" =>
          \/ reply'[s].verdict = "integrity" /\ working'[s] = working[s]
          \/ /\ reply'[s].verdict = "ok"
             /\ \A r \in working[s].records : r.key # st.row.key
             /\ working'[s] = [records |-> working[s].records \cup {st.row},
                               runs |-> working[s].runs]
    <3>1. CASE Clashes(working[s], st)  BY <2>2, <2>5, <3>1
    <3>2. CASE ~Clashes(working[s], st)  BY <2>2, <2>3, <2>4, <2>5, <3>2
    <3> QED  BY <3>1, <3>2
  <2>8. request'[s] = None /\ reply'[s] # None /\ reply'[s].verdict # "busy"
    BY <1>1, <1>4, <1>6, <2>5
  <2> QED
    BY <1>2, <1>3, <1>7, <1>8, <1>14, <2>1, <2>6, <2>7, <2>8 DEF Effect
<1>15. st.op \in {"select", "begin", "commit", "rollback", "record", "run"}
  BY <1>2 DEF Statement
<1> QED  BY <1>13, <1>14, <1>15

LEMMA ExecuteStep ==
  ASSUME Inv, UNCHANGED clientVars, NEW s \in Session, Execute(s)
  PROVE  Unused' /\ Based' /\ Complete(durable)' /\ Sessions' /\ Callers'
<1> DEFINE st == request[s]
<1>0. Effect(s)  BY ExecuteEffect
<1>1. /\ st \in Statement /\ LiveSession(s) /\ LiveSession(s)'
      /\ owner = s /\ inside \subseteq {s}
      /\ request'[s] = None /\ reply'[s] # None /\ reply'[s].verdict # "busy"
      /\ \A t \in Session \ {s} :
           /\ request'[t] = request[t] /\ reply'[t] = reply[t]
           /\ LiveSession(t)' <=> LiveSession(t)
           /\ handler'[t] = handler[t]
           /\ t \in inside' <=> t \in inside
           /\ working'[t] = working[t]
  BY <1>0 DEF Effect
<1>2. UNCHANGED <<wants, pc, conn, answer>>  BY DEF clientVars
<1>3. st.op \in {"select", "begin", "commit", "rollback", "record", "run"}
  BY <1>1 DEF Statement
<1>4. /\ st.op # "select" => Ready(s, st.op)
      /\ st.op = "record" => st.row = RecordOf(s, s)
      /\ st.op = "run" => st.row = RunOf(s)
  BY <1>1 DEF Inv, Sessions, Pending
<1>5. durable.records \subseteq durable'.records /\ Complete(durable')
  <2>1. CASE st.op = "commit"
    BY <1>4, <2>1, <1>0 DEF Ready, Inv, Based, Effect
  <2>2. CASE st.op # "commit"
    BY <1>3, <2>2, <1>0 DEF Inv, Effect
  <2> QED  BY <2>1, <2>2
<1>6. Based'
  <2>1. inside' \subseteq {s}
    <3>1. inside' \in SUBSET Session
      BY ExecuteTypes DEF Inv, Typed, ServiceTypes
    <3> QED  BY <1>1, <3>1
  <2>2. CASE s \notin inside'  BY <2>1, <2>2 DEF Based
  <2>3. CASE s \in inside'
    <3>1. CASE st.op \in {"commit", "rollback"}  BY <2>3, <3>1, <1>0 DEF Effect
    <3>2. CASE st.op = "begin"  BY <2>1, <3>2, <1>0 DEF Based, Effect
    <3>3. CASE st.op \in {"select", "record", "run"}
      <4>1. s \in inside /\ durable' = durable /\ working[s].records \subseteq working'[s].records
        BY <2>3, <3>3, <1>0 DEF Effect
      <4> QED  BY <2>1, <4>1 DEF Inv, Based
    <3> QED  BY <1>3, <3>1, <3>2, <3>3
  <2> QED  BY <2>2, <2>3
<1>7. Unused'
  BY <1>1, <1>2 DEF Inv, Unused, LiveSession
<1>8. /\ \A t \in Session \ {s} : Pending(t)'
      /\ \A c \in Client : At(c) # s \/ pc[c] = "done" =>
           Asked(c)' /\ Before(c)' /\ After(c)' /\ Known(c)'
  BY <1>1, <1>5, OthersFrame
<1>9. Pending(s)'  BY <1>1 DEF Pending
<1>10. ASSUME NEW c \in Client, At(c) = s, pc[c] # "done"
       PROVE  Asked(c)' /\ Before(c)' /\ After(c)' /\ Known(c)'
  <2>1. At(c)' = s  BY <1>2, <1>10 DEF At
  <2>2. Asked(c)' /\ Before(c)'
    BY <1>1, <2>1 DEF Asked, Before
  <2>3. CASE ~Active(c)
    BY <1>2, <1>10, <2>2, <2>3 DEF After, Known, Active
  <2>4. CASE Active(c)
    <3> DEFINE rec == RecordOf(s, s)
    <3>1. /\ Asked(c) /\ Before(c)
          /\ st = StatementAt(c) /\ reply[s] = None
      <4>1. st # None  BY <1>1
      <4> QED  BY <1>10, <2>4, <4>1 DEF Inv, Callers, Asked
    <3>2. /\ Ready(s, pc[c])
          /\ pc[c] = "commit" => RecordOf(s, answer[c]) \in working[s].records
      BY <1>1, <1>10, <2>4, <3>1 DEF Before
    <3>3. /\ pc[c] \in {"check", "recheck", "begin", "commit", "rollback", "record", "run"}
          /\ st.op = IF pc[c] \in {"check", "recheck"} THEN "select" ELSE pc[c]
      <4>1. pc[c] \in {"check", "recheck", "begin", "commit", "rollback", "record", "run"}
        BY <2>4 DEF Active, Inv, Typed, ClientTypes, Point, Final
      <4> QED  BY <2>4, <3>1, <4>1, StatementTypes DEF Active, Inv, Typed, Say
    <3>4. s[1] = c /\ wants[c] \in Request
      BY <1>10, <2>4, CurrentConnection, Wanted DEF Active, Inv, Typed
    <3>5. durable \in Tables /\ working[s] \in Tables
      BY DEF Inv, Typed, ServiceTypes
    <3>6. CASE pc[c] = "check"
      <4>1. s \notin inside  BY <3>2, <3>6 DEF Ready
      <4>2. s \notin inside' /\ reply'[s].seen = durable /\ durable' = durable
        BY <3>3, <3>6, <4>1, <1>0 DEF Seen, Effect
      <4> QED
        BY <1>1, <1>2, <1>10, <2>1, <2>2, <3>6, <4>2 DEF After, Known, Active
    <3>7. CASE pc[c] = "begin"
      <4>1. s \in inside' /\ working'[s] = durable
        BY <3>3, <3>7, <1>0 DEF Effect
      <4>2. Complete(working'[s])  BY <4>1 DEF Inv
      <4>3. Ready(s, "recheck")'  BY <4>1, <4>2 DEF Ready
      <4> QED
        BY <1>1, <1>2, <1>10, <2>1, <2>2, <3>7, <4>3 DEF After, Known, Active
    <3>8. CASE pc[c] = "recheck"
      <4>1. s \in inside /\ Complete(working[s])  BY <3>2, <3>8 DEF Ready
      <4>2. s \in inside' /\ working'[s] = working[s] /\ reply'[s].seen = working[s]
        BY <3>3, <3>8, <4>1, <1>0 DEF Seen, Effect
      <4>3. Ready(s, "recheck")'  BY <4>1, <4>2 DEF Ready
      <4> QED
        BY <1>1, <1>2, <1>10, <2>1, <2>2, <3>8, <4>2, <4>3 DEF After, Known, Active
    <3>9. CASE pc[c] = "record"
      <4>1. Complete(working[s]) /\ Free(working[s], wants[s[1]].of)
        BY <3>2, <3>9 DEF Ready
      <4>2. st.op = "record" /\ st.row = rec  BY <1>4, <3>3, <3>9
      <4>3. rec \in Record /\ rec.run = s  BY <3>4 DEF RecordOf, Record, Request
      <4>4. ASSUME reply'[s].verdict # "integrity" PROVE Ready(s, "run")'
        <5>1. /\ s \in inside'
              /\ \A r \in working[s].records : r.key # rec.key
              /\ working'[s] = [records |-> working[s].records \cup {rec},
                                runs |-> working[s].runs]
          BY <4>2, <4>4, <1>0 DEF Effect
        <5>2. Half(working'[s], rec)  BY <3>5, <4>1, <4>3, <5>1, RecordWritten
        <5>3. Free(working'[s], wants[s[1]].of)  BY <4>1, <5>1 DEF Free
        <5>4. RecordOf(s, s)' = rec  BY <1>2 DEF RecordOf
        <5> QED  BY <1>2, <5>1, <5>2, <5>3, <5>4 DEF Ready
      <4> QED
        BY <1>1, <1>2, <1>10, <2>1, <2>2, <3>9, <4>4 DEF After, Known, Active
    <3>10. CASE pc[c] = "run"
      <4>1. Half(working[s], rec) /\ Free(working[s], wants[s[1]].of)
        BY <3>2, <3>10 DEF Ready
      <4>2. st.op = "run" /\ st.row = RunOf(s)  BY <1>4, <3>3, <3>10
      <4>3. /\ rec \in Record /\ rec.run = s
            /\ RunOf(s) \in RunRow /\ RunOf(s).run = s /\ RunOf(s).of = wants[s[1]].of
        BY <3>4 DEF RecordOf, Record, Request, RunOf, RunRow
      <4>4. /\ s \in inside'
            /\ working'[s] = [records |-> working[s].records,
                              runs |-> working[s].runs \cup {RunOf(s)}]
        BY <4>2, <1>0 DEF Effect
      <4>5. Complete(working'[s])  BY <3>5, <4>1, <4>3, <4>4, RunWritten
      <4>6. rec \in working'[s].records  BY <4>1, <4>4 DEF Half
      <4>7. RecordOf(s, s)' = rec  BY <1>2 DEF RecordOf
      <4>8. Ready(s, "commit")'  BY <4>4, <4>5 DEF Ready
      <4> QED
        BY <1>1, <1>2, <1>10, <2>1, <2>2, <3>10, <4>6, <4>7, <4>8 DEF After, Known, Active
    <3>11. CASE pc[c] = "commit"
      <4>1. durable' = working[s]  BY <3>3, <3>11, <1>0 DEF Effect
      <4>2. RecordOf(s, answer[c])' \in durable'.records
        BY <1>2, <3>2, <3>11, <4>1 DEF RecordOf
      <4> QED
        BY <1>1, <1>2, <1>10, <2>1, <2>2, <3>11, <4>2 DEF After, Known, Active, RecordOf
    <3>12. CASE pc[c] = "rollback"
      <4>1. s \notin inside'  BY <3>3, <3>12, <1>0 DEF Effect
      <4> QED
        BY <1>1, <1>2, <1>10, <2>1, <2>2, <3>12, <4>1 DEF After, Known, Active
    <3> QED  BY <3>3, <3>6, <3>7, <3>8, <3>9, <3>10, <3>11, <3>12
  <2> QED  BY <2>3, <2>4
<1>11. Sessions' /\ Callers'
  BY <1>8, <1>9, <1>10 DEF Sessions, Callers
<1> QED  BY <1>5, <1>6, <1>7, <1>11

-----------------------------------------------------------------------------
(* Steps of a caller. *)

\* The sessions and callers a step of one caller does not concern.
LEMMA CallerFrame ==
  ASSUME Inv, NEW c \in Client, NEW s \in Session, s[1] = c,
         UNCHANGED <<inside, durable, working, wants>>,
         \A t \in Session \ {s} :
           request'[t] = request[t] /\ reply'[t] = reply[t] /\ handler'[t] = handler[t],
         \A d \in Client \ {c} : pc'[d] = pc[d] /\ answer'[d] = answer[d] /\ conn'[d] = conn[d]
  PROVE  /\ Based' /\ Complete(durable)'
         /\ \A t \in Session \ {s} : Pending(t)'
         /\ \A d \in Client \ {c} : Asked(d)' /\ Before(d)' /\ After(d)' /\ Known(d)'
<1>1. Based' /\ Complete(durable)'  BY DEF Inv, Based
<1>2. ASSUME NEW t \in Session \ {s} PROVE Pending(t)'
  <2>1. Pending(t)  BY DEF Inv, Sessions
  <2>2. LiveSession(t)' <=> LiveSession(t)  BY DEF LiveSession
  <2> QED  BY <2>1, <2>2 DEF Pending, Ready, RecordOf, RunOf
<1>3. ASSUME NEW d \in Client \ {c}
      PROVE  Asked(d)' /\ Before(d)' /\ After(d)' /\ Known(d)'
  <2>1. Asked(d) /\ Before(d) /\ After(d) /\ Known(d)  BY DEF Inv, Callers
  <2>2. At(d)' = At(d)  BY DEF At
  <2>3. CASE Active(d)
    <3>1. At(d) \in Session \ {s}
      BY <2>3, CurrentConnection DEF Active, Inv, Typed
    <3>2. /\ request'[At(d)] = request[At(d)] /\ reply'[At(d)] = reply[At(d)]
          /\ LiveSession(At(d))' <=> LiveSession(At(d))
      BY <2>2, <3>1 DEF LiveSession
    <3>3. Asked(d)'  BY <2>1, <2>2, <2>3, <3>2 DEF Asked, Active, StatementAt
    <3>4. Before(d)'  BY <2>1, <2>2, <2>3, <3>2 DEF Before, Active, Ready, RecordOf
    <3>5. After(d)'  BY <2>1, <2>2, <2>3, <3>2 DEF After, Active, Ready, RecordOf
    <3>6. Known(d)'  BY <2>1, <2>2, <2>3, <3>2 DEF Known, Active, RecordOf
    <3> QED  BY <3>3, <3>4, <3>5, <3>6
  <2>4. CASE ~Active(d)
    BY <2>1, <2>2, <2>4 DEF Asked, Before, After, Known, Active, RecordOf
  <2> QED  BY <2>3, <2>4
<1> QED  BY <1>1, <1>2, <1>3

LEMMA SubmitStep ==
  ASSUME Inv, NEW c \in Client, Submit(c)
  PROVE  Unused' /\ Based' /\ Complete(durable)' /\ Sessions' /\ Callers'
<1>0. PICK s \in Session : s = <<c, conn[c] + 1>>  BY SubmitFacts DEF Inv
<1>1. /\ conn' = [conn EXCEPT ![c] = conn[c] + 1]
      /\ s \in Session /\ At(c)' = s
      /\ \A d \in Client : d # c => conn'[d] = conn[d] /\ pc'[d] = pc[d]
      /\ UNCHANGED <<wants, answer>>
  BY <1>0, SubmitFacts DEF Inv, Submit
<1>2. conn \in [Client -> Nat] /\ pc \in [Client -> Point]
  BY DEF Inv, Typed, ClientTypes
<1>3. s[1] = c /\ s[2] = conn[c] + 1  BY <1>0
<1>4. handler[s] = "none" /\ request[s] = None /\ reply[s] = None
  BY <1>1, <1>2, <1>3 DEF Inv, Unused
<1>5. s \notin inside
  BY <1>1, <1>4 DEF Inv, Turn, SerialTransactions
<1>6. /\ UNCHANGED <<inside, durable, working, request, reply>>
      /\ \A t \in Session \ {s} : handler'[t] = handler[t]
      /\ \/ pc'[c] = "check"
         \/ pc'[c] = "failed" /\ UNCHANGED handler
  BY <1>0, <1>1, <1>2 DEF Submit, Connect, serviceVars, Goes, Inv, Typed, ServiceTypes
<1>7. /\ Based' /\ Complete(durable)'
      /\ \A t \in Session \ {s} : Pending(t)'
      /\ \A d \in Client \ {c} : Asked(d)' /\ Before(d)' /\ After(d)' /\ Known(d)'
  BY <1>1, <1>3, <1>6, CallerFrame
<1>8. Unused'
  <2> SUFFICES ASSUME NEW t \in Session, t[2] > conn'[t[1]]
               PROVE  handler'[t] = "none" /\ request'[t] = None /\ reply'[t] = None
    BY DEF Unused
  <2>1. t[1] \in Client /\ t[2] \in Nat /\ t # s /\ t[2] > conn[t[1]]
    <3>1. t[1] \in Client /\ t[2] \in Nat  BY Connections, SubmissionBounds
    <3>2. CASE t[1] = c  BY <1>1, <1>2, <1>3, <3>1, <3>2
    <3>3. CASE t[1] # c  BY <1>1, <1>3, <3>1, <3>3
    <3> QED  BY <3>2, <3>3
  <2> QED  BY <1>6, <2>1 DEF Inv, Unused
<1>9. Pending(s)'  BY <1>4, <1>6 DEF Pending
<1>10. Asked(c)' /\ Before(c)' /\ After(c)' /\ Known(c)'
  <2>1. CASE pc'[c] = "check"
    <3>1. Ready(s, "check")'  BY <1>5, <1>6 DEF Ready
    <3> QED
      BY <1>1, <1>4, <1>6, <2>1, <3>1 DEF Asked, Before, After, Known
  <2>2. CASE pc'[c] = "failed"
    BY <2>2 DEF Asked, Before, After, Known, Active, Final
  <2> QED  BY <1>6, <2>1, <2>2
<1> QED  BY <1>7, <1>8, <1>9, <1>10 DEF Sessions, Callers

LEMMA AskStep ==
  ASSUME Inv, NEW c \in Client, Ask(c)
  PROVE  Unused' /\ Based' /\ Complete(durable)' /\ Sessions' /\ Callers'
<1> DEFINE st == StatementAt(c)
<1>0. PICK s \in Session : s = At(c)  BY CurrentConnection DEF Ask, Inv, Typed
<1>1. s \in Session /\ s[1] = c /\ s[2] = conn[c]
  BY <1>0, CurrentConnection DEF Ask, Inv, Typed
<1>2. /\ Active(c)
      /\ request[s] = None /\ reply[s] = None
      /\ request' = [request EXCEPT ![s] = st]
      /\ UNCHANGED <<handler, inside, durable, working, reply, wants, pc, conn, answer>>
  BY <1>0 DEF Ask, Send, Awaits, clientVars, Active
<1>3. /\ request'[s] = st
      /\ \A t \in Session \ {s} : request'[t] = request[t]
  BY <1>1, <1>2 DEF Inv, Typed, ServiceTypes
<1>4. At(c)' = s  BY <1>0, <1>2 DEF At
<1>5. /\ Based' /\ Complete(durable)'
      /\ \A t \in Session \ {s} : Pending(t)'
      /\ \A d \in Client \ {c} : Asked(d)' /\ Before(d)' /\ After(d)' /\ Known(d)'
  BY <1>1, <1>2, <1>3, CallerFrame
<1>6. Unused'
  <2>1. ~(s[2] > conn[s[1]])
    BY <1>1 DEF Inv, Typed, ClientTypes
  <2> QED  BY <1>2, <1>3, <2>1 DEF Inv, Unused
<1>7. Before(c) /\ Known(c)  BY DEF Inv, Callers
<1>8. Pending(s)'
  <2> SUFFICES ASSUME LiveSession(s)'
               PROVE  /\ st.op # "select" => Ready(s, st.op)
                      /\ st.op = "record" => st.row = RecordOf(s, s)
                      /\ st.op = "run" => st.row = RunOf(s)
    BY <1>2, <1>3 DEF Pending, Ready, RecordOf, RunOf
  <2>1. LiveSession(s)  BY <1>2 DEF LiveSession
  <2>2. Ready(s, pc[c])  BY <1>0, <1>2, <1>7, <2>1 DEF Before
  <2>3. pc[c] \in {"check", "recheck", "begin", "commit", "rollback", "record", "run"}
    BY <1>2 DEF Active, Inv, Typed, ClientTypes, Point, Final
  <2>4. CASE pc[c] \in {"check", "recheck"}
    BY <1>2, <2>4, StatementTypes DEF Say, Active, Inv, Typed
  <2>5. CASE pc[c] \in {"begin", "commit", "rollback"}
    BY <1>2, <2>2, <2>5, StatementTypes DEF Say, Active, Inv, Typed
  <2>6. CASE pc[c] = "record"
    BY <1>0, <1>1, <1>2, <2>2, <2>6, StatementTypes DEF RecordOf, Active, Inv, Typed
  <2>7. CASE pc[c] = "run"
    BY <1>0, <1>1, <1>2, <2>2, <2>7, StatementTypes DEF RunOf, Active, Inv, Typed
  <2> QED  BY <2>3, <2>4, <2>5, <2>6, <2>7
<1>9. Asked(c)' /\ Before(c)' /\ After(c)' /\ Known(c)'
  <2>1. st' = st  BY <1>2, <1>4 DEF StatementAt
  <2>2. Asked(c)'  BY <1>2, <1>3, <1>4, <2>1 DEF Asked
  <2>3. Before(c)'
    BY <1>0, <1>2, <1>4, <1>7 DEF Before, Active, LiveSession, Ready, RecordOf
  <2>4. After(c)' /\ Known(c)'
    BY <1>0, <1>2, <1>4 DEF After, Known, Active, Final
  <2> QED  BY <2>2, <2>3, <2>4
<1> QED  BY <1>5, <1>6, <1>8, <1>9 DEF Sessions, Callers

LEMMA LosesStep ==
  ASSUME Inv, NEW c \in Client, Loses(c)
  PROVE  Unused' /\ Based' /\ Complete(durable)' /\ Sessions' /\ Callers'
<1>1. At(c) \in Session /\ At(c)[1] = c
  BY CurrentConnection DEF Loses, Inv, Typed
<1>2. /\ UNCHANGED <<handler, inside, durable, working, request, reply, wants, conn>>
      /\ pc'[c] = "failed"
      /\ \A d \in Client \ {c} : pc'[d] = pc[d] /\ answer'[d] = answer[d]
  BY DEF Loses, Goes, serviceVars, Inv, Typed, ClientTypes
<1>3. /\ Based' /\ Complete(durable)'
      /\ \A d \in Client \ {c} : Asked(d)' /\ Before(d)' /\ After(d)' /\ Known(d)'
  BY <1>1, <1>2, CallerFrame
<1>4. Unused'  BY <1>2 DEF Inv, Unused
<1>5. Sessions'
  BY <1>2 DEF Inv, Sessions, Pending, LiveSession, Ready, RecordOf, RunOf
<1>6. Asked(c)' /\ Before(c)' /\ After(c)' /\ Known(c)'
  BY <1>2 DEF Asked, Before, After, Known, Active, Final
<1> QED  BY <1>3, <1>4, <1>5, <1>6 DEF Callers

\* Where a caller may go with what its session has done, and whom it names.
Fits(c, point, run) ==
  /\ point \notin Final \cup {"idle"} /\ LiveSession(At(c)) =>
       /\ Ready(At(c), point)
       /\ point = "commit" => RecordOf(At(c), run) \in working[At(c)].records
  /\ point = "done" => RecordOf(At(c), run) \in durable.records

LEMMA ReadsFits ==
  ASSUME Inv, NEW c \in Client, Reads(c)
  PROVE  Fits(c, pc'[c], answer'[c])
<1> DEFINE s == At(c)
           seen == reply[s].seen
<1>1. /\ s \in Session /\ s[1] = c
      /\ reply[s] \in Reply /\ seen \in Tables
  BY ReadsFrame DEF Inv
<1>2. /\ Active(c) /\ reply[s] # None
      /\ After(c) /\ Known(c)
  BY DEF Reads, Active, Inv, Callers
<1>3. wants[c].of # Apart => wants[c].op = "supervisor"
  BY Wanted DEF Inv, Typed
<1>4. /\ \A p : Goes(c, p) => pc'[c] = p
      /\ \A run : Told(c, run) => answer'[c] = run
      /\ UNCHANGED answer => answer'[c] = answer[c]
  BY DEF Goes, Told, Inv, Typed, ClientTypes
<1>5. ASSUME pc'[c] \in {"failed", "rejected", "rollback"}
      PROVE  Fits(c, pc'[c], answer'[c])
  BY <1>5 DEF Fits, Final, Ready
<1>6. ASSUME NEW run \in Replays(c, seen), ~Reused(c, seen)
      PROVE  RecordOf(s, run) \in seen.records
  BY <1>1, <1>6, ReplayTypes DEF RecordOf, Inv, Typed
<1>7. CASE ReadBusy(c)
  <2>1. LiveSession(s) => s \notin inside
    BY <1>2, <1>7 DEF ReadBusy, After
  <2>2. pc'[c] \in {"check", "failed"}  BY <1>4, <1>7 DEF ReadBusy
  <2>3. CASE pc'[c] = "check"  BY <2>1, <2>3 DEF Fits, Ready
  <2> QED  BY <1>5, <2>2, <2>3
<1>8. ASSUME reply[s].verdict # "busy", ReadCheck(c)
      PROVE  Fits(c, pc'[c], answer'[c])
  <2>1. /\ LiveSession(s) => s \notin inside
        /\ seen.records \subseteq durable.records
    BY <1>2, <1>8 DEF ReadCheck, After, Known
  <2>2. \/ pc'[c] = "rejected"
        \/ /\ pc'[c] = "done" /\ ~Reused(c, seen)
           /\ answer'[c] \in Replays(c, seen)
        \/ pc'[c] = "begin"
    BY <1>4, <1>8 DEF ReadCheck
  <2>3. CASE pc'[c] = "done" /\ ~Reused(c, seen) /\ answer'[c] \in Replays(c, seen)
    <3>1. RecordOf(s, answer'[c]) \in durable.records  BY <1>6, <2>1, <2>3
    <3> QED  BY <2>3, <3>1 DEF Fits, Final
  <2>4. CASE pc'[c] = "begin"  BY <2>1, <2>4 DEF Fits, Ready
  <2> QED  BY <1>5, <2>2, <2>3, <2>4
<1>9. ASSUME reply[s].verdict # "busy", Recheck(c)
      PROVE  Fits(c, pc'[c], answer'[c])
  <2>1. LiveSession(s) => s \in inside /\ Complete(working[s]) /\ seen = working[s]
    BY <1>2, <1>9 DEF Recheck, After, Ready
  <2>2. \/ pc'[c] = "rollback"
        \/ /\ pc'[c] = "commit" /\ ~Reused(c, seen)
           /\ answer'[c] \in Replays(c, seen)
        \/ pc'[c] = "record" /\ wants[c].op # "supervisor"
        \/ pc'[c] = "record" /\ \A w \in seen.runs : ~(w.of = wants[c].of /\ w.of # Apart)
    BY <1>4, <1>9 DEF Recheck, Raises
  <2>3. CASE pc'[c] = "commit" /\ ~Reused(c, seen) /\ answer'[c] \in Replays(c, seen)
    <3>1. RecordOf(s, answer'[c]) \in seen.records  BY <1>6, <2>3
    <3> QED  BY <2>1, <2>3, <3>1 DEF Fits, Ready
  <2>4. CASE pc'[c] = "record" /\ wants[c].op # "supervisor"
    BY <1>1, <1>3, <2>1, <2>4 DEF Fits, Ready, Free
  <2>5. CASE pc'[c] = "record" /\ \A w \in seen.runs : ~(w.of = wants[c].of /\ w.of # Apart)
    BY <1>1, <2>1, <2>5 DEF Fits, Ready, Free
  <2> QED  BY <1>5, <2>2, <2>3, <2>4, <2>5
<1>10. ASSUME reply[s].verdict # "busy", ReadInside(c)
       PROVE  Fits(c, pc'[c], answer'[c])
  <2>1. CASE Recheck(c)  BY <1>9, <1>10, <2>1
  <2>2. CASE pc[c] = "begin" /\ Goes(c, AfterBegin(c))
    <3>1. LiveSession(s) => s \in inside /\ Complete(working[s])
      BY <1>2, <1>10, <2>2 DEF After, Ready
    <3>2. \/ pc'[c] = "recheck"
          \/ pc'[c] = "record" /\ wants[c].of = Apart
      BY <1>3, <1>4, <2>2 DEF AfterBegin
    <3> QED  BY <1>1, <3>1, <3>2 DEF Fits, Ready, Free
  <2>3. CASE /\ pc[c] = "record"
             /\ \/ pc'[c] = "rollback"
                \/ reply[s].verdict # "integrity" /\ pc'[c] = "run"
    <3>1. CASE reply[s].verdict # "integrity" /\ pc'[c] = "run"
      BY <1>2, <1>10, <2>3, <3>1 DEF After, Fits
    <3> QED  BY <1>5, <2>3, <3>1
  <2>4. CASE pc[c] = "run" /\ pc'[c] = "commit" /\ answer'[c] = s
    BY <1>2, <1>10, <2>4 DEF After, Fits
  <2> QED  BY <1>4, <1>10, <2>1, <2>2, <2>3, <2>4 DEF ReadInside, KeyTaken, Raises
<1>11. ASSUME reply[s].verdict # "busy", ReadEnd(c)
       PROVE  Fits(c, pc'[c], answer'[c])
  <2>1. CASE pc[c] = "commit"
    <3>1. pc'[c] = "done" /\ answer'[c] = answer[c]  BY <1>4, <1>11, <2>1 DEF ReadEnd
    <3>2. RecordOf(s, answer[c]) \in durable.records  BY <1>2, <1>11, <2>1 DEF Known
    <3> QED  BY <3>1, <3>2 DEF Fits, Final
  <2>2. CASE pc[c] = "rollback"
    <3>1. pc'[c] = after[c]  BY <1>4, <1>11, <2>2 DEF ReadEnd
    <3>2. after[c] \in {"failed", "rejected", "check"}  BY DEF Inv, Typed, ClientTypes
    <3>3. CASE after[c] = "check"
      <4>1. LiveSession(s) => s \notin inside  BY <1>2, <1>11, <2>2 DEF After
      <4> QED  BY <3>1, <3>3, <4>1 DEF Fits, Ready
    <3> QED  BY <1>5, <3>1, <3>2, <3>3
  <2> QED  BY <1>11, <2>1, <2>2 DEF ReadEnd
<1> QED  BY <1>7, <1>8, <1>10, <1>11 DEF Reads

LEMMA ReadsStep ==
  ASSUME Inv, NEW c \in Client, Reads(c)
  PROVE  Unused' /\ Based' /\ Complete(durable)' /\ Sessions' /\ Callers'
<1>0. PICK s \in Session : s = At(c)  BY ReadsFrame DEF Inv
<1>1. /\ s[1] = c /\ s[2] = conn[c]
      /\ reply' = [reply EXCEPT ![s] = None]
      /\ UNCHANGED <<handler, inside, durable, working, request, wants, conn>>
      /\ \A d \in Client : d # c => pc'[d] = pc[d] /\ answer'[d] = answer[d]
  BY <1>0, ReadsFrame DEF Inv
<1>2. /\ reply'[s] = None
      /\ \A t \in Session \ {s} : reply'[t] = reply[t]
  BY <1>1 DEF Inv, Typed, ServiceTypes
<1>3. request[s] = None
  BY <1>0 DEF Reads, Inv, Callers, Asked, Active
<1>4. At(c)' = s  BY <1>0, <1>1 DEF At
<1>5. /\ Based' /\ Complete(durable)'
      /\ \A t \in Session \ {s} : Pending(t)'
      /\ \A d \in Client \ {c} : Asked(d)' /\ Before(d)' /\ After(d)' /\ Known(d)'
  BY <1>1, <1>2, CallerFrame
<1>6. Unused'  BY <1>1, <1>2 DEF Inv, Unused
<1>7. Pending(s)'  BY <1>1, <1>3 DEF Pending
<1>8. Fits(c, pc'[c], answer'[c])  BY ReadsFits
<1>9. LiveSession(s)' <=> LiveSession(s)  BY <1>1 DEF LiveSession
<1>10. Before(c)'
  BY <1>0, <1>1, <1>4, <1>8, <1>9 DEF Before, Active, Fits, Ready, RecordOf
<1>11. Known(c)'
  BY <1>0, <1>1, <1>2, <1>4, <1>8 DEF Known, Fits, RecordOf
<1>12. Asked(c)' /\ After(c)'
  BY <1>1, <1>2, <1>3, <1>4 DEF Asked, After
<1> QED  BY <1>5, <1>6, <1>7, <1>10, <1>11, <1>12 DEF Sessions, Callers

-----------------------------------------------------------------------------
(* The theorems. *)

LEMMA InvInit ==
  ASSUME Init
  PROVE  Inv
<1>1. Typed /\ Turn  BY InitTyped
<1>2. Unused /\ Based /\ Complete(durable)
  BY DEF Init, ServiceInit, Unused, Based, Empty, Complete, UniqueKeys, EveryRun,
         OneInTalk, Stored
<1>3. Sessions  BY DEF Init, ServiceInit, Sessions, Pending
<1>4. Callers
  BY DEF Init, Callers, Asked, Before, After, Known, Active
<1> QED  BY <1>1, <1>2, <1>3, <1>4 DEF Inv

LEMMA InvStep ==
  ASSUME Inv, [Next]_vars
  PROVE  Inv'
<1>1. Typed' /\ Turn'  BY TypedStep, TurnStep DEF Inv
<1> DEFINE Rest == Unused /\ Based /\ Complete(durable) /\ Sessions /\ Callers
<1>2. CASE UNCHANGED clientVars /\ \E s \in Session : Thread(s)
  <2>1. ASSUME NEW s \in Session, Thread(s) PROVE Rest'
    BY <1>2, <2>1, QuietSteps, GiveUpStep, ExecuteStep DEF Thread
  <2> QED  BY <1>1, <1>2, <2>1 DEF Inv
<1>3. CASE UNCHANGED clientVars /\ (Stop \/ Start \/ \E s \in Session : Drop(s))
  BY <1>1, <1>3, QuietSteps DEF Inv
<1>4. ASSUME NEW c \in Client, Caller(c) PROVE Inv'
  BY <1>1, <1>4, SubmitStep, AskStep, ReadsStep, LosesStep DEF Caller, Inv
<1>5. CASE UNCHANGED vars
  <2>1. UNCHANGED <<durable, request, reply, clientVars, inside, working, handler>>
    BY <1>5 DEF vars, serviceVars
  <2>2. Rest'  BY <2>1, QuietFrame DEF LiveSession
  <2> QED  BY <1>1, <2>2 DEF Inv
<1> QED  BY <1>2, <1>3, <1>4, <1>5 DEF Next, Service

\* The invariant holds throughout; the theorems below are parts of it.
THEOREM Invariance == Spec => []Inv
<1>1. Init => Inv  BY InvInit
<1>2. Inv /\ [Next]_vars => Inv'  BY InvStep
<1> QED  BY <1>1, <1>2, PTL DEF Spec

\* Transactions do not overlap, whoever waits, gives up, hangs or is lost: what
\* the scheduler's queue, its release and the end of a session in the SQLite
\* service amount to.
THEOREM TransactionsAreSerial == Spec => []SerialTransactions
<1>1. Inv => SerialTransactions  BY DEF Inv, Turn
<1> QED  BY <1>1, Invariance, PTL

\* A request leads to one Run at most, for every number of callers, of
\* submissions, of retries and of lost connections and restarts: the record of
\* the key and the Run are committed together, the second look or the unique
\* key stops who comes later, and whoever is told a Run is told the one that
\* is committed for its own request.
THEOREM OneRunForARequest == Spec => []OneRunEach
<1>1. Inv => OneRunEach  BY InvariantImplies
<1> QED  BY <1>1, Invariance, PTL

-----------------------------------------------------------------------------
(* The queue of the scheduler: who waits has one ticket in it.               *)

Queue ==
  /\ waiters \in Seq(Session)
  /\ \A i, k \in DOMAIN waiters : waiters[i] = waiters[k] => i = k
  /\ \A s \in Session : handler[s] = "waiting" <=> \E i \in DOMAIN waiters : waiters[i] = s

\* Faults and retries are bounded.
Counted ==
  /\ up \in BOOLEAN
  /\ faults \in 0..MaxFaults
  /\ tries \in [Client -> 0..(MaxTries - 1)]

\* A queue without one of its elements.
LEMMA Without ==
  ASSUME NEW S, NEW q \in Seq(S), NEW i \in DOMAIN q
  PROVE  /\ RemoveAt(q, i) \in Seq(S)
         /\ DOMAIN RemoveAt(q, i) = 1..(Len(q) - 1)
         /\ \A k \in 1..(Len(q) - 1) :
              RemoveAt(q, i)[k] = IF k < i THEN q[k] ELSE q[k + 1]
<1> DEFINE a == SubSeq(q, 1, i - 1)
           b == SubSeq(q, i + 1, Len(q))
<1>1. Len(q) \in Nat /\ i \in 1..Len(q)
  OBVIOUS
<1>2. a \in Seq(S) /\ Len(a) = i - 1 /\ \A k \in 1..(i - 1) : a[k] = q[k]
  BY <1>1
<1>3. b \in Seq(S) /\ Len(b) = Len(q) - i /\ \A k \in 1..(Len(q) - i) : b[k] = q[i + k]
  BY <1>1
<1> HIDE DEF a, b
<1>4. /\ a \o b \in Seq(S) /\ Len(a \o b) = Len(q) - 1
      /\ \A k \in 1..(Len(q) - 1) : (a \o b)[k] = IF k < i THEN a[k] ELSE b[k - (i - 1)]
  BY <1>1, <1>2, <1>3
<1>5. ASSUME NEW k \in 1..(Len(q) - 1)
      PROVE  (a \o b)[k] = IF k < i THEN q[k] ELSE q[k + 1]
  <2>1. CASE k < i
    <3>1. k \in 1..(i - 1)  BY <1>1, <2>1
    <3> QED  BY <1>2, <1>4, <2>1, <3>1
  <2>2. CASE ~(k < i)
    <3>1. k - (i - 1) \in 1..(Len(q) - i) /\ i + (k - (i - 1)) = k + 1  BY <1>1, <2>2
    <3>2. b[k - (i - 1)] = q[k + 1]  BY <1>3, <3>1
    <3> QED  BY <1>4, <2>2, <3>2
  <2> QED  BY <2>1, <2>2
<1>6. RemoveAt(q, i) = a \o b
  BY DEF RemoveAt, a, b
<1>7. DOMAIN (a \o b) = 1..(Len(q) - 1)
  BY <1>4
<1> QED  BY <1>4, <1>5, <1>6, <1>7

\* A session leaves the queue and goes on.
LEMMA LeavesQueue ==
  ASSUME Typed, Queue, NEW s \in Session, Leaves(s), NEW h, h # "waiting",
         handler' = [handler EXCEPT ![s] = h]
  PROVE  Queue'
<1>1. PICK i \in DOMAIN waiters : waiters[i] = s /\ waiters' = RemoveAt(waiters, i)
  BY DEF Leaves
<1>2. PICK n \in Nat : n = Len(waiters) /\ DOMAIN waiters = 1..n
  BY DEF Queue
<1>3. PICK t : t = RemoveAt(waiters, i)
  OBVIOUS
<1>4. /\ t \in Seq(Session) /\ DOMAIN t = 1..(n - 1)
      /\ \A k \in 1..(n - 1) : t[k] = IF k < i THEN waiters[k] ELSE waiters[k + 1]
  BY <1>2, <1>3, Without DEF Queue
<1>5. \A k \in 1..n : k = i \/ (k < i /\ k \in 1..(n - 1))
                            \/ (k > i /\ k - 1 \in 1..(n - 1) /\ ~(k - 1 < i) /\ (k - 1) + 1 = k)
  BY <1>2
<1>6. \A k \in 1..(n - 1) : k \in 1..n /\ k + 1 \in 1..n
  BY <1>2
<1> DEFINE p(k) == IF k < i THEN k ELSE k + 1
<1>7. \A k \in 1..(n - 1) : p(k) \in 1..n /\ p(k) # i /\ t[k] = waiters[p(k)]
  BY <1>2, <1>4, <1>6
<1>8. \A k, m \in 1..(n - 1) : p(k) = p(m) => k = m
  BY <1>2
<1>9. \A k, m \in 1..n : waiters[k] = waiters[m] => k = m
  <2>1. \A k, m \in DOMAIN waiters : waiters[k] = waiters[m] => k = m  BY DEF Queue
  <2> QED  BY <1>2, <2>1, Zenon
<1> HIDE DEF p
<1>10. \A k, m \in 1..(n - 1) : t[k] = t[m] => k = m
  BY <1>7, <1>8, <1>9
<1>11. \A k \in 1..(n - 1) : t[k] # s
  BY <1>1, <1>2, <1>7, <1>9
<1>12. ASSUME NEW r \in Session, r # s
      PROVE  (\E k \in DOMAIN waiters : waiters[k] = r) <=> (\E k \in DOMAIN t : t[k] = r)
  <2>1. ASSUME NEW k \in 1..n, waiters[k] = r
        PROVE  \E m \in 1..(n - 1) : t[m] = r
    <3>1. CASE k < i
      BY <1>2, <1>4, <1>5, <2>1, <3>1
    <3>2. CASE k > i
      BY <1>2, <1>4, <1>5, <2>1, <3>2
    <3> QED  BY <1>1, <1>2, <1>12, <2>1, <3>1, <3>2
  <2>2. ASSUME NEW m \in 1..(n - 1), t[m] = r
        PROVE  \E k \in 1..n : waiters[k] = r
    BY <1>4, <1>6, <2>2
  <2> QED  BY <1>2, <1>4, <2>1, <2>2
<1>13. \A r \in Session : handler'[r] = "waiting" <=> \E k \in DOMAIN t : t[k] = r
  BY <1>4, <1>11, <1>12 DEF Queue, Typed, ServiceTypes
<1>14. waiters' = t  BY <1>1, <1>3
<1> QED  BY <1>4, <1>10, <1>13, <1>14 DEF Queue

\* Nobody comes or goes.
LEMMA SameQueue ==
  ASSUME Queue, waiters' = waiters,
         \A s \in Session : handler'[s] = "waiting" <=> handler[s] = "waiting"
  PROVE  Queue'
BY DEF Queue

\* A session queues up at the end.
LEMMA JoinsQueue ==
  ASSUME Typed, Queue, NEW s \in Session, handler[s] # "waiting",
         waiters' = Append(waiters, s), handler' = [handler EXCEPT ![s] = "waiting"]
  PROVE  Queue'
<1>1. PICK n \in Nat : n = Len(waiters) /\ DOMAIN waiters = 1..n
  BY DEF Queue
<1>2. PICK t : t = Append(waiters, s)
  OBVIOUS
<1>3. t \in Seq(Session) /\ DOMAIN t = 1..(n + 1) /\ t[n + 1] = s
      /\ \A k \in 1..n : t[k] = waiters[k]
  BY <1>1, <1>2 DEF Queue
<1>4. \A k \in 1..(n + 1) : k = n + 1 \/ k \in 1..n
  BY <1>1
<1>5. \A k \in 1..n : waiters[k] # s
  BY <1>1 DEF Queue
<1>6. \A k, m \in 1..n : waiters[k] = waiters[m] => k = m
  <2>1. \A k, m \in DOMAIN waiters : waiters[k] = waiters[m] => k = m  BY DEF Queue
  <2> QED  BY <1>1, <2>1, Zenon
<1>7. ASSUME NEW k \in 1..(n + 1), NEW m \in 1..(n + 1), t[k] = t[m]
      PROVE  k = m
  <2>1. CASE k \in 1..n /\ m \in 1..n  BY <1>3, <1>7, <1>6, <2>1
  <2>2. CASE k \in 1..n /\ m = n + 1  BY <1>3, <1>5, <1>7, <2>2
  <2>3. CASE k = n + 1 /\ m \in 1..n  BY <1>3, <1>5, <1>7, <2>3
  <2> QED  BY <1>4, <2>1, <2>2, <2>3
<1>8. ASSUME NEW r \in Session
      PROVE  handler'[r] = "waiting" <=> \E k \in 1..(n + 1) : t[k] = r
  <2>1. n + 1 \in 1..(n + 1) /\ \A k \in 1..n : k \in 1..(n + 1)
    BY <1>1
  <2>2. CASE r = s  BY <1>3, <2>1, <2>2 DEF Typed, ServiceTypes
  <2>3. CASE r # s
    <3>1. handler'[r] = handler[r]  BY <2>3 DEF Typed, ServiceTypes
    <3>2. (\E k \in 1..(n + 1) : t[k] = r) <=> (\E k \in 1..n : waiters[k] = r)
      BY <1>3, <1>4, <2>1, <2>3
    <3> QED  BY <1>1, <3>1, <3>2 DEF Queue
  <2> QED  BY <2>2, <2>3
<1>9. waiters' = t  BY <1>2
<1>10. waiters' \in Seq(Session) /\ DOMAIN waiters' = 1..(n + 1)  BY <1>3, <1>9
<1>11. \A i, k \in DOMAIN waiters' : waiters'[i] = waiters'[k] => i = k
  BY <1>7, <1>9, <1>10
<1>12. \A r \in Session : handler'[r] = "waiting" <=> \E k \in DOMAIN waiters' : waiters'[k] = r
  BY <1>8, <1>9, <1>10
<1> QED  BY <1>10, <1>11, <1>12 DEF Queue

LEMMA ThreadQueue ==
  ASSUME Typed, Queue, NEW s \in Session, Thread(s)
  PROVE  Queue'
<1>1. CASE Receive(s)
  <2>1. CASE Joins(s)  BY <1>1, <2>1, JoinsQueue DEF Receive
  <2>2. CASE ~Joins(s)  BY <1>1, <2>2, SameQueue DEF Receive, Typed, ServiceTypes
  <2> QED  BY <2>1, <2>2
<1>2. CASE Admit(s)  BY <1>2, LeavesQueue DEF Admit
<1>3. CASE GiveUp(s)  BY <1>3, LeavesQueue DEF GiveUp
<1>4. CASE Execute(s)  BY <1>4, SameQueue DEF Execute, Typed, ServiceTypes
<1>5. CASE Hangup(s) \/ IdleTimeout(s)
  BY <1>5, SameQueue DEF Hangup, IdleTimeout, Ends, Typed, ServiceTypes
<1> QED  BY <1>1, <1>2, <1>3, <1>4, <1>5 DEF Thread

LEMMA QueueStep ==
  ASSUME Inv, Queue, [Next]_vars
  PROVE  Queue'
<1> Typed  BY DEF Inv
<1>1. CASE \E s \in Session : Thread(s)  BY <1>1, ThreadQueue
<1>2. CASE Stop
  <2>1. waiters' = <<>> /\ \A s \in Session : handler'[s] # "waiting"
    BY <1>2 DEF Stop
  <2> QED  BY <2>1 DEF Queue
<1>3. CASE UNCHANGED <<waiters, handler>>
  BY <1>3, SameQueue
<1>4. CASE Start  BY <1>3, <1>4 DEF Start
<1>5. CASE \E s \in Session : Drop(s)  BY <1>3, <1>5 DEF Drop
<1>6. ASSUME NEW c \in Client, Submit(c)
      PROVE  Queue'
  <2>1. CASE UNCHANGED serviceVars  BY <1>3, <2>1 DEF serviceVars
  <2>2. CASE Connect(<<c, conn[c] + 1>>)
    <3>1. <<c, conn[c] + 1>> \in Session /\ conn[c] + 1 > conn[c]
      BY <1>6, SubmitFacts DEF Typed, ClientTypes
    <3>2. handler[<<c, conn[c] + 1>>] = "none"
      BY <3>1 DEF Inv, Unused
    <3> QED  BY <2>2, <3>1, <3>2, SameQueue DEF Connect, Typed, ServiceTypes
  <2> QED  BY <1>6, <2>1, <2>2 DEF Submit
<1>7. ASSUME NEW c \in Client, Reads(c)
      PROVE  Queue'
  <2>1. \E close \in BOOLEAN : Read(At(c), close)  BY <1>7, ReadsReply
  <2> QED  BY <1>3, <2>1 DEF Read
<1>8. CASE \E c \in Client : Ask(c) \/ Loses(c)
  BY <1>3, <1>8 DEF Ask, Send, Loses, serviceVars
<1>9. CASE UNCHANGED vars  BY <1>3, <1>9 DEF vars, serviceVars
<1> QED  BY <1>1, <1>2, <1>4, <1>5, <1>6, <1>7, <1>8, <1>9 DEF Next, Service, Caller

LEMMA CountedStep ==
  ASSUME Typed, Counted, [Next]_vars
  PROVE  Counted'
<1>1. CASE UNCHANGED <<up, faults, tries>>
  BY <1>1 DEF Counted
<1>2. CASE \E s \in Session : Thread(s) /\ UNCHANGED clientVars
  BY <1>1, <1>2 DEF Thread, Receive, Admit, GiveUp, Execute, Hangup, IdleTimeout, clientVars
<1>3. CASE UNCHANGED clientVars /\ (Stop \/ Start \/ \E s \in Session : Drop(s))
  <2>1. faults \in Nat /\ faults <= MaxFaults /\ MaxFaults \in Nat
    BY ServiceBounds DEF Counted
  <2>2. /\ tries' = tries /\ up' \in BOOLEAN
        /\ faults' = faults \/ (faults < MaxFaults /\ faults' = faults + 1)
    BY <1>3 DEF Stop, Start, Drop, Counted, clientVars
  <2>3. faults' \in 0..MaxFaults  BY <2>1, <2>2
  <2> QED  BY <2>2, <2>3 DEF Counted
<1>4. ASSUME NEW c \in Client, Submit(c)
      PROVE  Counted'
  <2>1. UNCHANGED <<up, faults>> /\ tries' = [tries EXCEPT ![c] = 0]
    BY <1>4 DEF Submit, Connect, serviceVars
  <2>2. 0 \in 0..(MaxTries - 1)  BY SubmissionBounds
  <2> QED  BY <2>1, <2>2 DEF Counted
<1>5. ASSUME NEW c \in Client, Reads(c)
      PROVE  Counted'
  <2>1. UNCHANGED <<up, faults>>
    BY <1>5 DEF Reads, ReadBusy, ReadCheck, ReadInside, ReadEnd, Read
  <2>2. CASE UNCHANGED tries  BY <2>1, <2>2 DEF Counted
  <2>3. CASE MayRetry(c) /\ tries' = [tries EXCEPT ![c] = @ + 1]
    <3>1. tries[c] + 1 \in 0..(MaxTries - 1)
      <4>1. tries[c] \in 0..(MaxTries - 1) /\ tries[c] + 1 < MaxTries
        BY <2>3 DEF MayRetry, Counted
      <4> QED  BY <4>1, SubmissionBounds
    <3> QED  BY <2>1, <2>3, <3>1 DEF Counted
  <2> QED
    BY <1>5, <2>2, <2>3 DEF Reads, ReadBusy, ReadCheck, ReadInside, ReadEnd, KeyTaken
<1>6. CASE \E c \in Client : Ask(c) \/ Loses(c)
  BY <1>1, <1>6 DEF Ask, Send, Loses, serviceVars, clientVars
<1>7. CASE UNCHANGED vars  BY <1>1, <1>7 DEF vars, serviceVars, clientVars
<1> QED  BY <1>2, <1>3, <1>4, <1>5, <1>6, <1>7 DEF Next, Service, Caller

\* Every variable of the service and its callers stays within its type, and a
\* session that waits has exactly one ticket in the queue: neither a turn that
\* is granted nor one that is given up leaves a ticket nobody waits for, which
\* would keep all behind it waiting.
THEOREM TypeCorrect == Spec => []TypeOK
<1>1. Init => Queue /\ Counted
  <2> SUFFICES ASSUME Init PROVE Queue /\ Counted  OBVIOUS
  <2>1. waiters = <<>> /\ \A s \in Session : handler[s] # "waiting"
    BY DEF Init, ServiceInit
  <2>2. Queue  BY <2>1 DEF Queue
  <2>3. 0 \in 0..MaxFaults /\ 0 \in 0..(MaxTries - 1)  BY ServiceBounds, SubmissionBounds
  <2>4. up = TRUE /\ faults = 0 /\ tries = [c \in Client |-> 0]  BY DEF Init, ServiceInit
  <2>5. Counted  BY <2>3, <2>4 DEF Counted
  <2> QED  BY <2>2, <2>5
<1>2. Inv /\ Queue /\ Counted /\ [Next]_vars => Queue' /\ Counted'
  BY QueueStep, CountedStep DEF Inv
<1>3. Inv /\ Queue /\ Counted => TypeOK
  <2> SUFFICES ASSUME Inv, Queue, Counted PROVE TypeOK  OBVIOUS
  <2>1. ASSUME NEW s \in Session
        PROVE  handler[s] = "waiting" <=> Cardinality({i \in DOMAIN waiters : waiters[i] = s}) = 1
    <3> DEFINE T == {i \in DOMAIN waiters : waiters[i] = s}
    <3>1. handler[s] = "waiting" <=> T # {}  BY DEF Queue
    <3>2. ASSUME NEW i \in T PROVE T = {i}
      BY DEF Queue
    <3>3. Cardinality({}) = 0 /\ \A i : Cardinality({i}) = 1
      BY FS_EmptySet, FS_Singleton
    <3> HIDE DEF T
    <3>4. ASSUME T = {} PROVE Cardinality(T) # 1  BY <3>3, <3>4
    <3>5. ASSUME T # {} PROVE Cardinality(T) = 1
      <4>1. PICK i : i \in T  BY <3>5
      <4>2. T = {i}  BY <3>2, <4>1
      <4> QED  BY <3>3, <4>2
    <3> QED  BY <3>1, <3>4, <3>5 DEF T
  <2>2. Typed  BY DEF Inv
  <2> QED  BY <2>1, <2>2 DEF Queue, Counted, Typed, ServiceTypes, ClientTypes, TypeOK, Final
<1>4. Spec => []Inv  BY Invariance
<1> QED  BY <1>1, <1>2, <1>3, <1>4, PTL DEF Spec
=============================================================================
