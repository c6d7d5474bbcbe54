---------------------------- MODULE EventStream ----------------------------
(***************************************************************************)
(* The event log of one Run and a browser that follows it: the rows of     *)
(* run_events, their compaction into a snapshot, the loop of the server    *)
(* that streams them and the client (runStream.ts) with its sequencer and  *)
(* its projection of the Run.                                              *)
(*                                                                         *)
(* An event is known by its sequence number; log gives its kind, and a row *)
(* never changes, so that messages and buffers hold numbers.  Time is      *)
(* abstract: an event may be compacted as soon as its Run is over.         *)
(***************************************************************************)
EXTENDS Integers, SequencesExt

CONSTANTS
  Kind,          \* event types explored, see KindAssumption
  MaxEvents,     \* bound on the length of the log
  StreamBatch,   \* batch_size of stream_run_events
  PageLimit,     \* limit of a page of events
  CompactBatch,  \* batch_size of compact_run_events
  MaxFaults      \* bound on the lost connections and failed requests

\* "end" is run.succeeded, run.failed or run.cancelled; "input.expired" is the
\* one that cancels a suspended Run, for which no such event follows.  The
\* task and step kinds are the output of a child mirrored into its parent.
OwnKinds      == {"output.delta", "output.snapshot", "end", "input.expired"}
MirroredKinds == {"workflow.step.output.delta", "supervisor.task.output.delta"}

ASSUME KindAssumption == Kind \subseteq OwnKinds \cup MirroredKinds
ASSUME SizeAssumption ==
  /\ {MaxEvents, StreamBatch, PageLimit, CompactBatch} \subseteq Nat \ {0}
  /\ MaxFaults \in Nat

VARIABLES
  log,      \* kinds of all events ever appended; next_event_sequence is Len
  rows,     \* sequence numbers of the RunEvent rows that exist
  through,  \* through_sequence of the snapshot, 0 if there is none
  saved,    \* projection in the snapshot
  server,   \* the streaming loop: "closed", "open", "ended" (all is sent)
  sent,     \* cursor of the streaming loop
  wire,     \* events sent and not yet accepted by the client
  phase,    \* what the client is doing
  cursor,   \* currentCursor of the sequencer
  pending,  \* events the sequencer holds back
  problem,  \* snapshot_through_sequence of the 410 it is recovering from
  view,     \* the projection the client shows
  faults,   \* connections lost and requests failed so far
  ideal     \* history: ideal[n + 1] is the projection after n events

logVars    == <<log, rows, through, saved, ideal>>
serverVars == <<server, sent>>
clientVars == <<phase, cursor, pending, problem, view>>
vars == <<logVars, serverVars, wire, clientVars, faults>>

Phase == {"connecting", "streaming", "filling", "recovering", "waiting", "done"}

Event(n) == [sequence |-> n, type |-> log[n]]

-----------------------------------------------------------------------------
(* The two folds of the events. *)

LastOfRun == {"end", "input.expired"}

\* Only what compaction can get wrong is kept: what the Run put out, what its
\* children did (stream_output), and whether it is over.

\* Mutant: the first event is expected at 0.
ProjectionFromZero ==
  [next |-> 0, over |-> FALSE, output |-> <<>>, children |-> <<>>]

empty_projection ==
  [next |-> 1, over |-> FALSE, output |-> <<>>, children |-> <<>>]

ChildOutput == {"workflow.step.output.delta"}

Fold(p, e, accumulated) ==
  [ next     |-> e.sequence + 1,
    over     |-> p.over \/ e.type \in LastOfRun,
    output   |-> CASE e.type = "output.delta"    -> Append(p.output, e.sequence)
                   [] e.type = "output.snapshot" -> <<e.sequence>>
                   [] OTHER                      -> p.output,
    children |-> IF e.type \in accumulated THEN Append(p.children, e.sequence)
                                           ELSE p.children ]

\* Mutant: the server forgets that a snapshot of the output replaces it.
FoldAppendsSnapshots(p, e) ==
  Fold(p, IF e.type = "output.snapshot" THEN [e EXCEPT !.type = "output.delta"]
                                        ELSE e, ChildOutput)

\* The server merges the payload of a supervisor.task event and does not
\* gather its text ...
apply_projection_event(p, e) == Fold(p, e, ChildOutput)

\* ... the client does.
applyEvent(p, e) == Fold(p, e, ChildOutput \cup {"supervisor.task.output.delta"})

Over == \E n \in 1..Len(log) : log[n] \in LastOfRun

Init ==
  /\ log = <<>> /\ rows = {}
  /\ through = 0 /\ saved = empty_projection
  /\ server = "closed" /\ sent = 0 /\ wire = <<>>
  /\ phase = "connecting" /\ cursor = 0 /\ pending = {} /\ problem = 0
  /\ view = empty_projection
  /\ faults = 0
  /\ ideal = <<empty_projection>>

-----------------------------------------------------------------------------
(* The log. *)

\* Every writer locks the row of the Run and takes the next number.  After
\* the end only mirror_child_output_event, which does not look at the status
\* of the parent, still appends.
AppendEvent(k) ==
  LET n == Len(log) + 1
  IN /\ n <= MaxEvents
     /\ Over => k \in MirroredKinds
     /\ log' = Append(log, k)
     /\ rows' = rows \cup {n}
     /\ ideal' = Append(ideal, applyEvent(ideal[n], [sequence |-> n, type |-> k]))
     /\ UNCHANGED <<through, saved, serverVars, wire, clientVars, faults>>

\* Mutant: the last compacted row is kept.
RowsFrom(n) == {m \in rows : m >= n}

RowsAfter(n) == {m \in rows : m > n}

\* One batch of n consecutive events of a Run that is over; n is what the
\* batch size and the age of the events allow.
Compact(n) ==
  LET batch == [i \in 1..n |-> through + i]
  IN /\ Over
     /\ through + n <= Len(log)
     /\ ToSet(batch) \subseteq rows
     /\ through' = through + n
     /\ saved' = FoldLeft(apply_projection_event, saved,
                          [i \in 1..n |-> Event(through + i)])
     /\ rows' = RowsAfter(through + n)
     /\ UNCHANGED <<log, ideal, serverVars, wire, clientVars, faults>>

-----------------------------------------------------------------------------
(* The server. *)

\* Mutant: a client that has the whole snapshot is sent to it again.
CompactedUpTo(after) == after <= through

\* 410 event_history_compacted.
Compacted(after) == after < through

\* The rows after a number in order, at most limit of them.
Page(after, limit) ==
  LET found == RowsAfter(after)
  IN [i \in 1..Min({limit, Cardinality(found)}) |->
        CHOOSE n \in found : Cardinality({m \in found : m <= n}) = i]

\* Mutant: the row at the cursor is taken for the next one.
SkipsOne(after) == Page(after + 1, StreamBatch)

\* _load_event_batch.
Batch(after) == Page(after, StreamBatch)

\* One turn of the loop: a batch is loaded and sent up to the first event
\* that ends the Run, after which the stream ends.  An empty batch is a turn
\* without effect.
Load ==
  LET batch == Batch(sent)
      ends  == {i \in 1..Len(batch) : log[batch[i]] = "end"}
      out   == IF ends = {} THEN batch ELSE SubSeq(batch, 1, Min(ends))
  IN /\ server = "open"
     /\ batch # <<>>
     /\ wire' = wire \o out
     /\ sent' = Last(out)
     /\ server' = IF ends = {} THEN "open" ELSE "ended"
     /\ UNCHANGED <<logVars, clientVars, faults>>

-----------------------------------------------------------------------------
(* The client. *)

CloseStream == server' = "closed" /\ sent' = 0 /\ wire' = <<>>

\* A 410, on the stream or on a page of events.
HistoryCompacted ==
  /\ phase' = "recovering"
  /\ problem' = through

Connect ==
  /\ phase = "connecting"
  /\ UNCHANGED <<logVars, cursor, pending, view, faults>>
  /\ IF Compacted(cursor)
       THEN HistoryCompacted /\ UNCHANGED <<serverVars, wire>>
       ELSE /\ phase' = "streaming"
            /\ server' = "open" /\ sent' = cursor /\ wire' = <<>>
            /\ UNCHANGED problem

\* drain: deliver what is contiguous after the cursor.
Deliver(held) ==
  LET last == Max({cursor} \cup
                  {n \in held : \A m \in cursor + 1..n : m \in held})
  IN /\ cursor' = last
     /\ view' = FoldLeft(applyEvent, view,
                         [i \in 1..(last - cursor) |-> Event(cursor + i)])
     /\ pending' = {n \in held : n > last}

\* accept returns once nothing is held back, and the loop looks at the type
\* of the event it has passed to accept.
Accepted ==
  IF pending' # {}
    THEN phase' = "filling" /\ UNCHANGED <<serverVars, wire>>
  ELSE IF log[Head(wire)] = "end"
    THEN phase' = "done" /\ CloseStream
    ELSE phase' = "streaming" /\ wire' = Tail(wire) /\ UNCHANGED serverVars

Receive ==
  /\ phase = "streaming"
  /\ wire # <<>>
  /\ Deliver(IF Head(wire) > cursor THEN pending \cup {Head(wire)} ELSE pending)
  /\ Accepted
  /\ UNCHANGED <<logVars, problem, faults>>

\* There is a gap before what is held back: fetch what is missing.  A page
\* that does not help is an error, like a failed request.
FillGap ==
  LET page == ToSet(Page(cursor, PageLimit))
  IN /\ phase = "filling"
     /\ UNCHANGED <<logVars, faults>>
     /\ IF Compacted(cursor)
          THEN /\ HistoryCompacted /\ CloseStream
               /\ UNCHANGED <<cursor, pending, view>>
        ELSE IF cursor + 1 \notin page
          THEN /\ phase' = "waiting" /\ CloseStream
               /\ pending' = pending \cup page
               /\ UNCHANGED <<cursor, view, problem>>
          ELSE Deliver(pending \cup page) /\ Accepted /\ UNCHANGED problem

\* recoverCompactedHistory: the snapshot must be the one the 410 announced,
\* but compaction may have gone on in between.
Recover ==
  /\ phase = "recovering"
  /\ UNCHANGED <<logVars, serverVars, wire, problem, faults>>
  /\ IF through = problem
       THEN /\ view' = saved
            /\ cursor' = through /\ pending' = {}
            /\ phase' = "connecting"
       ELSE phase' = "waiting" /\ UNCHANGED <<cursor, pending, view>>

\* A connection is lost or a request fails: onError, and a delay.
Fault ==
  /\ phase \in {"connecting", "streaming", "filling", "recovering"}
  /\ faults < MaxFaults
  /\ faults' = faults + 1
  /\ phase' = "waiting" /\ CloseStream
  /\ UNCHANGED <<logVars, cursor, pending, problem, view>>

Retry ==
  /\ phase = "waiting"
  /\ phase' = "connecting"
  /\ UNCHANGED <<logVars, serverVars, wire, cursor, pending, problem, view, faults>>

-----------------------------------------------------------------------------
Client == Connect \/ Receive \/ FillGap \/ Recover \/ Retry

Next ==
  \/ \E k \in Kind : AppendEvent(k)
  \/ \E n \in 1..CompactBatch : Compact(n)
  \/ Load
  \/ Client
  \/ Fault

Spec == Init /\ [][Next]_vars

\* The loop of the server polls, the promises of the client settle and its
\* delays end.  Nothing makes a Run end or be compacted.
FairSpec == Spec /\ WF_vars(Load) /\ WF_vars(Client)

-----------------------------------------------------------------------------
(* Properties. *)

Number == 1..MaxEvents
Projection ==
  [next : 1..MaxEvents + 1, over : BOOLEAN, output : Seq(Number), children : Seq(Number)]

TypeOK ==
  /\ log \in Seq(Kind) /\ Len(log) <= MaxEvents
  /\ rows \subseteq Number
  /\ through \in 0..MaxEvents
  /\ server \in {"closed", "open", "ended"}
  /\ sent \in 0..MaxEvents
  /\ wire \in Seq(Number)
  /\ phase \in Phase
  /\ cursor \in 0..MaxEvents
  /\ pending \subseteq Number
  /\ problem \in 0..MaxEvents
  /\ {view, saved} \cup ToSet(ideal) \subseteq Projection
  /\ faults \in 0..MaxFaults

\* Snapshot and rows together hold every event exactly once, so compaction
\* never meets the gap for which it would raise RuntimeError.
SnapshotMeetsRows ==
  rows = through + 1..Len(log)

\* Whatever was lost, streamed twice, buffered, compacted or restored from a
\* snapshot, the client shows what one shows that saw every event in order.
ViewIsFold ==
  view = ideal[cursor + 1]

\* An event can be missing from a stream only because it was compacted after
\* the stream was opened, so that the client always comes back through a
\* snapshot and never gives up with "gap is unresolved".
GapsAreCompacted ==
  phase = "filling" => Compacted(cursor)

\* The sequencer is never asked to go back behind its cursor, and the
\* snapshot it is sent to is still there.
RecoveryGoesForward ==
  phase = "recovering" => cursor < problem /\ problem <= through

\* A stream that waits for rows that have been compacted since: no batch will
\* ever hold an event, and nothing tells the client.
Outrun ==
  /\ phase = "streaming" /\ wire = <<>> /\ server = "open"
  /\ sent < through /\ RowsAfter(sent) = {}

\* A client learns that its Run is over, also from an expired input that does
\* not end the stream, unless compaction outruns its stream.
LearnsTheEnd ==
  Over ~> view.over \/ Outrun
=============================================================================
