------------------------- MODULE KnowledgeIndex_proofs -------------------------
(***************************************************************************)
(* Proofs about KnowledgeIndex, for every number of Runs, attempts, faults *)
(* and requests.                                                           *)
(*                                                                         *)
(* UserSteps, QueueSteps and WorkSteps say that the steps of requests, of  *)
(* the queue and of index processes keep the invariant.                    *)
(***************************************************************************)
EXTENDS KnowledgeIndex, TLAPS

-----------------------------------------------------------------------------
(* The inductive invariant. *)

\* Revisions count from one, since zero stands for none, and grow from Run to Run,
\* unless a request has used a stale row.
Numbered ==
  /\ \A k \in 1..created : revision[k] > 0
  /\ indexing = created
  /\ ~stale => \A k, l \in 1..created : k < l => revision[k] < revision[l]

\* A Run is only queued while an attempt is left, and has none before it is
\* created.
Retries ==
  \A k \in Run : /\ state[k] = "queued" => attempts[k] < MaxAttempts
                 /\ state[k] = "none" => attempts[k] = 0

\* The active revision is stored, made of the content the document has, unless
\* it was removed.
Stored ==
  /\ status = "ready" => active # 0
  /\ active # 0 /\ ~deleted =>
       \/ spoiled /\ chunks = None
       \/ \E k \in 1..created :
            /\ chunks = [by |-> k, revision |-> active, made |-> content]
            /\ rows = chunks /\ revision[k] = active

\* A process that may still store has read the content the document has.
Fresh ==
  \A j \in Process : At(j, "embed") /\ Awaited(j[1]) => proc[j].made = content

\* What a deletion has dropped stays away.
Removed == removal = "done" => chunks = None /\ rows = None

Index == Numbered /\ Stored /\ Fresh /\ Removed
IInv  == TypeOK /\ Retries /\ Index

USE IndexBounds, NoneAssumption, CascadesAssumption

LEMMA Processes ==
  ASSUME NEW j \in Process
  PROVE  j[1] \in Run /\ j[2] \in 1..MaxAttempts /\ j = <<j[1], j[2]>>
BY DEF Process

-----------------------------------------------------------------------------
(* What changes neither the document nor its tables nor any process keeps    *)
(* the index.                                                                *)

LEMMA IndexUntouched ==
  ASSUME Index, UNCHANGED <<documentVars, tableVars, created, revision, proc, stale, removal>>
  PROVE  Index'
BY DEF Index, Numbered, Stored, Fresh, Removed, documentVars, tableVars, At, Awaited, deleted

\* Nor does a process that does not come to store.
LEMMA ProcessOnly ==
  ASSUME IInv, NEW j \in Process, NEW p \in State,
         p.pc # "embed", Becomes(j, p),
         UNCHANGED <<documentVars, tableVars, created, revision, stale, removal>>
  PROVE  Index'
<1>1. Fresh'
  BY DEF IInv, Index, Fresh, TypeOK, At, Awaited, deleted, Becomes, documentVars
<1> QED
  BY <1>1 DEF IInv, Index, Numbered, Stored, Removed, deleted, documentVars, tableVars

-----------------------------------------------------------------------------
(* Requests. *)

\* A new revision is above all the document knows.
LEMMA AboveAll ==
  ASSUME NEW base \in Base
  PROVE  Above(base) \in Nat \ {0} /\ Above(base) > base.last
<1> DEFINE known == {base.active, base.pending, base.last}
           greatest(m) == \A x \in known : x <= m
<1>1. base.active \in Nat /\ base.pending \in Nat /\ base.last \in Nat
  BY DEF Base
<1>2. \E m \in known : greatest(m)
  <2>1. CASE base.active >= base.pending /\ base.active >= base.last
    BY <1>1, <2>1
  <2>2. CASE base.pending >= base.active /\ base.pending >= base.last
    BY <1>1, <2>2
  <2>3. CASE base.last >= base.active /\ base.last >= base.pending
    BY <1>1, <2>3
  <2> QED  BY <1>1, <2>1, <2>2, <2>3
<1>3. (CHOOSE m \in known : greatest(m)) \in Nat /\ base.last <= CHOOSE m \in known : greatest(m)
  BY <1>1, <1>2
<1> QED  BY <1>1, <1>3 DEF Above

LEMMA ReadIsBase == ASSUME TypeOK PROVE Read \in Base
BY DEF TypeOK, Read, Base, Run

\* A Run that is created for a content that is at least as new supersedes all
\* others.
LEMMA EnqueueKeeps ==
  ASSUME IInv, NEW next \in Nat \ {0}, Enqueue(next),
         content' \in Nat, loaded' \in [Request -> Base \cup {None, Done}],
         stale' \in BOOLEAN, ~stale' => ~stale /\ next > revision[indexing],
         UNCHANGED tableVars,
         \/ UNCHANGED <<content, active>>
         \/ active' = 0
  PROVE  IInv'
<1>1. /\ created + 1 \in Run /\ created' = created + 1 /\ created \in Run
      /\ state[created + 1] = "none"
      /\ Run = 1..MaxRuns
  BY DEF IInv, TypeOK, Enqueue, Run
<1>2. TypeOK'
  <2>1. /\ content' \in Nat /\ status' = "pending" /\ active' \in Nat
        /\ pending' \in Nat /\ indexing' \in 1..created'
        /\ spoiled' \in BOOLEAN /\ chunks' \in Rows \cup {None}
        /\ rows' \in Rows \cup {None} /\ created' \in Run
    BY <1>1 DEF IInv, TypeOK, Enqueue, tableVars
  <2>2. /\ revision' \in [Run -> Nat] /\ state' \in [Run -> RunState]
        /\ \A k \in Run : state'[k] = "none" <=> k > created'
    BY <1>1 DEF IInv, TypeOK, Enqueue, RunState
  <2>3. /\ attempts' \in [Run -> 0..MaxAttempts] /\ faults' \in 0..MaxFaults
        /\ proc' \in [Process -> State \cup {None}] /\ removal' \in Removal
        /\ \A j \in Process : proc'[j] = None <=> j[2] > attempts'[j[1]]
    BY DEF IInv, TypeOK, Enqueue
  <2> QED  BY <2>1, <2>2, <2>3 DEF TypeOK
<1>3. attempts[created + 1] = 0
  BY <1>1 DEF IInv, Retries
<1>4. Retries'
  BY <1>1, <1>3 DEF IInv, TypeOK, Retries, Enqueue
<1>5. Numbered'
  <2>1. \A k \in 1..created' : revision'[k] > 0
    BY <1>1 DEF IInv, Index, TypeOK, Numbered, Enqueue
  <2>2. ASSUME ~stale', NEW k \in 1..created', NEW l \in 1..created', k < l
        PROVE  revision'[k] < revision'[l]
    <3>1. k \in 1..created /\ revision'[k] = revision[k] /\ revision[k] \in Nat
      BY <1>1, <2>2 DEF IInv, TypeOK, Enqueue
    <3>2. revision[k] <= revision[created] /\ next > revision[created]
          /\ revision[created] \in Nat
      <4>1. ~stale /\ next > revision[created] /\ revision[created] \in Nat
        BY <1>1, <2>2 DEF IInv, Index, TypeOK, Numbered
      <4>2. created \in 1..created /\ (k < created => revision[k] < revision[created])
        BY <1>1, <3>1, <4>1 DEF IInv, Index, Numbered
      <4> QED  BY <1>1, <3>1, <4>1, <4>2
    <3>3. CASE l = created + 1
      BY <1>1, <3>1, <3>2, <3>3 DEF IInv, TypeOK, Enqueue
    <3>4. CASE l \in 1..created
      BY <1>1, <2>2, <3>1, <3>4 DEF IInv, Index, TypeOK, Numbered, Enqueue
    <3> QED  BY <1>1, <3>3, <3>4
  <2> QED  BY <2>1, <2>2 DEF Numbered, Enqueue
<1>6. Stored'
  <2>1. \A k \in 1..created : k \in 1..created' /\ revision'[k] = revision[k]
    BY <1>1 DEF IInv, TypeOK, Enqueue
  <2> QED  BY <2>1 DEF IInv, Index, Stored, Enqueue, tableVars, deleted
<1>7. Fresh'
  <2> SUFFICES ASSUME NEW j \in Process, At(j, "embed")', Awaited(j[1])'
               PROVE  FALSE
    BY DEF Fresh
  <2>1. j[1] = created + 1 /\ proc[j] # None
    BY DEF Awaited, At, Enqueue
  <2>2. j[2] > attempts[j[1]]
    BY <2>1, <1>3, Processes
  <2> QED  BY <2>1, <2>2 DEF IInv, TypeOK
<1>8. Removed'
  BY DEF IInv, Index, Removed, Enqueue, tableVars
<1> QED  BY <1>2, <1>4, <1>5, <1>6, <1>7, <1>8 DEF IInv, Index

LEMMA UserSteps ==
  ASSUME IInv, Users
  PROVE  IInv'
<1>1. ASSUME NEW q \in Request, LoadDocument(q)
      PROVE  IInv'
  <2>1. loaded' \in [Request -> Base \cup {None, Done}]
    BY <1>1, ReadIsBase DEF LoadDocument, IInv, TypeOK
  <2>2. TypeOK' /\ Retries'
    BY <1>1, <2>1 DEF LoadDocument, IInv, TypeOK, Retries, documentVars, tableVars, runVars
  <2> QED
    BY <1>1, <2>2, IndexUntouched DEF LoadDocument, IInv, runVars
<1>2. ASSUME NEW q \in Request, Reindex(q)
      PROVE  IInv'
  <2>1. loaded[q] \in Base
    BY <1>2 DEF Reindex, IInv, TypeOK
  <2>2. loaded' \in [Request -> Base \cup {None, Done}] /\ stale' \in BOOLEAN
    BY <1>2 DEF Reindex, IInv, TypeOK
  <2>3. ~stale' => ~stale /\ Above(loaded[q]) > revision[indexing]
    <3>1. Above(loaded[q]) > loaded[q].last
      BY <2>1, AboveAll
    <3>2. ~stale' => ~stale /\ loaded[q] = Read
      BY <1>2, Zenon DEF Reindex
    <3> QED  BY <3>1, <3>2 DEF Read
  <2> QED
    BY <1>2, <2>1, <2>2, <2>3, AboveAll, EnqueueKeeps DEF Reindex, IInv, TypeOK
<1>3. ASSUME Publish
      PROVE  IInv'
  <2>1. /\ content' \in Nat /\ loaded' \in [Request -> Base \cup {None, Done}]
        /\ stale' = stale /\ stale \in BOOLEAN
    BY <1>3 DEF Publish, IInv, TypeOK
  <2>2. Above(Read) \in Nat \ {0} /\ Above(Read) > revision[indexing]
    BY ReadIsBase, AboveAll DEF IInv, Read
  <2> QED
    BY <1>3, <2>1, <2>2, EnqueueKeeps DEF Publish
<1>4. ASSUME MarkDeleted \/ DropIndex
      PROVE  IInv'
  <2>1. TypeOK' /\ Retries'
    BY <1>4
    DEF MarkDeleted, DropIndex, IInv, TypeOK, Retries, documentVars, tableVars, runVars, Removal
  <2>2. Fresh' /\ Numbered'
    BY <1>4 DEF MarkDeleted, DropIndex, IInv, Index, Numbered, Fresh, At, Awaited, deleted,
                documentVars, runVars
  <2>3. Stored' /\ Removed'
    BY <1>4 DEF MarkDeleted, DropIndex, IInv, Index, Stored, Removed, deleted,
                documentVars, tableVars, runVars
  <2> QED  BY <2>1, <2>2, <2>3 DEF IInv, Index
<1> QED
  BY <1>1, <1>2, <1>3, <1>4 DEF Users

-----------------------------------------------------------------------------
(* The queue. *)

\* A Run changes its state within its life, and is queued again only with an
\* attempt left.
LEMMA StateChanges ==
  ASSUME IInv, NEW k \in Run, NEW to \in RunState \ {"none"},
         state[k] # "none", to = "queued" => attempts[k] < MaxAttempts,
         state' = [state EXCEPT ![k] = to],
         faults' \in 0..MaxFaults,
         NEW j \in Process, proc[j] # None,
         NEW p \in State, p = proc[j] \/ p.pc # "embed",
         Becomes(j, p),
         UNCHANGED <<documentVars, tableVars, created, revision, attempts, requestVars>>
  PROVE  IInv'
<1>1. TypeOK' /\ Retries'
  BY DEF IInv, TypeOK, Retries, Becomes, documentVars, tableVars, requestVars
<1>2. CASE p = proc[j]
  <2>1. UNCHANGED proc
    BY <1>2 DEF Becomes, IInv, TypeOK
  <2> QED
    BY <1>1, <2>1, IndexUntouched DEF IInv, requestVars
<1>3. CASE p.pc # "embed"
  BY <1>1, <1>3, ProcessOnly DEF IInv, requestVars
<1> QED  BY <1>2, <1>3

LEMMA FailureTarget ==
  ASSUME IInv, NEW k \in Run
  PROVE  /\ AfterFailure(k) \in RunState \ {"none"}
         /\ AfterFailure(k) = "queued" => attempts[k] < MaxAttempts
BY DEF AfterFailure, RunState

LEMMA OpenProcess ==
  ASSUME IInv, NEW j \in Process, Open(j)
  PROVE  j[1] \in Run /\ state[j[1]] # "none" /\ proc[j] # None /\ proc[j] \in State
BY Processes DEF IInv, TypeOK, Open

LEMMA LocalState ==
  ASSUME NEW pc \in Point, NEW made \in Nat
  PROVE  Local(pc, made) \in State /\ Local(pc, made).pc = pc /\ Local(pc, made).made = made
BY DEF Local, State

LEMMA GoneState == Gone \in State /\ Gone.pc # "embed"
BY LocalState DEF Gone, Point

LEMMA QueueSteps ==
  ASSUME IInv, Queue
  PROVE  IInv'
<1>1. ASSUME NEW k \in Run, Claim(k)
      PROVE  IInv'
  <2> DEFINE j == <<k, attempts[k] + 1>>
             p == Local("start", 0)
  <2>1. attempts[k] + 1 \in 1..MaxAttempts /\ j \in Process
    BY <1>1 DEF Claim, IInv, TypeOK, Retries, Process
  <2>2. p \in State /\ p.pc # "embed"
    BY LocalState DEF Point
  <2>3. /\ attempts' \in [Run -> 0..MaxAttempts] /\ state' \in [Run -> RunState]
        /\ proc' \in [Process -> State \cup {None}]
    BY <1>1, <2>1, <2>2 DEF Claim, Becomes, IInv, TypeOK, RunState
  <2>4. \A i \in Process : proc'[i] = None <=> i[2] > attempts'[i[1]]
    <3> SUFFICES ASSUME NEW i \in Process
                 PROVE  proc'[i] = None <=> i[2] > attempts'[i[1]]
      OBVIOUS
    <3>1. i[1] \in Run /\ i[2] \in 1..MaxAttempts /\ i = <<i[1], i[2]>>
      BY Processes
    <3>2. CASE i = j
      BY <1>1, <2>1, <2>2, <3>2 DEF Claim, Becomes, IInv, TypeOK
    <3>3. CASE i # j
      <4>1. proc'[i] = proc[i]
        BY <1>1, <3>3 DEF Claim, Becomes, IInv, TypeOK
      <4>2. i[1] = k => i[2] # attempts[k] + 1
        BY <3>1, <3>3
      <4> QED
        BY <1>1, <3>1, <4>1, <4>2 DEF Claim, IInv, TypeOK
    <3> QED  BY <3>2, <3>3
  <2>5. TypeOK' /\ Retries'
    BY <1>1, <2>3, <2>4 DEF Claim, IInv, TypeOK, Retries, documentVars, tableVars, requestVars
  <2>6. Index'
    BY <1>1, <2>1, <2>2, ProcessOnly DEF Claim, requestVars
  <2> QED  BY <2>5, <2>6 DEF IInv
<1>2. ASSUME NEW k \in Run, Cancel(k)
      PROVE  IInv'
  <2>1. TypeOK' /\ Retries'
    BY <1>2 DEF Cancel, Fault, IInv, TypeOK, Retries, RunState,
                documentVars, tableVars, requestVars
  <2> QED
    BY <1>2, <2>1, IndexUntouched DEF Cancel, IInv, requestVars
<1>3. ASSUME NEW j \in Process, Persist(j)
      PROVE  IInv'
  <2>1. j[1] \in Run /\ state[j[1]] # "none" /\ proc[j] # None
    BY <1>3, OpenProcess DEF Persist
  <2>2. /\ Becomes(j, Gone) /\ faults' \in 0..MaxFaults
        /\ UNCHANGED <<documentVars, tableVars, created, revision, attempts, requestVars>>
    BY <1>3 DEF Persist, IInv, TypeOK
  <2>3. ASSUME NEW to \in RunState \ {"none"}, to = "queued" => attempts[j[1]] < MaxAttempts,
               state' = [state EXCEPT ![j[1]] = to]
        PROVE  IInv'
    BY <2>1, <2>2, <2>3, GoneState, StateChanges
  <2>4. CASE At(j, "returned")
    <3>1. PICK to \in {"cancelled", "succeeded"} : state' = [state EXCEPT ![j[1]] = to]
      BY <1>3, <2>4, <2>1 DEF Persist, At, IInv, TypeOK
    <3> QED  BY <3>1, <2>3 DEF RunState
  <2>5. CASE At(j, "raised")
    <3>1. state' = [state EXCEPT ![j[1]] = AfterFailure(j[1])]
      BY <1>3, <2>5 DEF Persist, At
    <3> QED  BY <2>1, <3>1, <2>3, FailureTarget
  <2> QED  BY <1>3, <2>4, <2>5 DEF Persist
<1>4. ASSUME NEW j \in Process, Lose(j)
      PROVE  IInv'
  <2> DEFINE k == j[1]
  <2>1. k \in Run /\ state[k] # "none" /\ proc[j] # None /\ proc[j] \in State
    BY <1>4, OpenProcess DEF Lose
  <2>2. faults' \in 0..MaxFaults
    BY <1>4 DEF Lose, Fault, IInv, TypeOK
  <2>3. PICK p \in State : Becomes(j, p) /\ (p = proc[j] \/ p.pc # "embed")
    <3>1. CASE Becomes(j, Gone)
      BY <3>1, GoneState
    <3>2. CASE UNCHANGED proc
      BY <2>1, <3>2 DEF Becomes, IInv, TypeOK
    <3> QED  BY <1>4, <3>1, <3>2 DEF Lose
  <2>4. AfterFailure(k) \in RunState \ {"none"} /\ (AfterFailure(k) = "queued" => attempts[k] < MaxAttempts)
    BY <2>1, FailureTarget
  <2> QED
    BY <1>4, <2>1, <2>2, <2>3, <2>4, StateChanges DEF Lose
<1>5. ASSUME NEW j \in Process, Terminate(j)
      PROVE  IInv'
  <2>1. j[1] \in Run /\ state[j[1]] # "none" /\ proc[j] # None
    BY <1>5, OpenProcess DEF Terminate
  <2>2. "cancelled" \in RunState \ {"none"} /\ faults' \in 0..MaxFaults
    BY <1>5 DEF Terminate, RunState, IInv, TypeOK
  <2> QED
    BY <1>5, <2>1, <2>2, GoneState, StateChanges DEF Terminate
<1> QED  BY <1>1, <1>2, <1>3, <1>4, <1>5 DEF Queue

-----------------------------------------------------------------------------
(* The processes. *)

\* Types after a step of a process, whatever it writes to the document.
LEMMA WorkTypes ==
  ASSUME IInv, NEW j \in Process, proc[j] # None, NEW p \in State, Becomes(j, p),
         status' \in {"pending", "indexing", "ready", "failed"},
         active' \in Nat, pending' \in Nat, spoiled' \in BOOLEAN,
         chunks' \in Rows \cup {None}, rows' \in Rows \cup {None},
         faults' \in 0..MaxFaults,
         UNCHANGED <<content, indexing, runVars, requestVars>>
  PROVE  TypeOK' /\ Retries'
BY DEF IInv, TypeOK, Retries, Becomes, runVars, requestVars

LEMMA EndState ==
  ASSUME NEW j \in Process, NEW pc \in Point \ {"embed"}, Ends(j, pc)
  PROVE  \E p \in State : Becomes(j, p) /\ p.pc # "embed"
<1>1. Local(pc, 0) \in State /\ Local(pc, 0).pc # "embed"
  BY LocalState
<1> QED  BY <1>1, GoneState DEF Ends

LEMMA GoesState ==
  ASSUME NEW j \in Process, NEW pc \in Point \ {"embed"}, Goes(j, pc)
  PROVE  \E p \in State : Becomes(j, p) /\ p.pc # "embed"
<1>1. Local(pc, 0) \in State /\ Local(pc, 0).pc # "embed"
  BY LocalState
<1> QED  BY <1>1 DEF Goes

\* A process that gives up leaves the document ready only if a revision is
\* active, and waiting for nobody or for whom it waited.
LEMMA SettleKeeps ==
  ASSUME IInv, NEW j \in Process, proc[j] # None, NEW p \in State, p.pc # "embed",
         Becomes(j, p),
         Settle(j[1]) \/ UNCHANGED <<pending, status>>,
         faults' \in 0..MaxFaults,
         UNCHANGED <<content, active, indexing, tableVars, runVars, requestVars>>
  PROVE  IInv'
<1>1. pending' \in {0, pending} /\ (status' = "ready" => active # 0)
  BY DEF Settle, IInv, Index, Stored
<1>2. status' \in {"pending", "indexing", "ready", "failed"} /\ pending' \in Nat
  BY DEF Settle, IInv, TypeOK
<1>3. TypeOK' /\ Retries'
  BY <1>2, WorkTypes DEF IInv, TypeOK, tableVars
<1>4. Fresh'
  <2> SUFFICES ASSUME NEW i \in Process, At(i, "embed")', Awaited(i[1])'
               PROVE  proc'[i].made = content'
    BY DEF Fresh
  <2>1. i # j /\ proc'[i] = proc[i]
    BY DEF At, Becomes, IInv, TypeOK
  <2>2. i[1] = indexing /\ indexing \in 1..created /\ revision[indexing] > 0
    BY DEF Awaited, IInv, TypeOK, Index, Numbered
  <2>3. Awaited(i[1])
    BY <1>1, <2>2 DEF Awaited, deleted, runVars, requestVars
  <2> QED  BY <2>1, <2>3 DEF At, IInv, Index, Fresh
<1> QED
  BY <1>1, <1>3, <1>4
  DEF IInv, Index, Numbered, Stored, Removed, deleted, tableVars, runVars, requestVars

LEMMA FaultTypes ==
  ASSUME IInv, Fault \/ UNCHANGED faults
  PROVE  faults' \in 0..MaxFaults
BY DEF IInv, TypeOK, Fault

LEMMA WorkSteps ==
  ASSUME IInv, NEW j \in Process, Works(j)
  PROVE  IInv'
<1>0. j[1] \in Run /\ UNCHANGED <<runVars, requestVars>>
  BY Processes DEF Works
<1>1. ASSUME Start(j)
      PROVE  IInv'
  <2>1. proc[j] # None /\ faults' \in 0..MaxFaults
    BY <1>1, FaultTypes DEF Start, At
  <2>2. CASE Awaited(j[1]) /\ status' = "indexing" /\ Becomes(j, Local("embed", content))
    <3>1. Local("embed", content) \in State /\ Local("embed", content).made = content
      BY LocalState DEF IInv, TypeOK, Point
    <3>2. TypeOK' /\ Retries'
      BY <1>0, <1>1, <2>1, <2>2, <3>1, WorkTypes DEF Start, IInv, TypeOK, tableVars
    <3>3. Fresh'
      BY <1>0, <1>1, <2>1, <2>2, <3>1
      DEF Start, IInv, Index, Fresh, TypeOK, At, Awaited, deleted, Becomes, runVars, requestVars
    <3> QED
      BY <1>0, <1>1, <2>2, <3>2, <3>3
      DEF Start, IInv, Index, Numbered, Stored, Removed, deleted, tableVars, runVars, requestVars
  <2>3. CASE UNCHANGED status /\ \E pc \in {"returned", "raised"} : Ends(j, pc)
    <3>1. PICK p \in State : Becomes(j, p) /\ p.pc # "embed"
      BY <2>3, EndState DEF Point
    <3> QED
      BY <1>0, <1>1, <2>1, <2>3, <3>1, SettleKeeps DEF Start
  <2> QED  BY <1>1, <2>2, <2>3 DEF Start
<1>2. ASSUME Store(j)
      PROVE  IInv'
  <2>1. proc[j] # None /\ faults' \in 0..MaxFaults
    BY <1>2, FaultTypes DEF Store, At
  <2>2. PICK p \in State : Becomes(j, p) /\ p.pc # "embed"
    BY <1>2, <2>1, EndState, GoesState DEF Store, Point
  <2>3. CASE Awaited(j[1]) /\ Replace(j)
    <3>1. /\ proc[j].made = content /\ j[1] \in 1..created /\ revision[j[1]] > 0
          /\ revision[j[1]] \in Nat /\ content \in Nat
      BY <1>2, <2>3 DEF Store, Awaited, IInv, TypeOK, Index, Fresh, Numbered
    <3>2. TypeOK' /\ Retries'
      BY <1>0, <1>2, <2>1, <2>2, <2>3, <3>1, WorkTypes DEF Store, Replace, Rows, Awaited
    <3>3. Stored'
      BY <1>0, <1>2, <2>3, <3>1 DEF Store, Replace, Stored, runVars
    <3>4. Fresh'
      <4> SUFFICES ASSUME NEW i \in Process, Awaited(i[1])'
                   PROVE  FALSE
        BY DEF Fresh
      <4>1. i[1] = j[1] /\ revision[i[1]] = 0
        BY <1>0, <1>2, <2>3 DEF Store, Replace, Awaited, runVars
      <4> QED  BY <3>1, <4>1
    <3>5. Removed' /\ Numbered'
      BY <1>0, <1>2, <2>3
      DEF Store, Awaited, deleted, IInv, Index, Removed, Numbered, runVars, requestVars
    <3> QED  BY <3>2, <3>3, <3>4, <3>5 DEF IInv, Index
  <2>4. CASE UNCHANGED <<status, active, pending, tableVars>>
    BY <1>0, <1>2, <2>1, <2>2, <2>4, SettleKeeps DEF Store
  <2> QED  BY <1>2, <2>3, <2>4 DEF Store
<1>3. ASSUME Drop(j)
      PROVE  IInv'
  <2>1. proc[j] # None /\ faults' \in 0..MaxFaults
    BY <1>3, FaultTypes DEF Drop, At
  <2>2. PICK p \in State : Becomes(j, p) /\ p.pc # "embed"
    BY <1>3, <2>1, EndState, GoesState DEF Drop, Point
  <2> QED  BY <1>0, <1>3, <2>1, <2>2, SettleKeeps DEF Drop
<1>4. ASSUME Undo(j)
      PROVE  IInv'
  <2>1. proc[j] # None /\ faults' \in 0..MaxFaults
    BY <1>4, FaultTypes DEF Undo, At
  <2>2. PICK p \in State : Becomes(j, p) /\ p.pc # "embed"
    BY <1>4, <2>1, EndState, GoesState DEF Undo, Point
  <2>3. CASE UNCHANGED tableVars
    BY <1>0, <1>4, <2>1, <2>2, <2>3, SettleKeeps DEF Undo, documentVars
  <2>4. CASE /\ Removes(j[1]) /\ chunks' = None
             /\ rows' = IF Cascades THEN None ELSE rows
             /\ spoiled' = (spoiled \/ Excused(j[1]))
    <3>1. TypeOK' /\ Retries'
      BY <1>0, <1>4, <2>1, <2>2, <2>4, WorkTypes DEF Undo, IInv, TypeOK, documentVars
    <3>2. Stored'
      <4>1. UNCHANGED <<status, active, content, removal, created, revision>>
        BY <1>0, <1>4 DEF Undo, documentVars, runVars, requestVars
      <4>2. j[1] \in 1..created
        BY <1>0, <2>1, Processes DEF IInv, TypeOK, Retries, Run
      <4>3. ASSUME active # 0, ~deleted
            PROVE  Excused(j[1])
        <5>1. PICK k \in 1..created : /\ chunks.by = k /\ chunks.revision = active
                                      /\ revision[k] = active
          BY <2>4, <4>3 DEF Removes, IInv, Index, Stored
        <5>2. revision[j[1]] = revision[k]
          BY <2>4, <5>1 DEF Removes
        <5>3. stale \/ j[1] = k
          <6>1. revision[k] \in Nat
            BY <1>0, <5>2 DEF IInv, TypeOK
          <6>2. ~stale => \A l, m \in 1..created : l < m => revision[l] < revision[m]
            BY DEF IInv, Index, Numbered
          <6> QED  BY <4>2, <5>1, <5>2, <6>1, <6>2
        <5> QED  BY <5>1, <5>3 DEF Excused
      <4>4. active # 0 /\ ~deleted => spoiled'
        BY <2>4, <4>3
      <4> QED  BY <2>4, <4>1, <4>4 DEF IInv, Index, Stored, deleted
    <3>3. Fresh'
      BY <1>0, <1>4, <2>2
      DEF Undo, Becomes, IInv, TypeOK, Index, Fresh, At, Awaited, deleted,
          documentVars, runVars, requestVars
    <3>4. Removed' /\ Numbered'
      BY <1>0, <1>4, <2>4
      DEF Undo, IInv, Index, Removed, Numbered, documentVars, runVars, requestVars
    <3> QED  BY <3>1, <3>2, <3>3, <3>4 DEF IInv, Index
  <2> QED  BY <1>4, <2>3, <2>4 DEF Undo
<1>5. ASSUME Record(j)
      PROVE  IInv'
  <2>1. proc[j] # None /\ faults' \in 0..MaxFaults
    BY <1>5, FaultTypes DEF Record, At
  <2>2. PICK p \in State : Becomes(j, p) /\ p.pc # "embed"
    BY <1>5, EndState DEF Record, Point
  <2> QED  BY <1>0, <1>5, <2>1, <2>2, SettleKeeps DEF Record
<1> QED  BY <1>1, <1>2, <1>3, <1>4, <1>5 DEF Works

-----------------------------------------------------------------------------
(* The theorems. *)

\* The inductive invariant: what is stored, what processes still may store and
\* what a deletion has dropped agree with the row of the document.
THEOREM Invariance == Spec => []IInv
<1>1. Init => IInv
  <2> SUFFICES ASSUME Init PROVE IInv
    OBVIOUS
  <2>1. TypeOK
    <3>1. \A j \in Process : proc[j] = None <=> j[2] > attempts[j[1]]
      BY Processes DEF Init
    <3>2. /\ content \in Nat /\ active \in Nat /\ pending \in Nat /\ created \in Run
          /\ status \in {"pending", "indexing", "ready", "failed"}
          /\ indexing \in 1..created
          /\ chunks \in Rows \cup {None} /\ rows \in Rows \cup {None}
      BY DEF Init, Run
    <3>3. spoiled \in BOOLEAN /\ stale \in BOOLEAN
      BY Zenon DEF Init
    <3>4. /\ revision \in [Run -> Nat] /\ state \in [Run -> RunState]
          /\ \A k \in Run : state[k] = "none" <=> k > created
      BY DEF Init, Run, RunState
    <3>5. /\ attempts \in [Run -> 0..MaxAttempts] /\ faults \in 0..MaxFaults
          /\ proc \in [Process -> State \cup {None}]
          /\ loaded \in [Request -> Base \cup {None, Done}]
          /\ removal \in Removal
      BY DEF Init, Run, Removal
    <3> QED  BY <3>1, <3>2, <3>3, <3>4, <3>5 DEF TypeOK
  <2>2. Retries /\ Index
    BY DEF Init, Retries, Index, Numbered, Stored, Fresh, Removed, At, Run, deleted
  <2> QED  BY <2>1, <2>2 DEF IInv
<1>2. IInv /\ [Next]_vars => IInv'
  <2> SUFFICES ASSUME IInv, [Next]_vars PROVE IInv'
    OBVIOUS
  <2>1. CASE Users
    BY <2>1, UserSteps
  <2>2. CASE Queue
    BY <2>2, QueueSteps
  <2>3. ASSUME NEW j \in Process, Works(j)
        PROVE  IInv'
    BY <2>3, WorkSteps
  <2>4. CASE UNCHANGED vars
    BY <2>4, IndexUntouched
    DEF vars, IInv, TypeOK, Retries, documentVars, tableVars, runVars, requestVars
  <2> QED  BY <2>1, <2>2, <2>3, <2>4 DEF Next
<1> QED  BY <1>1, <1>2, PTL DEF Spec

\* Every variable keeps its type: no Run gets more than max_attempts, and a
\* process belongs to an attempt that was claimed.
THEOREM TypeCorrect == Spec => []TypeOK
<1>1. IInv => TypeOK
  BY DEF IInv
<1> QED  BY <1>1, Invariance, PTL

\* What a search finds of a document is made of the content the document has; a
\* document shown as ready is found, unless a process that failed has removed
\* what was stored; nothing is left of a document whose deletion went through.
THEOREM SearchIsCorrect == Spec => []IndexFollowsDocument
<1>1. IInv => IndexFollowsDocument
  <2> SUFFICES ASSUME IInv PROVE IndexFollowsDocument
    OBVIOUS
  <2>1. CASE status = "ready" /\ ~deleted
    <3>1. CASE chunks = None
      <4>1. \A k \in 1..created : [by |-> k, revision |-> active, made |-> content] \in Rows
        BY DEF IInv, TypeOK, Rows, Run
      <4>2. spoiled
        BY <2>1, <3>1, <4>1 DEF IInv, Index, Stored
      <4> QED  BY <2>1, <3>1, <4>2 DEF IInv, Index, Removed, IndexFollowsDocument, Found
    <3>2. CASE chunks # None
      BY <2>1, <3>2 DEF IInv, Index, Stored, Removed, IndexFollowsDocument, Found
    <3> QED  BY <3>1, <3>2
  <2>2. CASE ~(status = "ready" /\ ~deleted)
    BY <2>2 DEF IInv, Index, Removed, IndexFollowsDocument, Found
  <2> QED  BY <2>1, <2>2
<1> QED  BY <1>1, Invariance, PTL
=============================================================================
