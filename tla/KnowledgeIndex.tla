---------------------------- MODULE KnowledgeIndex ----------------------------
(***************************************************************************)
(* A document of a knowledge base and the Runs that index it               *)
(* (backend/apps/knowledge): requests to index it, to change it and to     *)
(* delete it, and the processes of the attempts of the index Runs, which   *)
(* write to its row and its tables themselves.                             *)
(*                                                                         *)
(* The queue is that of RunLifecycle, in outline: an attempt may be lost   *)
(* while its process goes on, and a Run that fails is tried again.  What a *)
(* process writes is not fenced by the lease.  It is fenced by the         *)
(* document, which names the revision it waits for and the Run that is to  *)
(* make it.  Any database access of a process may fail.                    *)
(***************************************************************************)
EXTENDS Integers, FiniteSets

CONSTANTS
  MaxRuns,      \* bound on the Runs created for the document
  MaxContents,  \* bound on the contents the document gets
  MaxAttempts,  \* max_attempts of a Run
  MaxFaults,    \* bound on lost attempts, failed accesses and cancels
  Request,      \* the requests to index again
  Cascades,     \* the rows of the index go with their chunks: PostgreSQL does
                \* that, SQLite does not
  None, Done    \* no rows, no process, a request not made; one that is done

Point == {"start", "embed", "undo", "record", "returned", "raised", "gone"}
State == [pc : Point, made : Nat]
Base  == [active : Nat, pending : Nat, last : Nat]

Run   == 1..MaxRuns
Rows  == [by : Run, revision : Nat, made : Nat]

ASSUME IndexBounds ==
  /\ MaxRuns \in Nat \ {0} /\ MaxAttempts \in Nat \ {0}
  /\ MaxFaults \in Nat /\ MaxContents \in Nat

ASSUME CascadesAssumption == Cascades \in BOOLEAN

ASSUME NoneAssumption ==
  None \notin Rows \cup State \cup Base /\ Done \notin Base /\ None # Done

Process == Run \X (1..MaxAttempts)

VARIABLES
  \* the row of the document
  content,   \* which content it has, by number
  status,    \* KnowledgeDocument.Status
  active,    \* active_revision
  pending,   \* pending_revision
  indexing,  \* indexing_run
  \* its tables
  chunks,    \* the chunks: the Run that stored them, their revision, and the
             \* content they are made of
  rows,      \* the same for the lexical and the vector index
  spoiled,   \* history: a process has removed what its own Run had stored, or
             \* a Run of the same revision after a stale request
  \* the Runs
  created,   \* Runs created so far
  revision,  \* [Run -> definition_snapshot.revision]
  state,     \* [Run -> RunState]
  attempts,  \* [Run -> attempts claimed]
  faults,    \* faults so far
  proc,      \* [Process -> local state, or None]
  \* requests of users
  loaded,    \* [Request -> what it has read of the document, or None or Done]
  stale,     \* history: a request has used what had changed since it was read
  removal    \* how far a deletion is

documentVars == <<content, status, active, pending, indexing>>
tableVars    == <<chunks, rows, spoiled>>
runVars      == <<created, revision, state, attempts>>
requestVars  == <<loaded, stale, removal>>
vars == <<documentVars, tableVars, runVars, faults, proc, requestVars>>

RunState == {"none", "queued", "running", "cancelling", "succeeded", "failed", "cancelled"}
Removal  == {"none", "marked", "done"}

\* is_deleted, set by the first step of a deletion
deleted == removal # "none"

\* create_document
Init ==
  /\ content = 1
  /\ status = "pending"
  /\ active = 0
  /\ pending = 1
  /\ indexing = 1
  /\ chunks = None
  /\ rows = None
  /\ spoiled = FALSE
  /\ created = 1
  /\ revision = [k \in Run |-> IF k = 1 THEN 1 ELSE 0]
  /\ state = [k \in Run |-> IF k = 1 THEN "queued" ELSE "none"]
  /\ attempts = [k \in Run |-> 0]
  /\ faults = 0
  /\ proc = [j \in Process |-> None]
  /\ loaded = [q \in Request |-> None]
  /\ stale = FALSE
  /\ removal = "none"

-----------------------------------------------------------------------------
(* Requests. *)

\* What reindex_document computes the next revision from.
Read == [active |-> active, pending |-> pending, last |-> revision[indexing]]

\* Mutant: the revision of the last Run is not looked at.
AfterRow(base) == 1 + IF base.active >= base.pending THEN base.active ELSE base.pending

Above(base) ==
  LET known == {base.active, base.pending, base.last}
  IN 1 + CHOOSE m \in known : \A x \in known : x <= m

\* The Run is created and the row told of it, in one transaction.
Enqueue(next) ==
  /\ created < MaxRuns
  /\ created' = created + 1
  /\ revision' = [revision EXCEPT ![created + 1] = next]
  /\ state' = [state EXCEPT ![created + 1] = "queued"]
  /\ pending' = next
  /\ indexing' = created + 1
  /\ status' = "pending"
  /\ UNCHANGED <<attempts, faults, proc, removal>>

\* The view reads the document without a lock.
LoadDocument(q) ==
  /\ loaded[q] = None /\ ~deleted
  /\ loaded' = [loaded EXCEPT ![q] = Read]
  /\ UNCHANGED <<documentVars, tableVars, runVars, faults, proc, stale, removal>>

\* reindex_document
Reindex(q) ==
  /\ loaded[q] \notin {None, Done}
  /\ Enqueue(Above(loaded[q]))
  /\ loaded' = [loaded EXCEPT ![q] = Done]
  /\ stale' = (stale \/ loaded[q] # Read)
  /\ UNCHANGED <<content, active, tableVars>>

\* _publish of an application: a new content, under the lock of the row.  No
\* revision of the old content is to be found from then on.
Publish ==
  /\ ~deleted /\ content < MaxContents
  /\ content' = content + 1
  /\ active' = 0
  /\ Enqueue(Above(Read))
  /\ UNCHANGED <<tableVars, loaded, stale>>

-----------------------------------------------------------------------------
(* A deletion: the row is marked, the indexing Run cancelled, the chunks and  *)
(* the rows of the index dropped.  The last two are transactions of their own *)
(* and taken as one, since nobody stores anything in between.  A request that *)
(* fails is made again and finds done what was done.                          *)

MarkDeleted ==
  /\ removal = "none" /\ removal' = "marked"
  /\ UNCHANGED <<documentVars, tableVars, runVars, faults, proc, loaded, stale>>

DropIndex ==
  /\ removal = "marked" /\ removal' = "done"
  /\ chunks' = None /\ rows' = None
  /\ UNCHANGED <<documentVars, spoiled, runVars, faults, proc, loaded, stale>>

Users ==
  \/ \E q \in Request : LoadDocument(q) \/ Reindex(q)
  \/ Publish
  \/ MarkDeleted \/ DropIndex

-----------------------------------------------------------------------------
(* The queue. *)

Fault == faults < MaxFaults /\ faults' = faults + 1

Open(j) == state[j[1]] \in {"running", "cancelling"} /\ attempts[j[1]] = j[2]

At(j, pc) == proc[j] # None /\ proc[j].pc = pc

Local(pc, made) == [pc |-> pc, made |-> made]
Becomes(j, p)   == proc' = [proc EXCEPT ![j] = p]
Gone            == Local("gone", 0)

Claim(k) ==
  /\ state[k] = "queued"
  /\ state' = [state EXCEPT ![k] = "running"]
  /\ attempts' = [attempts EXCEPT ![k] = @ + 1]
  /\ Becomes(<<k, attempts[k] + 1>>, Local("start", 0))
  /\ UNCHANGED <<documentVars, tableVars, created, revision, faults, requestVars>>

\* Mutant: one attempt too many.
AfterFailureOnceMore(k) ==
  IF state[k] = "cancelling" THEN "cancelled"
  ELSE IF attempts[k] <= MaxAttempts THEN "queued" ELSE "failed"

\* Where a Run goes when its attempt fails or is lost.
AfterFailure(k) ==
  IF state[k] = "cancelling" THEN "cancelled"
  ELSE IF attempts[k] < MaxAttempts THEN "queued" ELSE "failed"

\* The last message of the process of an open attempt.
Persist(j) ==
  /\ Open(j)
  /\ \/ /\ At(j, "returned")
        /\ state' = [state EXCEPT ![j[1]] =
             IF @ = "cancelling" THEN "cancelled" ELSE "succeeded"]
     \/ /\ At(j, "raised")
        /\ state' = [state EXCEPT ![j[1]] = AfterFailure(j[1])]
  /\ Becomes(j, Gone)
  /\ UNCHANGED <<documentVars, tableVars, created, revision, attempts, faults,
                 requestVars>>

\* The attempt is lost; its process is gone, or goes on without knowing.
Lose(j) ==
  /\ Open(j) /\ Fault
  /\ state' = [state EXCEPT ![j[1]] = AfterFailure(j[1])]
  /\ \/ Becomes(j, Gone)
     \/ ~At(j, "returned") /\ ~At(j, "raised") /\ UNCHANGED proc
  /\ UNCHANGED <<documentVars, tableVars, created, revision, attempts, requestVars>>

\* A user cancels the Run, or a deletion does, after the row is marked.
Cancel(k) ==
  /\ state[k] \in {"queued", "running"}
  /\ state' = [state EXCEPT ![k] = IF @ = "queued" THEN "cancelled" ELSE "cancelling"]
  /\ Fault \/ (removal = "marked" /\ k = indexing /\ UNCHANGED faults)
  /\ UNCHANGED <<documentVars, tableVars, created, revision, attempts, proc,
                 requestVars>>

\* A process that does not stop in time is terminated.
Terminate(j) ==
  /\ Open(j) /\ state[j[1]] = "cancelling"
  /\ state' = [state EXCEPT ![j[1]] = "cancelled"]
  /\ Becomes(j, Gone)
  /\ UNCHANGED <<documentVars, tableVars, created, revision, attempts, faults,
                 requestVars>>

Queue ==
  \/ \E k \in Run : Claim(k) \/ Cancel(k)
  \/ \E j \in Process : Persist(j) \/ Lose(j) \/ Terminate(j)

-----------------------------------------------------------------------------
(* execute_knowledge_index, one database access at a time. *)

Goes(j, pc) == Becomes(j, Local(pc, 0))

\* The process ends; nobody listens to that of a lost attempt.
Ends(j, pc) == Becomes(j, IF Open(j) THEN Local(pc, 0) ELSE Gone)

\* Mutant: a revision is made in the first attempt or not at all.
AwaitedAndFresh(k) == ~deleted /\ pending = revision[k] /\ indexing = k /\ status = "pending"

\* The document still waits for this revision, by this Run.
Awaited(k) == ~deleted /\ pending = revision[k] /\ indexing = k

\* An error here is outside the try block.
Start(j) ==
  /\ At(j, "start")
  /\ \/ /\ Awaited(j[1])
        /\ status' = "indexing"
        /\ Becomes(j, Local("embed", content))
        /\ UNCHANGED faults
     \/ ~Awaited(j[1]) /\ Ends(j, "returned") /\ UNCHANGED <<status, faults>>
     \/ Fault /\ Ends(j, "raised") /\ UNCHANGED status
  /\ UNCHANGED <<content, active, pending, indexing, tableVars>>

\* The chunks of this revision replace all others, in the index, too, and the
\* revision becomes the active one.
Replace(j) ==
  /\ chunks' = [by |-> j[1], revision |-> revision[j[1]], made |-> proc[j].made]
  /\ rows' = chunks'
  /\ spoiled' = FALSE
  /\ active' = revision[j[1]]
  /\ pending' = 0
  /\ status' = "ready"

\* The chunks are embedded and stored, in one transaction.  It may be rolled
\* back, or committed and reported as failed.
Store(j) ==
  /\ At(j, "embed")
  /\ \/ /\ Awaited(j[1])
        /\ Replace(j)
        /\ \/ Ends(j, "returned") /\ UNCHANGED faults
           \/ Fault /\ Goes(j, "undo")
     \/ /\ \/ ~Awaited(j[1]) /\ Ends(j, "returned") /\ UNCHANGED faults
           \/ Fault /\ Goes(j, "undo")
        /\ UNCHANGED <<status, active, pending, tableVars>>
  /\ UNCHANGED <<content, indexing>>

\* What a process leaves that gives up.
Settle(k) ==
  IF Awaited(k)
    THEN /\ pending' = 0
         /\ status' = IF active # 0 THEN "ready" ELSE "failed"
    ELSE UNCHANGED <<pending, status>>

\* The cancel event is set for a lost attempt and for a cancelled Run, once
\* the coordinator has noticed.
MayBeCancelled(j) == ~Open(j) \/ state[j[1]] = "cancelling"

\* _mark_index_cancelled
Drop(j) ==
  /\ At(j, "embed")
  /\ MayBeCancelled(j)
  /\ \/ Settle(j[1]) /\ Ends(j, "returned") /\ UNCHANGED faults
     \/ Fault /\ Goes(j, "undo") /\ UNCHANGED <<pending, status>>
  /\ UNCHANGED <<content, active, indexing, tableVars>>

\* After an error the chunks of this revision are removed.
Removes(k) == chunks # None /\ chunks.revision = revision[k]

\* They may be the active ones: stored by another attempt, by a transaction that
\* was reported as failed, or, after a stale request, by another Run with the
\* same revision.
Excused(k) == chunks.revision = active /\ (chunks.by = k \/ stale)

\* An access while an error is handled may fail, too.
Undo(j) ==
  /\ At(j, "undo")
  /\ \/ /\ IF Removes(j[1])
             THEN /\ chunks' = None
                  /\ rows' = IF Cascades THEN None ELSE rows
                  /\ spoiled' = (spoiled \/ Excused(j[1]))
             ELSE UNCHANGED tableVars
        /\ Goes(j, "record")
     \/ Ends(j, "raised") /\ UNCHANGED tableVars
  /\ UNCHANGED <<documentVars, faults>>

\* Then the row is told, if that does not fail as well.
Record(j) ==
  /\ At(j, "record")
  /\ Settle(j[1]) \/ UNCHANGED <<pending, status>>
  /\ Ends(j, "raised")
  /\ UNCHANGED <<content, active, indexing, tableVars, faults>>

Works(j) ==
  /\ \/ Start(j) \/ Store(j) \/ Drop(j) \/ Undo(j) \/ Record(j)
  /\ UNCHANGED <<runVars, requestVars>>

-----------------------------------------------------------------------------
Next == Users \/ Queue \/ (\E j \in Process : Works(j))

Spec == Init /\ [][Next]_vars

\* A Run is claimed, the process of its open attempt goes on, and the last
\* message is persisted.
Served(k) ==
  \/ Claim(k)
  \/ LET j == <<k, attempts[k]>>
     IN Open(j) /\ (Persist(j) \/ Works(j))

\* The Run a document waits for is served.  Nothing is assumed of other Runs, of
\* lost processes or of users.
Fairness == WF_vars(Served(indexing))

FairSpec == Spec /\ Fairness

-----------------------------------------------------------------------------
(* Properties. *)

TypeOK ==
  /\ content \in Nat
  /\ status \in {"pending", "indexing", "ready", "failed"}
  /\ active \in Nat /\ pending \in Nat
  /\ indexing \in 1..created
  /\ spoiled \in BOOLEAN
  /\ chunks \in Rows \cup {None} /\ rows \in Rows \cup {None}
  /\ created \in Run
  /\ revision \in [Run -> Nat]
  /\ \A k \in Run : state[k] = "none" <=> k > created
  /\ state \in [Run -> RunState]
  /\ attempts \in [Run -> 0..MaxAttempts]
  /\ faults \in 0..MaxFaults
  /\ proc \in [Process -> State \cup {None}]
  /\ \A j \in Process : proc[j] = None <=> j[2] > attempts[j[1]]
  /\ loaded \in [Request -> Base \cup {None, Done}]
  /\ stale \in BOOLEAN
  /\ removal \in Removal

\* What a search finds of the document, by the content it was made of.
Found ==
  IF /\ status = "ready" /\ ~deleted
     /\ chunks # None /\ chunks.revision = active
     /\ rows = chunks
    THEN {chunks.made} ELSE {}

\* A search finds the content the document has, and no other.  A ready document
\* is found, unless a process that failed has removed what its own Run had
\* stored: no late process of an older Run does that, except after a request
\* that used a stale row.  And when a deletion has gone through, nothing is left
\* or comes back, whatever processes are still at work.
IndexFollowsDocument ==
  /\ Found \subseteq {content}
  /\ status = "ready" /\ ~deleted => Found # {} \/ spoiled
  /\ removal = "done" => chunks = None /\ rows = None

\* A document does not wait for ever: it gets an outcome, is deleted, or its
\* Run has been cancelled or has failed.
Settles ==
  pending # 0 ~> \/ pending = 0 \/ deleted
                 \/ state[indexing] \in {"cancelled", "failed"}
=============================================================================
