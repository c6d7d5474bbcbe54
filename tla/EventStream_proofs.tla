------------------------- MODULE EventStream_proofs -------------------------
(***************************************************************************)
(* The rows and the snapshot of EventStream hold every event exactly once. *)
(* A client is only ever sent forward, to a snapshot that exists, misses   *)
(* nothing but what was compacted, and shows the fold of what it has.      *)
(***************************************************************************)
EXTENDS EventStream, FiniteSetTheorems, SequenceTheorems, TLAPS

\* The snapshot is a prefix of the log, the rows are the rest, and no client
\* was sent to a snapshot that goes further than the one that exists.
LogInv ==
  /\ log \in Seq(Kind)
  /\ through \in 0..Len(log)
  /\ problem \in 0..through
  /\ SnapshotMeetsRows

\* What the log and the recoveries need, and no more.
IInv == LogInv /\ RecoveryGoesForward

-----------------------------------------------------------------------------
(* Writers. *)

\* A new event extends the rows by the next number.
LEMMA AppendStep ==
  ASSUME IInv, NEW k \in Kind, AppendEvent(k)
  PROVE  IInv'
<1>1. log' = Append(log, k) /\ rows' = rows \cup {Len(log) + 1}
      /\ UNCHANGED <<through, phase, cursor, problem>>
  BY DEF AppendEvent, clientVars
<1>2. log' \in Seq(Kind) /\ Len(log') = Len(log) + 1 /\ Len(log) \in Nat
  BY <1>1 DEF IInv, LogInv
<1> QED
  BY <1>1, <1>2 DEF IInv, LogInv, SnapshotMeetsRows, RecoveryGoesForward

\* Compaction moves the border between snapshot and rows, and only forward.
LEMMA CompactStep ==
  ASSUME IInv, NEW n \in 1..CompactBatch, Compact(n)
  PROVE  IInv'
<1>1. /\ through' = through + n /\ through + n <= Len(log)
      /\ rows' = {m \in rows : m > through + n}
      /\ UNCHANGED <<log, phase, cursor, problem>>
  BY DEF Compact, RowsAfter, clientVars
<1>2. n \in Nat /\ Len(log) \in Nat
  BY SizeAssumption DEF SizeAssumption, IInv, LogInv
<1> QED
  BY <1>1, <1>2 DEF IInv, LogInv, SnapshotMeetsRows, RecoveryGoesForward

-----------------------------------------------------------------------------
(* Readers. *)

\* A client that is not sent to a snapshot, or is sent to the one that exists
\* because it is behind it, disturbs nothing.
LEMMA ReaderStep ==
  ASSUME IInv, UNCHANGED logVars,
         \/ phase' # "recovering" /\ UNCHANGED problem
         \/ Compacted(cursor) /\ HistoryCompacted /\ UNCHANGED cursor
         \/ UNCHANGED <<phase, problem, cursor>>
  PROVE  IInv'
  BY DEF IInv, LogInv, SnapshotMeetsRows, RecoveryGoesForward, logVars,
         Compacted, HistoryCompacted

\* accept ends in one of three places, none of them a recovery.
LEMMA AcceptedPhase ==
  ASSUME Accepted
  PROVE  phase' # "recovering"
  BY DEF Accepted

\* Every turn of the client is a reader's step.
LEMMA ClientStep ==
  ASSUME IInv, Client
  PROVE  IInv'
<1>1. CASE Connect
  <2>1. UNCHANGED <<logVars, cursor>>
    BY <1>1 DEF Connect
  <2>2. \/ Compacted(cursor) /\ HistoryCompacted
        \/ phase' # "recovering" /\ UNCHANGED problem
    BY <1>1 DEF Connect
  <2> QED
    BY <2>1, <2>2, ReaderStep
<1>2. CASE Receive
  BY <1>2, AcceptedPhase, ReaderStep DEF Receive
<1>3. CASE FillGap
  <2>1. UNCHANGED logVars
    BY <1>3 DEF FillGap
  <2>2. \/ Compacted(cursor) /\ HistoryCompacted /\ UNCHANGED cursor
        \/ phase' # "recovering" /\ UNCHANGED problem
    BY <1>3, AcceptedPhase DEF FillGap
  <2> QED
    BY <2>1, <2>2, ReaderStep
<1>4. CASE Recover
  <2>1. phase' # "recovering" /\ UNCHANGED <<logVars, problem>>
    BY <1>4 DEF Recover
  <2> QED
    BY <2>1, ReaderStep
<1>5. CASE Retry
  BY <1>5, ReaderStep DEF Retry
<1> QED
  BY <1>1, <1>2, <1>3, <1>4, <1>5 DEF Client

\* Nothing disturbs the border between snapshot and rows.
LEMMA LogStep ==
  ASSUME IInv, [Next]_vars
  PROVE  IInv'
<1>1. CASE \E k \in Kind : AppendEvent(k)
  BY <1>1, AppendStep
<1>2. CASE \E n \in 1..CompactBatch : Compact(n)
  BY <1>2, CompactStep
<1>3. CASE Load
  BY <1>3, ReaderStep DEF Load, clientVars
<1>4. CASE Client
  BY <1>4, ClientStep
<1>5. CASE Fault
  BY <1>5, ReaderStep DEF Fault
<1>6. CASE UNCHANGED vars
  BY <1>6, ReaderStep DEF vars, clientVars
<1> QED
  BY <1>1, <1>2, <1>3, <1>4, <1>5, <1>6 DEF Next

-----------------------------------------------------------------------------
(* Sets of numbers, and what FoldLeft does. *)

\* A set of numbers that is not empty has a least element.
LEMMA Least ==
  ASSUME NEW T \in SUBSET Nat, T # {}
  PROVE  \E m \in T : \A n \in T : m <= n
<1> DEFINE Below(n) == 0..(n - 1)
           R == StrictSubsetOrdering(Nat)
           F == FiniteSubsetsOf(Nat)
           B == {Below(n) : n \in T}
<1>1. B \subseteq F
  <2> SUFFICES ASSUME NEW n \in T PROVE Below(n) \in F  OBVIOUS
  <2>1. IsFiniteSet(Below(n))  BY FS_Interval
  <2> QED  BY <2>1 DEF FiniteSubsetsOf
<1>2. PICK b \in B : \A c \in B : ~(<<c, b>> \in R)
  <2>1. B # {}  OBVIOUS
  <2>2. IsWellFoundedOn(R, F)  BY FS_StrictSubsetOrderingWellFounded
  <2> HIDE DEF B, R, F
  <2> QED  BY <1>1, <2>1, <2>2, WFMin
<1>3. PICK m \in T : b = Below(m)  OBVIOUS
<1>4. ASSUME NEW n \in T, ~(m <= n) PROVE FALSE
  <2>1. Below(n) \subseteq Below(m) /\ n \in Below(m) /\ n \notin Below(n)  BY <1>4
  <2>2. <<Below(n), Below(m)>> \in R  BY <2>1 DEF StrictSubsetOrdering
  <2> QED  BY <1>2, <1>3, <2>2
<1> QED  BY <1>4

\* Induction up to a bound, for a set given by what its elements satisfy.
LEMMA UpTo ==
  ASSUME NEW n \in Nat, NEW S, 0 \in S, \A k \in 0..n : k < n /\ k \in S => k + 1 \in S
  PROVE  0..n \subseteq S
<1> SUFFICES ASSUME (0..n) \ S # {} PROVE FALSE  OBVIOUS
<1>1. PICK m \in (0..n) \ S : \A k \in (0..n) \ S : m <= k
  <2>1. (0..n) \ S \in SUBSET Nat  OBVIOUS
  <2> QED  BY <2>1, Least
<1>2. m # 0 /\ m - 1 \in 0..n /\ m - 1 < n  OBVIOUS
<1>3. m - 1 \in S  BY <1>1, <1>2
<1> QED  BY <1>1, <1>2, <1>3

\* A bounded one has a greatest element, and Max finds it.
LEMMA Greatest ==
  ASSUME NEW n \in Nat, NEW T \in SUBSET (0..n), T # {}
  PROVE  Max(T) \in T /\ \A m \in T : m <= Max(T)
<1> DEFINE U == {n - m : m \in T}
<1>1. U \in SUBSET Nat /\ U # {}
  <2>1. \A m \in T : n - m \in Nat  OBVIOUS
  <2> QED  BY <2>1
<1>2. PICK u \in U : \A v \in U : u <= v  BY <1>1, Least
<1>3. PICK x \in T : u = n - x  OBVIOUS
<1>4. \A m \in T : x >= m  BY <1>2, <1>3
<1>5. Max(T) \in T /\ \A m \in T : Max(T) >= m  BY <1>4 DEF Max
<1> QED  BY <1>5

\* There is a function that folds F over the numbers of any subset of 1..n.
FoldedBy(P, n, base, F) ==
  \E g \in [SUBSET (1..n) -> P] : \A s \in SUBSET (1..n) :
    g[s] = IF s = {} THEN base ELSE F[<<g[s \ {Max(s)}], Max(s)>>]

\* The function by which FoldLeft is defined exists, if what is folded stays
\* in a set.
LEMMA FoldExists ==
  ASSUME NEW P, NEW n \in Nat, NEW base \in P, NEW F \in [P \X (1..n) -> P]
  PROVE  FoldedBy(P, n, base, F)
<1> DEFINE Folds(g, s) ==
             g[s] = IF s = {} THEN base ELSE F[<<g[s \ {Max(s)}], Max(s)>>]
           Exists(k) ==
             \E g \in [SUBSET (1..k) -> P] : \A s \in SUBSET (1..k) : Folds(g, s)
           S == {k \in 0..n : Exists(k)}
<1>1. 0 \in S
  <2> DEFINE g0 == [s \in SUBSET (1..0) |-> base]
  <2>1. g0 \in [SUBSET (1..0) -> P] /\ \A s \in SUBSET (1..0) : Folds(g0, s)
    OBVIOUS
  <2> HIDE DEF g0, Folds
  <2>2. Exists(0)  BY <2>1
  <2> HIDE DEF Exists
  <2> QED  BY <2>2
<1>2. ASSUME NEW k \in 0..n, k < n, k \in S
      PROVE  k + 1 \in S
  <2>1. PICK g \in [SUBSET (1..k) -> P] : \A s \in SUBSET (1..k) : Folds(g, s)
    BY <1>2
  <2> DEFINE h == [s \in SUBSET (1..(k + 1)) |->
                     IF k + 1 \in s THEN F[<<g[s \ {k + 1}], k + 1>>] ELSE g[s]]
  <2>2. ASSUME NEW s \in SUBSET (1..(k + 1))
        PROVE  h[s] \in P /\ Folds(h, s)
    <3>1. CASE k + 1 \in s
      <4>1. Max(s) = k + 1
        <5>1. Max(s) \in s /\ \A m \in s : m <= Max(s)
          <6>1. s \in SUBSET (0..(k + 1)) /\ s # {} /\ k + 1 \in Nat  BY <3>1
          <6> HIDE DEF h
          <6> QED  BY <6>1, Greatest
        <5>2. PICK x : x = Max(s)  OBVIOUS
        <5>3. x \in 1..(k + 1) /\ k + 1 <= x  BY <3>1, <5>1, <5>2
        <5>4. x = k + 1  BY <5>3
        <5> QED  BY <5>2, <5>4
      <4>2. s \ {k + 1} \in SUBSET (1..k) /\ s \ {k + 1} \in SUBSET (1..(k + 1))
        OBVIOUS
      <4>3. h[s \ {k + 1}] = g[s \ {k + 1}]  BY <4>2
      <4>4. g[s \ {k + 1}] \in P /\ k + 1 \in 1..n
        <5>1. k + 1 \in 1..n  BY <1>2
        <5>2. g[s \ {k + 1}] \in P
          <6> HIDE DEF h
          <6> QED  BY <4>2
        <5> QED  BY <5>1, <5>2
      <4>5. h[s] = F[<<g[s \ {k + 1}], k + 1>>]  BY <3>1
      <4>6. h[s] \in P
        <5>1. <<g[s \ {k + 1}], k + 1>> \in P \X (1..n)  BY <4>4
        <5> QED  BY <4>5, <5>1
      <4> HIDE DEF h
      <4> QED  BY <3>1, <4>1, <4>3, <4>5, <4>6
    <3>2. CASE k + 1 \notin s
      <4>1. s \in SUBSET (1..k)  BY <3>2
      <4>2. s \ {Max(s)} \in SUBSET (1..k) /\ s \ {Max(s)} \in SUBSET (1..(k + 1))
        BY <4>1
      <4>3. h[s] = g[s] /\ h[s \ {Max(s)}] = g[s \ {Max(s)}]  BY <3>2, <4>2
      <4>4. g[s] \in P /\ Folds(g, s)  BY <2>1, <4>1
      <4> HIDE DEF h
      <4> QED  BY <4>3, <4>4
    <3> QED  BY <3>1, <3>2
  <2>3. h \in [SUBSET (1..(k + 1)) -> P]  BY <2>2
  <2> HIDE DEF h, Folds
  <2>4. Exists(k + 1)  BY <2>2, <2>3
  <2> QED  BY <2>4, <1>2
<1>3. n \in 0..n /\ 0..n \subseteq S
  <2> HIDE DEF S
  <2> QED  BY <1>1, <1>2, UpTo
<1>4. Exists(n)
  <2> HIDE DEF Exists
  <2> QED  BY <1>3
<1> QED  BY <1>4 DEF FoldedBy

\* Such a function goes through 1..n one number at a time.
Unfolds(P, n, base, F, it) ==
  /\ it[{}] = base
  /\ \A s \in SUBSET (1..n) : s # {} /\ it[s \ {Max(s)}] \in P =>
       it[s] = F[<<it[s \ {Max(s)}], Max(s)>>]

\* The values on the way, from base to end.
InOrder(P, n, base, F, end) ==
  \E v \in [0..n -> P] :
    /\ v[0] = base /\ v[n] = end
    /\ \A i \in 1..n : v[i] = F[<<v[i - 1], i>>]

\* By induction over the numbers up to n.
LEMMA FoldsInOrder ==
  ASSUME NEW P, NEW n \in Nat, NEW base \in P, NEW F \in [P \X (1..n) -> P],
         NEW it, Unfolds(P, n, base, F, it)
  PROVE  InOrder(P, n, base, F, it[1..n])
<1> DEFINE v == [i \in 0..n |-> it[1..i]]
<1>1. v[0] = base /\ v[n] = it[1..n]
  BY DEF Unfolds
<1>2. ASSUME NEW i \in 1..n, v[i - 1] \in P
      PROVE  v[i] = F[<<v[i - 1], i>>] /\ v[i] \in P
  <2>1. Max(1..i) = i
    <3> HIDE DEF v
    <3>1. 1..i \in SUBSET (0..n) /\ i \in 1..i  OBVIOUS
    <3>2. PICK x : x = Max(1..i)  OBVIOUS
    <3>3. x \in 1..i /\ i <= x  BY <3>1, <3>2, Greatest
    <3> QED  BY <3>2, <3>3
  <2>2. (1..i) \ {i} = 1..(i - 1) /\ 1..i \in SUBSET (1..n) /\ 1..i # {} /\ i - 1 \in 0..n
    <3> HIDE DEF v
    <3>1. (1..i) \ {i} = 1..(i - 1)  OBVIOUS
    <3>2. i \in 1..i /\ i - 1 \in 0..n  OBVIOUS
    <3>3. 1..i \subseteq 1..n  OBVIOUS
    <3> QED  BY <3>1, <3>2, <3>3
  <2>3. v[i - 1] = it[1..(i - 1)] /\ v[i] = it[1..i]  BY <2>2
  <2> HIDE DEF v
  <2>4. it[1..i] = F[<<it[1..(i - 1)], i>>]  BY <1>2, <2>1, <2>2, <2>3 DEF Unfolds
  <2> QED  BY <1>2, <2>3, <2>4
<1>3. 0..n \subseteq {i \in 0..n : v[i] \in P}
  <2> DEFINE S == {i \in 0..n : v[i] \in P}
  <2>1. 0 \in S  BY <1>1
  <2>2. ASSUME NEW k \in 0..n, k < n, k \in S PROVE k + 1 \in S
    <3> HIDE DEF v
    <3>1. k + 1 \in 1..n /\ (k + 1) - 1 = k /\ k + 1 \in 0..n  BY <2>2
    <3>2. v[(k + 1) - 1] \in P  BY <2>2, <3>1
    <3>3. v[k + 1] \in P  BY <3>1, <3>2, <1>2
    <3> QED  BY <3>1, <3>3
  <2> HIDE DEF S
  <2> QED  BY <2>1, <2>2, UpTo DEF S
<1>4. v \in [0..n -> P]
  <2>1. \A i \in 0..n : v[i] \in P  BY <1>3
  <2> QED  BY <2>1
<1>5. \A i \in 1..n : v[i] = F[<<v[i - 1], i>>]
  <2> HIDE DEF v
  <2>1. \A i \in 1..n : i - 1 \in 0..n  OBVIOUS
  <2> QED  BY <2>1, <1>2, <1>4
<1> HIDE DEF v
<1> QED  BY <1>1, <1>4, <1>5 DEF InOrder

\* The projections of the client on the way through n events.
ClientPath(P, n, base, e) ==
  \E v \in [0..n -> P] :
    /\ v[0] = base /\ v[n] = FoldLeft(applyEvent, base, e)
    /\ \A i \in 1..n : v[i] = applyEvent(v[i - 1], e[i])

\* What FoldLeft does with the client's operator ...
LEMMA ClientFolds ==
  ASSUME NEW P, NEW base \in P, NEW n \in Nat, NEW e, DOMAIN e = 1..n,
         \A p \in P, i \in 1..n : applyEvent(p, e[i]) \in P
  PROVE  ClientPath(P, n, base, e)
<1> DEFINE F == [x \in P \X (1..n) |-> applyEvent(x[1], e[x[2]])]
           Step(f, s) == IF s = {} THEN base
                         ELSE applyEvent(f[s \ {Max(s)}], e[Max(s)])
           it == CHOOSE f : f = [s \in SUBSET (1..n) |-> Step(f, s)]
<1>1. F \in [P \X (1..n) -> P] /\ \A p \in P, i \in 1..n : F[<<p, i>>] = applyEvent(p, e[i])
  OBVIOUS
<1>2. PICK g \in [SUBSET (1..n) -> P] : \A s \in SUBSET (1..n) :
        g[s] = IF s = {} THEN base ELSE F[<<g[s \ {Max(s)}], Max(s)>>]
  <2>1. F \in [P \X (1..n) -> P]  BY <1>1
  <2> HIDE DEF F
  <2>2. FoldedBy(P, n, base, F)  BY <2>1, FoldExists
  <2> QED  BY <2>2 DEF FoldedBy
<1> HIDE DEF F, it
<1>3. \A s \in SUBSET (1..n) :
        s # {} => Max(s) \in 1..n /\ s \ {Max(s)} \in SUBSET (1..n)
  <2> SUFFICES ASSUME NEW s \in SUBSET (1..n), s # {} PROVE Max(s) \in 1..n  OBVIOUS
  <2>1. s \in SUBSET (0..n)  OBVIOUS
  <2> QED  BY <2>1, Greatest
<1>4. \A s \in SUBSET (1..n) : g[s] = Step(g, s)
  BY <1>1, <1>2, <1>3
<1>5. it = [s \in SUBSET (1..n) |-> Step(it, s)]
  <2>1. g = [s \in SUBSET (1..n) |-> Step(g, s)]
    <3> HIDE DEF Step
    <3> QED  BY <1>4
  <2> HIDE DEF Step
  <2> QED  BY <2>1 DEF it
<1>6. FoldLeft(applyEvent, base, e) = it[1..n]
  BY DEF FoldLeft, MapThenFoldSet, it
<1>7. \A s \in SUBSET (1..n) : it[s] = Step(it, s)
  <2> HIDE DEF Step
  <2> QED  BY <1>5
<1>8. Unfolds(P, n, base, F, it)
  BY <1>1, <1>3, <1>7 DEF Unfolds
<1>9. PICK v \in [0..n -> P] :
        /\ v[0] = base /\ v[n] = it[1..n]
        /\ \A i \in 1..n : v[i] = F[<<v[i - 1], i>>]
  <2>1. InOrder(P, n, base, F, it[1..n])  BY <1>1, <1>8, FoldsInOrder
  <2> QED  BY <2>1 DEF InOrder
<1>10. \A i \in 1..n : v[i - 1] \in P
  OBVIOUS
<1>11. v[0] = base /\ v[n] = FoldLeft(applyEvent, base, e)  BY <1>6, <1>9
<1>12. \A i \in 1..n : v[i] = applyEvent(v[i - 1], e[i])  BY <1>1, <1>9, <1>10
<1> QED  BY <1>9, <1>11, <1>12 DEF ClientPath

\* The projections of the server on the way through n events.
ServerPath(P, n, base, e) ==
  \E v \in [0..n -> P] :
    /\ v[0] = base /\ v[n] = FoldLeft(apply_projection_event, base, e)
    /\ \A i \in 1..n : v[i] = apply_projection_event(v[i - 1], e[i])

\* ... and with the server's.
LEMMA ServerFolds ==
  ASSUME NEW P, NEW base \in P, NEW n \in Nat, NEW e, DOMAIN e = 1..n,
         \A p \in P, i \in 1..n : apply_projection_event(p, e[i]) \in P
  PROVE  ServerPath(P, n, base, e)
<1> DEFINE F == [x \in P \X (1..n) |-> apply_projection_event(x[1], e[x[2]])]
           Step(f, s) == IF s = {} THEN base
                         ELSE apply_projection_event(f[s \ {Max(s)}], e[Max(s)])
           it == CHOOSE f : f = [s \in SUBSET (1..n) |-> Step(f, s)]
<1>1. F \in [P \X (1..n) -> P] /\ \A p \in P, i \in 1..n : F[<<p, i>>] = apply_projection_event(p, e[i])
  OBVIOUS
<1>2. PICK g \in [SUBSET (1..n) -> P] : \A s \in SUBSET (1..n) :
        g[s] = IF s = {} THEN base ELSE F[<<g[s \ {Max(s)}], Max(s)>>]
  <2>1. F \in [P \X (1..n) -> P]  BY <1>1
  <2> HIDE DEF F
  <2>2. FoldedBy(P, n, base, F)  BY <2>1, FoldExists
  <2> QED  BY <2>2 DEF FoldedBy
<1> HIDE DEF F, it
<1>3. \A s \in SUBSET (1..n) :
        s # {} => Max(s) \in 1..n /\ s \ {Max(s)} \in SUBSET (1..n)
  <2> SUFFICES ASSUME NEW s \in SUBSET (1..n), s # {} PROVE Max(s) \in 1..n  OBVIOUS
  <2>1. s \in SUBSET (0..n)  OBVIOUS
  <2> QED  BY <2>1, Greatest
<1>4. \A s \in SUBSET (1..n) : g[s] = Step(g, s)
  BY <1>1, <1>2, <1>3
<1>5. it = [s \in SUBSET (1..n) |-> Step(it, s)]
  <2>1. g = [s \in SUBSET (1..n) |-> Step(g, s)]
    <3> HIDE DEF Step
    <3> QED  BY <1>4
  <2> HIDE DEF Step
  <2> QED  BY <2>1 DEF it
<1>6. FoldLeft(apply_projection_event, base, e) = it[1..n]
  BY DEF FoldLeft, MapThenFoldSet, it
<1>7. \A s \in SUBSET (1..n) : it[s] = Step(it, s)
  <2> HIDE DEF Step
  <2> QED  BY <1>5
<1>8. Unfolds(P, n, base, F, it)
  BY <1>1, <1>3, <1>7 DEF Unfolds
<1>9. PICK v \in [0..n -> P] :
        /\ v[0] = base /\ v[n] = it[1..n]
        /\ \A i \in 1..n : v[i] = F[<<v[i - 1], i>>]
  <2>1. InOrder(P, n, base, F, it[1..n])  BY <1>1, <1>8, FoldsInOrder
  <2> QED  BY <2>1 DEF InOrder
<1>10. \A i \in 1..n : v[i - 1] \in P
  OBVIOUS
<1>11. v[0] = base /\ v[n] = FoldLeft(apply_projection_event, base, e)  BY <1>6, <1>9
<1>12. \A i \in 1..n : v[i] = apply_projection_event(v[i - 1], e[i])  BY <1>1, <1>9, <1>10
<1> QED  BY <1>9, <1>11, <1>12 DEF ServerPath

-----------------------------------------------------------------------------
(* Pages and batches. *)

\* A page is a run of consecutive events, without a limit up to the end of the log.
Stretch(first, k) == [i \in 1..k |-> first + i - 1]

\* What is found after a number is all there is after it and the snapshot.
LEMMA RowsAreStretch ==
  ASSUME LogInv, NEW after \in Nat
  PROVE  \E first \in {after + 1, through + 1} :
           /\ after < first /\ through < first
           /\ RowsAfter(after) = first..Len(log)
<1>1. through \in Nat /\ Len(log) \in Nat
  BY DEF LogInv
<1>2. CASE after < through
  BY <1>1, <1>2 DEF LogInv, SnapshotMeetsRows, RowsAfter
<1>3. CASE ~(after < through)
  BY <1>1, <1>3 DEF LogInv, SnapshotMeetsRows, RowsAfter
<1> QED
  BY <1>2, <1>3

\* A page has consecutive events, and the first of them follows the cursor or
\* the snapshot.
LEMMA PageIsStretch ==
  ASSUME LogInv, NEW after \in Nat, NEW limit \in Nat
  PROVE  \E first \in {after + 1, through + 1}, k \in Nat :
           /\ after < first /\ through < first
           /\ k > 0 => first + k - 1 <= Len(log)
           /\ Page(after, limit) = Stretch(first, k)
<1>1. through \in Nat /\ Len(log) \in Nat
  BY DEF LogInv
<1>2. PICK first \in {after + 1, through + 1} :
        /\ after < first /\ through < first
        /\ RowsAfter(after) = first..Len(log)
  BY RowsAreStretch
<1> DEFINE size == Cardinality(first..Len(log))
           k == Min({limit, size})
<1>3. first \in Nat /\ size = IF first > Len(log) THEN 0 ELSE Len(log) - first + 1
  <2>1. first \in Nat  BY <1>1
  <2>2. first \in Int /\ Len(log) \in Int  BY <2>1, <1>1
  <2> QED  BY <2>1, <2>2, FS_Interval
<1>4. k \in Nat /\ k <= size
  <2> HIDE DEF size
  <2>1. size \in Nat  BY <1>1, <1>3
  <2>2. \E x \in {limit, size} : \A y \in {limit, size} : x <= y
    <3>1. CASE limit <= size  BY <3>1, <2>1
    <3>2. CASE size <= limit  BY <3>2, <2>1
    <3> QED  BY <2>1, <3>1, <3>2
  <2>3. k \in {limit, size} /\ \A y \in {limit, size} : k <= y
    BY <2>2 DEF Min
  <2> HIDE DEF k
  <2> QED  BY <2>1, <2>3
<1> DEFINE at(i) == CHOOSE n \in first..Len(log) :
                      Cardinality({m \in first..Len(log) : m <= n}) = i
<1>5. ASSUME NEW i \in 1..k PROVE at(i) = first + i - 1
  <2>1. i \in 1..size /\ first <= Len(log)
    <3> HIDE DEF k
    <3> QED  BY <1>1, <1>3, <1>4
  <2>2. \A n \in first..Len(log) :
          Cardinality({m \in first..Len(log) : m <= n}) = n - first + 1
    <3> SUFFICES ASSUME NEW n \in first..Len(log)
                 PROVE  Cardinality({m \in first..Len(log) : m <= n}) = n - first + 1
      OBVIOUS
    <3>1. {m \in first..Len(log) : m <= n} = first..n
      BY <1>1, <1>3
    <3>2. first \in Int /\ n \in Int /\ ~(first > n)
      BY <1>1, <1>3
    <3> QED
      BY <3>1, <3>2, FS_Interval
  <2>3. first + i - 1 \in first..Len(log)
    <3> HIDE DEF k
    <3> QED  BY <1>1, <1>3, <2>1
  <2>4. \E n \in first..Len(log) : Cardinality({m \in first..Len(log) : m <= n}) = i
    <3>1. (first + i - 1) - first + 1 = i
      <4> HIDE DEF k
      <4> QED  BY <1>3, <2>1
    <3> HIDE DEF k
    <3> QED  BY <2>2, <2>3, <3>1
  <2>5. at(i) \in first..Len(log) /\ at(i) - first + 1 = i
    BY <2>2, <2>4
  <2> HIDE DEF at, k
  <2> QED
    BY <2>1, <2>5, <1>1, <1>3
<1>6. Page(after, limit) = [i \in 1..k |-> at(i)]
  BY <1>2 DEF Page
<1>7. Page(after, limit) = Stretch(first, k)
  <2> HIDE DEF at, k
  <2> QED  BY <1>5, <1>6 DEF Stretch
<1>8. k > 0 => first + k - 1 <= Len(log)
  <2> HIDE DEF k, size
  <2> QED  BY <1>1, <1>3, <1>4
<1> HIDE DEF k
<1> QED
  BY <1>2, <1>4, <1>7, <1>8

\* The part of a page that is sent is a stretch as well, and not empty.
LEMMA CutStretch ==
  ASSUME NEW first \in Nat, NEW k \in Nat, NEW j \in 1..k
  PROVE  SubSeq(Stretch(first, k), 1, j) = Stretch(first, j)
<1> DEFINE s == Stretch(first, k)  t == SubSeq(s, 1, j)
<1>1. \A i \in 1..j : s[i] \in Int /\ s[i] = first + i - 1
  BY DEF Stretch
<1>2. j \in Int /\ 1 \in Int /\ 1 <= j
  OBVIOUS
<1> HIDE DEF s
<1>3. /\ t \in Seq(Int) /\ Len(t) = j - 1 + 1
      /\ \A i \in 1..j - 1 + 1 : t[i] = s[1 + i - 1]
  BY <1>1, <1>2, SubSeqProperties
<1> HIDE DEF t
<1>4. j - 1 + 1 = j /\ \A i \in 1..j : 1 + i - 1 = i
  OBVIOUS
<1>5. t \in Seq(Int) /\ Len(t) = j /\ \A i \in 1..j : t[i] = s[i]
  BY <1>3, <1>4
<1>6. t = [i \in 1..j |-> first + i - 1]
  <2>1. t = [i \in 1..j |-> t[i]]
    BY <1>5
  <2>2. \A i \in 1..j : t[i] = first + i - 1
    BY <1>1, <1>5
  <2> QED
    BY <2>1, <2>2
<1> QED
  BY <1>6 DEF Stretch, t

-----------------------------------------------------------------------------
(* What is held back and what is on the wire. *)

\* Cursors, buffers and the wire hold numbers of the log.
Held ==
  /\ Len(log) <= MaxEvents
  /\ server \in {"closed", "open", "ended"} /\ phase \in Phase
  /\ faults \in 0..MaxFaults
  /\ sent \in 0..Len(log) /\ cursor \in 0..Len(log)
  /\ wire \in Seq(Nat) /\ \A i \in 1..Len(wire) : wire[i] \in 1..Len(log)
  /\ pending \subseteq 1..Len(log)

\* Only a compacted event may be missing between two that are sent.
Follows(m, n) == m < n /\ (n = m + 1 \/ n - 1 <= through)

\* What the client, or the stream, has before the event in a place of the wire.
Before(i) == IF i = 1 THEN cursor ELSE wire[i - 1]

\* Nothing is missing from a stream but what was compacted, and nothing is held
\* back unless its gap was.
NoSilentGap ==
  /\ pending # {} => cursor < through
  /\ phase = "filling" => pending # {}
  /\ phase = "streaming" =>
       /\ pending = {}
       /\ sent = IF wire = <<>> THEN cursor ELSE wire[Len(wire)]
       /\ \A i \in 1..Len(wire) : Follows(Before(i), wire[i])

\* What the steps of reader and stream need of each other.
HeldInv == IInv /\ Held /\ NoSilentGap

\* A set of numbers that is not empty has its minimum in it.
LEMMA Smallest ==
  ASSUME NEW T \in SUBSET Nat, T # {}
  PROVE  Min(T) \in T
<1>1. \E m \in T : \A n \in T : m <= n
  BY Least
<1> QED
  BY <1>1 DEF Min

\* A turn of the server's loop sends one stretch, from its cursor or from the
\* snapshot on.
LEMMA LoadSends ==
  ASSUME LogInv, Held, Load
  PROVE  \E first \in {sent + 1, through + 1}, j \in Nat \ {0} :
           /\ sent < first /\ through < first /\ first + j - 1 <= Len(log)
           /\ wire' = wire \o Stretch(first, j) /\ sent' = first + j - 1
<1> DEFINE batch == Page(sent, StreamBatch)
           ends  == {i \in 1..Len(batch) : log[batch[i]] = "end"}
           out   == IF ends = {} THEN batch ELSE SubSeq(batch, 1, Min(ends))
<1>1. /\ batch # <<>> /\ wire' = wire \o out /\ sent' = out[Len(out)]
  BY DEF Load, Batch, Last
<1>2. PICK first \in {sent + 1, through + 1}, k \in Nat :
        /\ sent < first /\ through < first
        /\ k > 0 => first + k - 1 <= Len(log)
        /\ batch = Stretch(first, k)
  <2>1. sent \in Nat /\ StreamBatch \in Nat
    BY SizeAssumption DEF SizeAssumption, Held
  <2> QED
    BY <2>1, PageIsStretch
<1> HIDE DEF batch
<1>3. k # 0 /\ Len(batch) = k /\ first \in Nat
  <2>1. first \in Nat
    BY <1>2 DEF LogInv, Held
  <2>2. Stretch(first, k) \in Seq(Int) /\ Len(Stretch(first, k)) = k
    BY <2>1 DEF Stretch
  <2>3. k # 0
    <3>1. ASSUME k = 0 PROVE FALSE
      <4>1. Stretch(first, k) = <<>>
        BY <2>2, <3>1, EmptySeq
      <4> QED
        BY <4>1, <1>1, <1>2
    <3> QED
      BY <3>1
  <2> QED
    BY <1>2, <2>1, <2>2, <2>3
<1>4. PICK j \in 1..k : out = Stretch(first, j)
  <2>1. CASE ends = {}
    BY <2>1, <1>2, <1>3
  <2>2. CASE ends # {}
    <3>1. ends \in SUBSET Nat /\ ends \subseteq 1..k
      BY <1>3
    <3> HIDE DEF ends
    <3>2. Min(ends) \in 1..k
      BY <2>2, <3>1, Smallest
    <3>3. out = SubSeq(Stretch(first, k), 1, Min(ends))
      BY <2>2, <1>2
    <3> QED
      BY <3>2, <3>3, <1>3, CutStretch
  <2> QED
    BY <2>1, <2>2
<1> HIDE DEF out, ends
<1>5. Len(out) = j /\ out[j] = first + j - 1
  BY <1>4, <1>3 DEF Stretch
<1>6. j \in Nat \ {0} /\ first + j - 1 <= Len(log)
  BY <1>2, <1>3 DEF LogInv
<1> QED
  BY <1>1, <1>2, <1>4, <1>5, <1>6

\* A stretch is put behind what is on the wire.
LEMMA WireGrows ==
  ASSUME wire \in Seq(Nat), NEW first \in Nat \ {0}, NEW j \in Nat \ {0},
         wire' = wire \o Stretch(first, j)
  PROVE  /\ wire' \in Seq(Nat) /\ Len(wire') = Len(wire) + j
         /\ \A i \in 1..Len(wire) + j :
              wire'[i] = IF i <= Len(wire) THEN wire[i]
                         ELSE first + (i - Len(wire)) - 1
<1>1. Stretch(first, j) \in Seq(Nat) /\ Len(Stretch(first, j)) = j
      /\ \A i \in 1..j : Stretch(first, j)[i] = first + i - 1
  BY DEF Stretch
<1>2. Len(wire) \in Nat /\ \A i \in 1..Len(wire) + j : i > Len(wire) => i - Len(wire) \in 1..j
  OBVIOUS
<1> HIDE DEF Stretch
<1>3. /\ wire \o Stretch(first, j) \in Seq(Nat)
      /\ Len(wire \o Stretch(first, j)) = Len(wire) + Len(Stretch(first, j))
      /\ \A i \in 1 .. Len(wire) + Len(Stretch(first, j)) : (wire \o Stretch(first, j))[i] =
           IF i <= Len(wire) THEN wire[i] ELSE Stretch(first, j)[i - Len(wire)]
  BY <1>1, ConcatProperties
<1> QED
  BY <1>1, <1>2, <1>3

\* What is sent follows what the stream has sent before.
LEMMA LoadHeld ==
  ASSUME HeldInv, Load
  PROVE  Held' /\ NoSilentGap'
<1>1. /\ UNCHANGED <<log, through, phase, cursor, pending, faults>>
      /\ server' \in {"open", "ended"}
  BY DEF Load, logVars, clientVars
<1>2. PICK first \in {sent + 1, through + 1}, j \in Nat \ {0} :
        /\ sent < first /\ through < first /\ first + j - 1 <= Len(log)
        /\ wire' = wire \o Stretch(first, j) /\ sent' = first + j - 1
  BY LoadSends DEF HeldInv, IInv
<1>3. /\ Len(log) \in Nat /\ sent \in Nat /\ through \in Nat /\ Len(wire) \in Nat
      /\ first \in Nat \ {0}
  BY <1>2 DEF HeldInv, IInv, LogInv, Held
<1>4. /\ wire' \in Seq(Nat) /\ Len(wire') = Len(wire) + j
      /\ \A i \in 1..Len(wire) + j :
              wire'[i] = IF i <= Len(wire) THEN wire[i]
                         ELSE first + (i - Len(wire)) - 1
  BY <1>2, <1>3, WireGrows DEF HeldInv, Held
<1>5. Held'
  <2>1. sent' \in 0..Len(log)
    BY <1>2, <1>3
  <2>2. ASSUME NEW i \in 1..Len(wire')
        PROVE  wire'[i] \in 1..Len(log)
    <3>1. i \in 1..Len(wire) + j /\ i \in Nat
      BY <1>3, <1>4
    <3>2. CASE i <= Len(wire)
      <4>1. i \in 1..Len(wire) /\ wire'[i] = wire[i]
        BY <3>1, <3>2, <1>3, <1>4
      <4> QED
        BY <4>1 DEF HeldInv, Held
    <3>3. CASE ~(i <= Len(wire))
      <4>1. wire'[i] = first + (i - Len(wire)) - 1
        BY <3>1, <3>3, <1>4
      <4>2. i - Len(wire) >= 1 /\ i - Len(wire) <= j
        BY <3>1, <3>3, <1>3
      <4> QED
        BY <4>1, <4>2, <3>1, <1>2, <1>3
    <3> QED
      BY <3>2, <3>3
  <2> QED
    BY <1>1, <1>4, <2>1, <2>2 DEF HeldInv, Held
<1>6. ASSUME phase = "streaming"
      PROVE  /\ pending = {}
             /\ sent' = wire'[Len(wire')] /\ wire' # <<>>
             /\ \A i \in 1..Len(wire') : Follows(Before(i), wire[i])'
  <2>1. /\ pending = {}
        /\ sent = IF wire = <<>> THEN cursor ELSE wire[Len(wire)]
        /\ \A i \in 1..Len(wire) : Follows(Before(i), wire[i])
    BY <1>6 DEF HeldInv, NoSilentGap
  <2>2. sent' = wire'[Len(wire')] /\ wire' # <<>>
    <3>1. Len(wire) + j \in 1..Len(wire) + j /\ ~(Len(wire) + j <= Len(wire))
          /\ (Len(wire) + j) - Len(wire) = j
      BY <1>3
    <3>2. wire'[Len(wire')] = first + j - 1
      BY <1>4, <3>1
    <3> QED
      BY <1>2, <1>4, <3>1, <3>2
  <2>3. ASSUME NEW i \in 1..Len(wire')
        PROVE  Follows(Before(i), wire[i])'
    <3>1. CASE i <= Len(wire)
      <4>1. i \in 1..Len(wire) /\ i \in 1..Len(wire) + j
        BY <3>1, <1>3, <1>4
      <4>2. wire'[i] = wire[i]
        BY <4>1, <3>1, <1>4
      <4>3. ASSUME i # 1 PROVE wire'[i - 1] = wire[i - 1]
        <5>1. i - 1 \in 1..Len(wire) + j /\ i - 1 <= Len(wire)
          BY <4>1, <4>3, <1>3
        <5> QED
          BY <5>1, <1>4
      <4> QED
        BY <4>1, <4>2, <4>3, <2>1, <1>1 DEF Follows, Before
    <3>2. CASE i = Len(wire) + 1
      <4>1. wire'[i] = first
        <5>1. i \in 1..Len(wire) + j /\ ~(i <= Len(wire)) /\ i - Len(wire) = 1
              /\ first + 1 - 1 = first
          BY <3>2, <1>3
        <5> QED
          BY <5>1, <1>4
      <4>2. sent = Before(i)'
        <5>1. CASE wire = <<>>
          <6>1. Len(wire) = 0
            BY <5>1
          <6> QED
            BY <6>1, <5>1, <3>2, <2>1, <1>1 DEF Before
        <5>2. CASE wire # <<>>
          <6>1. Len(wire) \in 1..Len(wire) + j /\ i # 1 /\ i - 1 = Len(wire)
            BY <5>2, <3>2, <1>3 DEF HeldInv, Held
          <6> QED
            BY <6>1, <5>2, <2>1, <1>4 DEF Before
        <5> QED
          BY <5>1, <5>2
      <4>3. sent < first /\ (first = sent + 1 \/ first - 1 <= through')
        BY <1>1, <1>2, <1>3
      <4> QED
        BY <4>1, <4>2, <4>3 DEF Follows
    <3>3. CASE i > Len(wire) + 1
      <4>1. i \in 1..Len(wire) + j /\ i - 1 \in 1..Len(wire) + j /\ i # 1
            /\ ~(i <= Len(wire)) /\ ~(i - 1 <= Len(wire))
        BY <3>3, <1>3, <1>4
      <4>2. wire'[i] = first + (i - Len(wire)) - 1
            /\ wire'[i - 1] = first + (i - 1 - Len(wire)) - 1
        BY <4>1, <1>4
      <4>3. wire'[i] = wire'[i - 1] + 1 /\ wire'[i - 1] < wire'[i]
        BY <4>1, <4>2, <1>3
      <4> QED
        BY <4>1, <4>3 DEF Follows, Before
    <3> QED
      BY <3>1, <3>2, <3>3, <1>3, <1>4
  <2> QED
    BY <2>1, <2>2, <2>3
<1>7. NoSilentGap'
  BY <1>1, <1>6 DEF NoSilentGap, HeldInv
<1> QED
  BY <1>5, <1>7

\* The events held back are one event ahead of the cursor or nothing.
LEMMA DeliverOne ==
  ASSUME cursor \in Nat, NEW h \in Nat, h > cursor, Deliver({h})
  PROVE  /\ h = cursor + 1 => cursor' = h /\ pending' = {}
         /\ h # cursor + 1 => cursor' = cursor /\ pending' = {h}
         /\ view' = FoldLeft(applyEvent, view,
                             [i \in 1..(cursor' - cursor) |-> Event(cursor + i)])
<1> DEFINE ready == {n \in {h} : \A m \in cursor + 1..n : m \in {h}}
           last  == Max({cursor} \cup ready)
<1>1. /\ cursor' = last /\ pending' = {n \in {h} : n > last}
      /\ view' = FoldLeft(applyEvent, view, [i \in 1..(last - cursor) |-> Event(cursor + i)])
  BY DEF Deliver
<1>2. last \in {cursor} \cup ready /\ \A n \in {cursor} \cup ready : n <= last
  <2>1. {cursor} \cup ready \in SUBSET (0..h) /\ {cursor} \cup ready # {}
    OBVIOUS
  <2> HIDE DEF ready
  <2> QED
    BY <2>1, Greatest
<1>3. CASE h = cursor + 1
  <2>1. ready = {h}
    BY <1>3
  <2> HIDE DEF last, ready
  <2>2. last = h
    BY <1>2, <1>3, <2>1
  <2> QED
    BY <1>1, <1>3, <2>2
<1>4. CASE h # cursor + 1
  <2>1. ready = {}
    <3>1. cursor + 1 \in cursor + 1..h
      BY <1>4
    <3> QED
      BY <1>4, <3>1
  <2> HIDE DEF last, ready
  <2>2. last = cursor
    BY <1>2, <2>1
  <2> QED
    BY <1>1, <1>4, <2>2
<1> QED
  BY <1>3, <1>4

\* What comes off the wire is the next event, or is behind a gap that has been
\* compacted; then the client goes to fill it.
LEMMA ReceiveOne ==
  ASSUME HeldInv, Receive
  PROVE  /\ wire[1] \in 1..Len(log) /\ Follows(cursor, wire[1])
         /\ \/ /\ wire[1] = cursor + 1 /\ cursor' = wire[1] /\ pending' = {}
               /\ \/ phase' = "done" /\ CloseStream
                  \/ phase' = "streaming" /\ wire' = Tail(wire) /\ UNCHANGED serverVars
            \/ /\ wire[1] # cursor + 1 /\ cursor' = cursor /\ pending' = {wire[1]}
               /\ phase' = "filling" /\ UNCHANGED <<serverVars, wire>>
         /\ view' = FoldLeft(applyEvent, view,
                             [i \in 1..(cursor' - cursor) |-> Event(cursor + i)])
<1>1. /\ phase = "streaming" /\ wire # <<>> /\ wire \in Seq(Nat) /\ cursor \in Nat
      /\ Len(log) \in Nat /\ pending = {}
  BY DEF HeldInv, IInv, LogInv, Held, NoSilentGap, Receive
<1>2. 1 \in 1..Len(wire) /\ Head(wire) = wire[1]
  BY <1>1, EmptySeq
<1>3. wire[1] \in 1..Len(log) /\ Follows(cursor, wire[1])
  BY <1>1, <1>2 DEF HeldInv, Held, NoSilentGap, Before
<1>4. wire[1] \in Nat /\ wire[1] > cursor
  BY <1>1, <1>3 DEF Follows
<1>5. Deliver({wire[1]}) /\ Accepted
  <2>1. Deliver(IF Head(wire) > cursor THEN pending \cup {Head(wire)} ELSE pending)
        /\ Accepted
    BY DEF Receive
  <2>2. (IF Head(wire) > cursor THEN pending \cup {Head(wire)} ELSE pending) = {wire[1]}
    BY <1>1, <1>2, <1>4
  <2> QED
    BY <2>1, <2>2
<1>6. /\ wire[1] = cursor + 1 => cursor' = wire[1] /\ pending' = {}
      /\ wire[1] # cursor + 1 => cursor' = cursor /\ pending' = {wire[1]}
      /\ view' = FoldLeft(applyEvent, view,
                             [i \in 1..(cursor' - cursor) |-> Event(cursor + i)])
  BY <1>1, <1>4, <1>5, DeliverOne
<1> QED
  BY <1>3, <1>5, <1>6 DEF Accepted

\* What is received is delivered, or held back behind a compacted gap.
LEMMA ReceiveHeld ==
  ASSUME HeldInv, Receive
  PROVE  Held' /\ NoSilentGap'
<1>1. UNCHANGED <<log, through, faults>>
  BY DEF Receive, logVars
<1>2. /\ phase = "streaming" /\ wire # <<>> /\ wire \in Seq(Nat) /\ cursor \in Nat
      /\ Len(log) \in Nat /\ through \in Nat /\ pending = {}
      /\ Len(wire) \in Nat \ {0}
  BY EmptySeq DEF HeldInv, IInv, LogInv, Held, NoSilentGap, Receive
<1>3. wire[1] \in 1..Len(log) /\ Follows(cursor, wire[1])
  BY ReceiveOne
<1>4. CASE /\ wire[1] = cursor + 1 /\ cursor' = wire[1] /\ pending' = {}
           /\ phase' = "done" /\ CloseStream
  <2>1. Held'
    BY <1>1, <1>2, <1>3, <1>4 DEF HeldInv, Held, CloseStream, Phase
  <2> QED
    BY <2>1, <1>4 DEF NoSilentGap
<1>5. CASE /\ wire[1] = cursor + 1 /\ cursor' = wire[1] /\ pending' = {}
           /\ phase' = "streaming" /\ wire' = Tail(wire) /\ UNCHANGED serverVars
  <2>1. /\ wire' \in Seq(Nat) /\ Len(wire') = Len(wire) - 1
        /\ \A i \in 1..Len(wire') : wire'[i] = wire[i + 1]
    BY <1>2, <1>5, HeadTailProperties
  <2>2. \A i \in 1..Len(wire') : i + 1 \in 1..Len(wire)
    BY <1>2, <2>1
  <2>3. Held'
    <3>1. \A i \in 1..Len(wire') : wire'[i] \in 1..Len(log)
      BY <2>1, <2>2 DEF HeldInv, Held
    <3> QED
      BY <1>1, <1>2, <1>3, <1>5, <2>1, <3>1 DEF HeldInv, Held, serverVars, Phase
  <2>4. sent' = IF wire' = <<>> THEN cursor' ELSE wire'[Len(wire')]
    <3>1. sent' = wire[Len(wire)]
      BY <1>2, <1>5 DEF HeldInv, NoSilentGap, serverVars
    <3>2. CASE wire' = <<>>
      <4>1. Len(wire) = 1
        BY <2>1, <3>2, <1>2
      <4> QED
        BY <4>1, <3>1, <3>2, <1>5
    <3>3. CASE wire' # <<>>
      <4>1. Len(wire') \in 1..Len(wire') /\ Len(wire') + 1 = Len(wire)
        BY <2>1, <3>3, <1>2, EmptySeq
      <4> QED
        BY <4>1, <3>1, <3>3, <2>1
    <3> QED
      BY <3>2, <3>3
  <2>5. ASSUME NEW i \in 1..Len(wire')
        PROVE  Follows(Before(i), wire[i])'
    <3>1. i + 1 \in 1..Len(wire) /\ i + 1 # 1 /\ (i + 1) - 1 = i /\ i \in Nat
      BY <2>1, <2>2, <1>2
    <3>2. Follows(wire[i], wire[i + 1])
      <4>1. Follows(Before(i + 1), wire[i + 1])
        BY <3>1, <1>2 DEF HeldInv, NoSilentGap
      <4> QED
        BY <4>1, <3>1 DEF Before
    <3>3. wire[i] = Before(i)'
      <4>1. CASE i = 1
        BY <4>1, <1>5 DEF Before
      <4>2. CASE i # 1
        <5>1. i - 1 \in 1..Len(wire') /\ (i - 1) + 1 = i
          BY <4>2, <2>1, <1>2
        <5> QED
          BY <5>1, <4>2, <2>1 DEF Before
      <4> QED
        BY <4>1, <4>2
    <3> QED
      BY <3>2, <3>3, <2>1, <1>1 DEF Follows
  <2> QED
    BY <1>5, <2>3, <2>4, <2>5 DEF NoSilentGap
<1>6. CASE /\ wire[1] # cursor + 1 /\ cursor' = cursor /\ pending' = {wire[1]}
           /\ phase' = "filling" /\ UNCHANGED <<serverVars, wire>>
  <2>1. Held'
    BY <1>1, <1>2, <1>3, <1>6 DEF HeldInv, Held, serverVars, Phase
  <2>2. cursor' < through'
    BY <1>1, <1>2, <1>3, <1>6 DEF Follows
  <2> QED
    BY <2>1, <2>2, <1>6 DEF NoSilentGap
<1> QED
  BY <1>4, <1>5, <1>6, ReceiveOne

\* A client only goes to fill a gap that is compacted, so that it is sent to
\* the snapshot.
LEMMA GapIsCompacted ==
  ASSUME HeldInv, FillGap
  PROVE  /\ Compacted(cursor) /\ HistoryCompacted /\ CloseStream
         /\ UNCHANGED <<cursor, pending, view, logVars, faults>>
  BY DEF HeldInv, NoSilentGap, FillGap, Compacted

\* The log grows, and compaction goes on: what is held stays what it was.
LEMMA WriterHeld ==
  ASSUME HeldInv, UNCHANGED <<serverVars, wire, clientVars, faults>>,
         Len(log) <= Len(log') /\ Len(log') <= MaxEvents,
         Len(log') \in Nat, through' \in Nat, through <= through'
  PROVE  Held' /\ NoSilentGap'
<1>1. Len(log) \in Nat /\ through \in Nat
  BY DEF HeldInv, IInv, LogInv
<1>2. UNCHANGED <<server, sent, wire, phase, cursor, pending, faults>>
  BY DEF serverVars, clientVars
<1>3. Held'
  <2>1. \A i \in 1..Len(wire) : wire[i] \in 1..Len(log')
    BY <1>1 DEF HeldInv, Held
  <2>2. sent \in 0..Len(log') /\ cursor \in 0..Len(log') /\ pending \subseteq 1..Len(log')
    BY <1>1 DEF HeldInv, Held
  <2> QED
    BY <1>2, <2>1, <2>2 DEF HeldInv, Held
<1>4. \A i \in 1..Len(wire) : Before(i)' = Before(i)
  BY <1>2 DEF Before
<1>5. ASSUME phase = "streaming", NEW i \in 1..Len(wire) PROVE Follows(Before(i), wire[i])'
  <2>1. Follows(Before(i), wire[i]) /\ wire[i] \in Nat
    BY <1>5 DEF HeldInv, NoSilentGap, Held
  <2> QED
    BY <2>1, <1>1, <1>2, <1>4 DEF Follows
<1>6. NoSilentGap'
  <2>1. cursor < through => cursor < through'
    BY <1>1 DEF HeldInv, Held
  <2> QED
    BY <1>2, <1>5, <2>1 DEF HeldInv, NoSilentGap
<1> QED
  BY <1>3, <1>6

\* Without a stream, and with nothing new that is held back, there is no gap.
LEMMA IdleHeld ==
  ASSUME HeldInv, UNCHANGED logVars,
         faults' \in 0..MaxFaults, phase' \in Phase \ {"streaming", "filling"},
         CloseStream \/ UNCHANGED <<serverVars, wire>>,
         \/ UNCHANGED <<cursor, pending>>
         \/ cursor' = through /\ pending' = {}
  PROVE  Held' /\ NoSilentGap'
<1>1. UNCHANGED <<log, through>> /\ through \in 0..Len(log)
  BY DEF logVars, HeldInv, IInv, LogInv
<1>2. Held'
  <2>1. /\ server' \in {"closed", "open", "ended"} /\ sent' \in 0..Len(log)
        /\ wire' \in Seq(Nat) /\ \A i \in 1..Len(wire') : wire'[i] \in 1..Len(log)
    <3>1. CASE CloseStream
      <4>1. wire' \in Seq(Nat) /\ 1..Len(wire') = {}
        BY <3>1 DEF CloseStream
      <4> QED
        BY <3>1, <4>1, <1>1 DEF CloseStream
    <3>2. CASE UNCHANGED <<serverVars, wire>>
      BY <3>2 DEF HeldInv, Held, serverVars
    <3> QED
      BY <3>1, <3>2
  <2>2. cursor' \in 0..Len(log) /\ pending' \subseteq 1..Len(log)
    BY <1>1 DEF HeldInv, Held
  <2> QED
    BY <1>1, <2>1, <2>2 DEF HeldInv, Held
<1>3. NoSilentGap'
  BY <1>1 DEF HeldInv, NoSilentGap
<1> QED
  BY <1>2, <1>3

\* Cursors stay in the log and gaps are compacted, whatever happens.
LEMMA HeldStep ==
  ASSUME HeldInv, Next
  PROVE  Held' /\ NoSilentGap'
<1>0. Len(log) \in Nat /\ through \in Nat /\ MaxEvents \in Nat /\ MaxFaults \in Nat
      /\ faults \in 0..MaxFaults
  BY SizeAssumption DEF SizeAssumption, HeldInv, IInv, LogInv, Held
<1>1. CASE \E k \in Kind : AppendEvent(k)
  <2>1. PICK k \in Kind : AppendEvent(k)
    BY <1>1
  <2>2. log' = Append(log, k) /\ Len(log) + 1 <= MaxEvents
        /\ UNCHANGED <<through, serverVars, wire, clientVars, faults>>
    BY <2>1 DEF AppendEvent
  <2>3. Len(log') = Len(log) + 1
    BY <2>2 DEF HeldInv, IInv, LogInv
  <2> QED
    BY <2>2, <2>3, <1>0, WriterHeld
<1>2. CASE \E n \in 1..CompactBatch : Compact(n)
  <2>1. PICK n \in 1..CompactBatch : Compact(n)
    BY <1>2
  <2>2. through' = through + n /\ n \in Nat
        /\ UNCHANGED <<log, serverVars, wire, clientVars, faults>>
    BY <2>1, SizeAssumption DEF Compact, SizeAssumption
  <2> QED
    BY <2>2, <1>0, WriterHeld DEF HeldInv, Held
<1>3. CASE Load
  BY <1>3, LoadHeld
<1>4. CASE Connect
  <2>1. CASE Compacted(cursor)
    <3>1. phase' = "recovering" /\ UNCHANGED <<logVars, cursor, pending, faults, serverVars, wire>>
      BY <1>4, <2>1 DEF Connect, HistoryCompacted
    <3> QED
      BY <3>1, <1>0, IdleHeld DEF Phase
  <2>2. CASE ~Compacted(cursor)
    <3>1. /\ phase' = "streaming" /\ server' = "open" /\ sent' = cursor /\ wire' = <<>>
          /\ UNCHANGED <<log, through, cursor, pending, faults>>
      BY <1>4, <2>2 DEF Connect, logVars
    <3>2. pending = {}
      BY <2>2, <1>0 DEF HeldInv, NoSilentGap, Held, Compacted
    <3>3. Held'
      BY <3>1 DEF HeldInv, Held, Phase
    <3>4. 1..Len(wire') = {}
      BY <3>1
    <3> QED
      BY <3>1, <3>2, <3>3, <3>4 DEF NoSilentGap
  <2> QED
    BY <2>1, <2>2
<1>5. CASE Receive
  BY <1>5, ReceiveHeld
<1>6. CASE FillGap
  <2>1. phase' = "recovering" /\ CloseStream /\ UNCHANGED <<cursor, pending, logVars, faults>>
    BY <1>6, GapIsCompacted DEF HistoryCompacted
  <2> QED
    BY <2>1, <1>0, IdleHeld DEF Phase
<1>7. CASE Recover
  <2>1. /\ phase' \in {"connecting", "waiting"} /\ UNCHANGED <<logVars, serverVars, wire, faults>>
        /\ \/ UNCHANGED <<cursor, pending>>
           \/ cursor' = through /\ pending' = {}
    BY <1>7 DEF Recover
  <2> QED
    BY <2>1, <1>0, IdleHeld DEF Phase
<1>8. CASE Retry
  <2>1. phase' = "connecting" /\ UNCHANGED <<logVars, serverVars, wire, cursor, pending, faults>>
    BY <1>8 DEF Retry
  <2> QED
    BY <2>1, <1>0, IdleHeld DEF Phase
<1>9. CASE Fault
  <2>1. phase' = "waiting" /\ CloseStream /\ UNCHANGED <<logVars, cursor, pending>>
        /\ faults' = faults + 1 /\ faults < MaxFaults
    BY <1>9 DEF Fault
  <2>2. faults' \in 0..MaxFaults
    BY <2>1, <1>0
  <2> QED
    BY <2>1, <2>2, IdleHeld DEF Phase
<1> QED
  BY <1>1, <1>2, <1>3, <1>4, <1>5, <1>6, <1>7, <1>8, <1>9 DEF Next, Client

-----------------------------------------------------------------------------
(* The folds. *)

\* Every projection is the fold of a prefix of the log, and none is of more
\* than its bound allows.
Folded ==
  /\ ideal \in Seq(Projection) /\ Len(ideal) = Len(log) + 1
  /\ \A n \in 1..Len(log) : ideal[n + 1] = applyEvent(ideal[n], Event(n))
  /\ view \in Projection /\ saved \in Projection

\* The server and the client agree on every event but the output of a task.
SameFold == "supervisor.task.output.delta" \notin Kind

\* The client and the snapshot show what one shows that saw every event.
Agree == view = ideal[cursor + 1] /\ saved = ideal[through + 1]

\* The inductive invariant.
Inv == HeldInv /\ Folded /\ (SameFold => Agree)

\* One event keeps a projection in its bounds.
LEMMA FoldTyped ==
  ASSUME NEW p \in Projection, NEW e, e.sequence \in Number, NEW kinds
  PROVE  Fold(p, e, kinds) \in Projection
<1>1. /\ p.next \in 1..MaxEvents + 1 /\ p.over \in BOOLEAN
      /\ p.output \in Seq(Number) /\ p.children \in Seq(Number)
  BY DEF Projection
<1>2. MaxEvents \in Nat
  BY SizeAssumption DEF SizeAssumption
<1>3. e.sequence + 1 \in 1..MaxEvents + 1
  BY <1>2 DEF Number
<1>4. /\ Append(p.output, e.sequence) \in Seq(Number)
      /\ Append(p.children, e.sequence) \in Seq(Number)
      /\ <<e.sequence>> \in Seq(Number)
  BY <1>1
<1>5. (p.over \/ e.type \in LastOfRun) \in BOOLEAN
  OBVIOUS
<1> QED
  BY <1>1, <1>3, <1>4, <1>5 DEF Fold, Projection

\* So it does on both sides.
LEMMA AppliedTyped ==
  ASSUME NEW p \in Projection, NEW e, e.sequence \in Number
  PROVE  applyEvent(p, e) \in Projection /\ apply_projection_event(p, e) \in Projection
  BY FoldTyped DEF applyEvent, apply_projection_event

\* Where no task puts anything out, the folds are the same.
LEMMA FoldsAgree ==
  ASSUME SameFold, log \in Seq(Kind), NEW p, NEW n \in 1..Len(log)
  PROVE  apply_projection_event(p, Event(n)) = applyEvent(p, Event(n))
<1>1. Event(n).type # "supervisor.task.output.delta"
  BY DEF SameFold, Event
<1> QED
  BY <1>1 DEF apply_projection_event, applyEvent, Fold, ChildOutput

\* Client and server go through the log from the projection they have.
LEMMA ClientCatchesUp ==
  ASSUME HeldInv, Folded, NEW n \in Nat, cursor + n <= Len(log)
  PROVE  LET end == FoldLeft(applyEvent, view, [i \in 1..n |-> Event(cursor + i)])
         IN /\ end \in Projection
            /\ Agree => end = ideal[cursor + n + 1]
<1> DEFINE e == [i \in 1..n |-> Event(cursor + i)]
<1>0. cursor \in Nat /\ Len(log) \in Nat /\ Len(log) <= MaxEvents /\ MaxEvents \in Nat
  BY SizeAssumption DEF SizeAssumption, HeldInv, IInv, LogInv, Held
<1>1. \A i \in 1..n : cursor + i \in 1..Len(log) /\ cursor + i \in Number
                      /\ e[i] = Event(cursor + i)
  BY <1>0 DEF Number
<1>2. DOMAIN e = 1..n
  OBVIOUS
<1> HIDE DEF e
<1>3. \A p \in Projection, i \in 1..n : applyEvent(p, e[i]) \in Projection
  <2> SUFFICES ASSUME NEW p \in Projection, NEW i \in 1..n
               PROVE  applyEvent(p, e[i]) \in Projection
    OBVIOUS
  <2>1. e[i] = Event(cursor + i) /\ cursor + i \in Number
    BY <1>1
  <2>2. e[i].sequence \in Number
    BY <2>1 DEF Event
  <2> QED
    BY <2>2, AppliedTyped
<1>4. PICK v \in [0..n -> Projection] :
        /\ v[0] = view /\ v[n] = FoldLeft(applyEvent, view, e)
        /\ \A i \in 1..n : v[i] = applyEvent(v[i - 1], e[i])
  <2>1. view \in Projection
    BY DEF Folded
  <2>2. ClientPath(Projection, n, view, e)
    BY <2>1, <1>2, <1>3, ClientFolds
  <2> QED
    BY <2>2 DEF ClientPath
<1>5. v[n] \in Projection
  BY <1>4
<1>6. ASSUME Agree PROVE v[n] = ideal[cursor + n + 1]
  <2> DEFINE S == {i \in 0..n : v[i] = ideal[cursor + i + 1]}
  <2>1. 0 \in S
    BY <1>0, <1>4, <1>6 DEF Agree
  <2>2. ASSUME NEW k \in 0..n, k < n, k \in S PROVE k + 1 \in S
    <3>1. k + 1 \in 1..n /\ k + 1 \in 0..n /\ (k + 1) - 1 = k /\ v[k] = ideal[cursor + k + 1]
          /\ cursor + k + 1 = cursor + (k + 1)
      BY <2>2, <1>0
    <3>2. v[k + 1] = applyEvent(ideal[cursor + (k + 1)], Event(cursor + (k + 1)))
      BY <3>1, <1>1, <1>4
    <3>3. ideal[cursor + (k + 1) + 1] = applyEvent(ideal[cursor + (k + 1)], Event(cursor + (k + 1)))
      BY <3>1, <1>1 DEF Folded
    <3> QED
      BY <3>1, <3>2, <3>3
  <2> HIDE DEF S
  <2>3. 0..n \subseteq S /\ n \in 0..n
    BY <2>1, <2>2, UpTo
  <2> QED
    BY <2>3 DEF S
<1> QED
  BY <1>4, <1>5, <1>6 DEF e

\* The same for the snapshot and a batch that is compacted.
LEMMA ServerCatchesUp ==
  ASSUME HeldInv, Folded, NEW n \in Nat, through + n <= Len(log)
  PROVE  LET end == FoldLeft(apply_projection_event, saved,
                             [i \in 1..n |-> Event(through + i)])
         IN /\ end \in Projection
            /\ SameFold /\ Agree => end = ideal[through + n + 1]
<1> DEFINE e == [i \in 1..n |-> Event(through + i)]
<1>0. through \in Nat /\ Len(log) \in Nat /\ Len(log) <= MaxEvents /\ MaxEvents \in Nat
      /\ log \in Seq(Kind)
  BY SizeAssumption DEF SizeAssumption, HeldInv, IInv, LogInv, Held
<1>1. \A i \in 1..n : through + i \in 1..Len(log) /\ through + i \in Number
                      /\ e[i] = Event(through + i)
  BY <1>0 DEF Number
<1>2. DOMAIN e = 1..n
  OBVIOUS
<1> HIDE DEF e
<1>3. \A p \in Projection, i \in 1..n : apply_projection_event(p, e[i]) \in Projection
  <2> SUFFICES ASSUME NEW p \in Projection, NEW i \in 1..n
               PROVE  apply_projection_event(p, e[i]) \in Projection
    OBVIOUS
  <2>1. e[i] = Event(through + i) /\ through + i \in Number
    BY <1>1
  <2>2. e[i].sequence \in Number
    BY <2>1 DEF Event
  <2> QED
    BY <2>2, AppliedTyped
<1>4. PICK v \in [0..n -> Projection] :
        /\ v[0] = saved /\ v[n] = FoldLeft(apply_projection_event, saved, e)
        /\ \A i \in 1..n : v[i] = apply_projection_event(v[i - 1], e[i])
  <2>1. saved \in Projection
    BY DEF Folded
  <2>2. ServerPath(Projection, n, saved, e)
    BY <2>1, <1>2, <1>3, ServerFolds
  <2> QED
    BY <2>2 DEF ServerPath
<1>5. v[n] \in Projection
  BY <1>4
<1>6. ASSUME SameFold, Agree PROVE v[n] = ideal[through + n + 1]
  <2> DEFINE S == {i \in 0..n : v[i] = ideal[through + i + 1]}
  <2>1. 0 \in S
    BY <1>0, <1>4, <1>6 DEF Agree
  <2>2. ASSUME NEW k \in 0..n, k < n, k \in S PROVE k + 1 \in S
    <3>1. k + 1 \in 1..n /\ k + 1 \in 0..n /\ (k + 1) - 1 = k /\ v[k] = ideal[through + k + 1]
          /\ through + k + 1 = through + (k + 1)
      BY <2>2, <1>0
    <3>2. v[k + 1] = apply_projection_event(ideal[through + (k + 1)], Event(through + (k + 1)))
      BY <3>1, <1>1, <1>4
    <3>3. ideal[through + (k + 1) + 1] = applyEvent(ideal[through + (k + 1)], Event(through + (k + 1)))
      BY <3>1, <1>1 DEF Folded
    <3>4. v[k + 1] = ideal[through + (k + 1) + 1]
      BY <3>1, <3>2, <3>3, <1>0, <1>1, <1>6, FoldsAgree
    <3> QED
      BY <3>1, <3>4
  <2> HIDE DEF S
  <2>3. 0..n \subseteq S /\ n \in 0..n
    BY <2>1, <2>2, UpTo
  <2> QED
    BY <2>3 DEF S
<1> QED
  BY <1>4, <1>5, <1>6 DEF e

\* The log and its folds stay, and what the client and the snapshot show is
\* still the fold of what they have.
LEMMA StillFolded ==
  ASSUME Inv, UNCHANGED <<log, ideal>>, view' \in Projection, saved' \in Projection,
         SameFold => Agree'
  PROVE  Folded' /\ (SameFold => Agree')
<1>1. \A n : Event(n)' = Event(n)
  BY DEF Event
<1> QED
  BY <1>1 DEF Inv, Folded, applyEvent

\* From one number to a later one.
LEMMA Distance ==
  ASSUME NEW a \in Int, NEW b \in Int, a <= b
  PROVE  b - a \in Nat /\ a + (b - a) = b
  OBVIOUS

\* Every step leaves folds of what there is.
LEMMA FoldStep ==
  ASSUME Inv, Next
  PROVE  Folded' /\ (SameFold => Agree')
<1>0. /\ Len(log) \in Nat /\ Len(log) <= MaxEvents /\ MaxEvents \in Nat
      /\ through \in 0..Len(log) /\ cursor \in 0..Len(log) /\ log \in Seq(Kind)
      /\ ideal \in Seq(Projection) /\ view \in Projection /\ saved \in Projection
      /\ Len(ideal) = Len(log) + 1
  BY SizeAssumption DEF SizeAssumption, Inv, HeldInv, IInv, LogInv, Held, Folded
<1>1. CASE \E k \in Kind : AppendEvent(k)
  <2>1. PICK k \in Kind : AppendEvent(k)
    BY <1>1
  <2> DEFINE n == Len(log) + 1
             e == [sequence |-> n, type |-> k]
             p == applyEvent(ideal[n], e)
  <2>2. /\ log' = Append(log, k) /\ n <= MaxEvents /\ ideal' = Append(ideal, p)
        /\ UNCHANGED <<through, saved, cursor, view>>
    BY <2>1 DEF AppendEvent, clientVars
  <2>3. p \in Projection
    <3>1. e.sequence \in Number /\ ideal[n] \in Projection
      BY <1>0, <2>2 DEF Number
    <3> HIDE DEF e
    <3> QED
      BY <3>1, AppliedTyped
  <2> HIDE DEF p
  <2>4. /\ Len(log') = n /\ log'[n] = k /\ \A m \in 1..Len(log) : log'[m] = log[m]
    BY <2>2, <1>0
  <2>5. /\ ideal' \in Seq(Projection) /\ Len(ideal') = n + 1 /\ ideal'[n + 1] = p
        /\ \A m \in 1..n : ideal'[m] = ideal[m]
    BY <2>2, <2>3, <1>0
  <2>6. ASSUME NEW m \in 1..Len(log')
        PROVE  ideal'[m + 1] = applyEvent(ideal'[m], Event(m)')
    <3>1. CASE m = n
      <4>1. Event(m)' = e /\ ideal'[m] = ideal[m]
        BY <3>1, <2>4, <2>5, <1>0 DEF Event
      <4> QED
        BY <3>1, <4>1, <2>5 DEF p
    <3>2. CASE m # n
      <4>1. m \in 1..Len(log) /\ m \in 1..n /\ m + 1 \in 1..n
        BY <3>2, <2>4, <1>0
      <4>2. Event(m)' = Event(m)
        BY <4>1, <2>4 DEF Event
      <4>3. ideal'[m] = ideal[m] /\ ideal'[m + 1] = ideal[m + 1]
        BY <4>1, <2>5
      <4> QED
        BY <4>1, <4>2, <4>3 DEF Inv, Folded
    <3> QED
      BY <3>1, <3>2
  <2>7. Folded'
    BY <2>2, <2>4, <2>5, <2>6, <1>0 DEF Folded, applyEvent
  <2>8. SameFold => Agree'
    <3>1. cursor + 1 \in 1..n /\ through + 1 \in 1..n
      BY <1>0
    <3> QED
      BY <3>1, <2>2, <2>5 DEF Inv, Agree
  <2> QED
    BY <2>7, <2>8
<1>2. CASE \E n \in 1..CompactBatch : Compact(n)
  <2>1. PICK n \in 1..CompactBatch : Compact(n)
    BY <1>2
  <2>2. /\ through' = through + n /\ through + n <= Len(log) /\ n \in Nat
        /\ saved' = FoldLeft(apply_projection_event, saved, [i \in 1..n |-> Event(through + i)])
        /\ UNCHANGED <<log, ideal, cursor, view>>
    BY <2>1, SizeAssumption DEF Compact, SizeAssumption, clientVars
  <2>3. saved' \in Projection /\ (SameFold /\ Agree => saved' = ideal[through + n + 1])
    BY <2>2, ServerCatchesUp DEF Inv
  <2>4. SameFold => Agree'
    BY <2>2, <2>3 DEF Inv, Agree
  <2> QED
    BY <2>2, <2>3, <2>4, <1>0, StillFolded
<1>3. CASE UNCHANGED <<logVars, cursor, view>>
  <2>1. UNCHANGED <<log, ideal, saved, through, cursor, view>>
    BY <1>3 DEF logVars
  <2>2. SameFold => Agree'
    BY <2>1 DEF Inv, Agree
  <2> QED
    BY <2>1, <2>2, <1>0, StillFolded
<1>4. CASE Receive
  <2>1. UNCHANGED <<log, ideal, saved, through>>
    BY <1>4 DEF Receive, logVars
  <2>2. /\ cursor' \in 0..Len(log) /\ cursor' >= cursor
        /\ view' = FoldLeft(applyEvent, view,
                            [i \in 1..(cursor' - cursor) |-> Event(cursor + i)])
    BY <1>4, <1>0, ReceiveOne DEF Inv, Follows
  <2>3. cursor' - cursor \in Nat /\ cursor + (cursor' - cursor) = cursor'
        /\ cursor + (cursor' - cursor) <= Len(log)
    <3>1. cursor' \in Int /\ cursor \in Int /\ cursor <= cursor' /\ cursor' <= Len(log)
      BY <2>2, <1>0
    <3> QED
      BY <3>1, Distance
  <2>4. view' \in Projection /\ (Agree => view' = ideal[cursor' + 1])
    BY <2>2, <2>3, ClientCatchesUp DEF Inv
  <2>5. SameFold => Agree'
    BY <2>1, <2>4 DEF Inv, Agree
  <2> QED
    BY <2>1, <2>4, <2>5, <1>0, StillFolded
<1>5. CASE Recover
  <2>1. CASE through = problem
    <3>1. view' = saved /\ cursor' = through /\ UNCHANGED <<log, ideal, saved, through>>
      BY <1>5, <2>1 DEF Recover, logVars
    <3>2. SameFold => Agree'
      BY <3>1 DEF Inv, Agree
    <3> QED
      BY <3>1, <3>2, <1>0, StillFolded
  <2>2. CASE through # problem
    BY <1>5, <2>2, <1>3 DEF Recover
  <2> QED
    BY <2>1, <2>2
<1>6. CASE FillGap
  BY <1>3, <1>6, GapIsCompacted DEF Inv
<1>7. CASE Load \/ Connect \/ Retry \/ Fault
  BY <1>3, <1>7 DEF Load, Connect, Retry, Fault, clientVars
<1> QED
  BY <1>1, <1>2, <1>4, <1>5, <1>6, <1>7 DEF Next, Client

\* What is held, sent and folded in every reachable state.
THEOREM StreamInvariance == Spec => []Inv
<1>1. Init => Inv
  <2> SUFFICES ASSUME Init PROVE Inv
    OBVIOUS
  <2>1. MaxEvents \in Nat /\ MaxFaults \in Nat
    BY SizeAssumption DEF SizeAssumption
  <2>2. IInv
    BY DEF Init, IInv, LogInv, SnapshotMeetsRows, RecoveryGoesForward
  <2>3. Len(log) = 0 /\ Len(wire) = 0 /\ wire = <<>> /\ wire \in Seq(Nat)
    BY DEF Init
  <2>4. Held /\ NoSilentGap
    BY <2>1, <2>3 DEF Init, Held, NoSilentGap, Phase
  <2>5. empty_projection \in Projection
    BY <2>1 DEF empty_projection, Projection
  <2>6. Folded /\ Agree
    BY <2>3, <2>5 DEF Init, Folded, Agree
  <2> QED
    BY <2>2, <2>4, <2>6 DEF Inv, HeldInv
<1>2. Inv /\ [Next]_vars => Inv'
  <2> SUFFICES ASSUME Inv, [Next]_vars PROVE Inv'
    OBVIOUS
  <2>1. CASE Next
    <3>1. IInv'
      BY <2>1, LogStep DEF Inv, HeldInv
    <3> QED
      BY <2>1, <3>1, HeldStep, FoldStep DEF Inv, HeldInv
  <2>2. CASE UNCHANGED vars
    BY <2>2 DEF vars, logVars, serverVars, clientVars, Inv, HeldInv, IInv, LogInv,
       SnapshotMeetsRows, RecoveryGoesForward, Held, NoSilentGap, Before, Follows,
       Folded, Agree, Event, applyEvent
  <2> QED
    BY <2>1, <2>2
<1> QED
  BY <1>1, <1>2, PTL DEF Spec

\* No event is lost or kept twice by compaction, and compaction never meets
\* the gap for which compact_run_events raises RuntimeError.
THEOREM CompactionCorrect == Spec => []SnapshotMeetsRows
  BY StreamInvariance, PTL DEF Inv, HeldInv, IInv, LogInv

\* RunEventSequencer.reset is never asked to go back behind its cursor.
THEOREM RecoveryCorrect == Spec => []RecoveryGoesForward
  BY StreamInvariance, PTL DEF Inv, HeldInv, IInv

\* Cursors stay in the log, and every projection is of the bounds it has.
THEOREM TypeCorrect == Spec => []TypeOK
<1>1. Inv => TypeOK
  <2> SUFFICES ASSUME Inv PROVE TypeOK
    OBVIOUS
  <2>1. /\ log \in Seq(Kind) /\ Len(log) \in Nat /\ Len(log) <= MaxEvents /\ MaxEvents \in Nat
        /\ through \in 0..Len(log) /\ problem \in 0..through
        /\ sent \in 0..Len(log) /\ cursor \in 0..Len(log)
    BY SizeAssumption DEF SizeAssumption, Inv, HeldInv, IInv, LogInv, Held
  <2>2. 0..Len(log) \subseteq 0..MaxEvents /\ 1..Len(log) \subseteq Number
        /\ 0..through \subseteq 0..MaxEvents
    BY <2>1 DEF Number
  <2>3. rows \subseteq Number
    <3>1. rows \subseteq 1..Len(log)
      BY <2>1 DEF Inv, HeldInv, IInv, LogInv, SnapshotMeetsRows
    <3> QED
      BY <3>1, <2>2
  <2>4. wire \in Seq(Number) /\ pending \subseteq Number
    <3>1. wire \in Seq(Nat) /\ \A i \in 1..Len(wire) : wire[i] \in Number
      BY <2>2 DEF Inv, HeldInv, Held
    <3>2. pending \subseteq 1..Len(log)
      BY DEF Inv, HeldInv, Held
    <3> QED
      BY <3>1, <3>2, <2>2
  <2>5. {view, saved} \cup ToSet(ideal) \subseteq Projection
    BY DEF Inv, Folded, ToSet
  <2>6. /\ server \in {"closed", "open", "ended"} /\ phase \in Phase
        /\ faults \in 0..MaxFaults
    BY DEF Inv, HeldInv, Held
  <2> QED
    BY <2>1, <2>2, <2>3, <2>4, <2>5, <2>6 DEF TypeOK
<1> QED
  BY <1>1, StreamInvariance, PTL

\* A client fills a gap only where the history is compacted, so that the page
\* it asks for is a 410 and "gap is unresolved" is never raised.
THEOREM GapsCorrect == Spec => []GapsAreCompacted
<1>1. Inv => GapsAreCompacted
  BY DEF Inv, HeldInv, NoSilentGap, GapsAreCompacted, Compacted
<1> QED
  BY <1>1, StreamInvariance, PTL

\* Where no supervisor task puts anything out, for which the folds of server
\* and client differ, the client shows the fold of all events up to its cursor.
THEOREM ViewCorrect ==
  ASSUME SameFold
  PROVE  Spec => []ViewIsFold
<1>1. Inv => ViewIsFold
  BY DEF Inv, Agree, ViewIsFold
<1> QED
  BY <1>1, StreamInvariance, PTL
=============================================================================
