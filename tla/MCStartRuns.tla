----------------------------- MODULE MCStartRuns -----------------------------
(***************************************************************************)
(* An instance of StartRuns for TLC: two callers, one of which comes back.   *)
(***************************************************************************)
EXTENDS StartRuns

CONSTANTS c1, c2, k1, k2, b1, b2, talk

TwoClients  == {c1, c2}
Twice       == [c \in TwoClients |-> IF c = c1 THEN 2 ELSE 1]
Connections == {<<c1, 1>>, <<c1, 2>>, <<c2, 1>>}

Want(op, key, body, of) == [op |-> op, key |-> key, body |-> body, of |-> of]
Both(first, second)     == [c \in TwoClients |-> IF c = c1 THEN first ELSE second]

\* The same request twice, for each operation; a key used for another
\* request; and two requests of one conversation.
Conflicts ==
  {Both(Want(op, k1, b1, Apart), Want(op, k1, b1, Apart)) :
      op \in {"application", "agent", "workflow"}}
  \cup {Both(Want("supervisor", k1, b1, talk), Want("supervisor", k1, b1, talk)),
        Both(Want("supervisor", k1, b1, talk), Want("supervisor", k2, b1, talk)),
        Both(Want("application", k1, b1, Apart), Want("application", k1, b2, Apart))}
=============================================================================
