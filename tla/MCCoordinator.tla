---------------------------- MODULE MCCoordinator ----------------------------
(***************************************************************************)
(* An instance of Coordinator for TLC.                                     *)
(***************************************************************************)
EXTENDS Coordinator

CONSTANT r1

\* One Run: its second attempt follows a first one that was lost, has failed
\* or was suspended, and whose child the worker has to remove before.
OneRun == {r1}

BothVendors == {"sqlite", "postgresql"}

\* SQLite alone can fail between handing a command over and consuming it.
SteersByVendor == [v \in BothVendors |-> IF v = "sqlite" THEN 2 ELSE 0]
=============================================================================
