--------------------------- MODULE MCKnowledgeIndex ---------------------------
(***************************************************************************)
(* An instance of KnowledgeIndex for TLC.                                  *)
(***************************************************************************)
EXTENDS KnowledgeIndex
=============================================================================
