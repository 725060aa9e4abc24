------------------------------- MODULE MCPaging -------------------------------
(* The model checker's instance of Paging.                                  *)
EXTENDS Paging
=============================================================================
