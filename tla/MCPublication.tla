---------------------------- MODULE MCPublication ----------------------------
(* The model checker's instances of Publication.                            *)
EXTENDS Publication
=============================================================================
