--------------------------- MODULE MCDatabaseFile ----------------------------
(* The model checker's instance of DatabaseFile.                            *)
EXTENDS DatabaseFile
=============================================================================
