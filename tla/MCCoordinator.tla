---------------------------- MODULE MCCoordinator ----------------------------
(* The model checker's instances of Coordinator.                            *)
EXTENDS Coordinator
=============================================================================
