----------------------------- MODULE MCDeviceAuth -----------------------------
(* The model checker's instance of DeviceAuth.  Threads and tokens are model *)
(* values; no symmetry is declared, since liveness is checked with it.       *)
EXTENDS DeviceAuth
=============================================================================
