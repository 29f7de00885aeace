-------------------------- MODULE MCEventLifecycle --------------------------
(* The TLC instance of EventLifecycle; no symmetry, since EventuallyEnded is *)
(* a liveness property.                                                    *)
EXTENDS EventLifecycle
=============================================================================
