----------------------------- MODULE MCRunnerHost -----------------------------
(***************************************************************************)
(* Heartbeats that may take longer than their interval, so that some wait, *)
(* and of which one in a row may fail.                                     *)
(***************************************************************************)
EXTENDS RunnerHost
=============================================================================
