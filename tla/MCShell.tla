-------------------------------- MODULE MCShell --------------------------------
(***************************************************************************)
(* The two remotes in StrictMode, with every combination of what can be    *)
(* wrong with them, and a catalogue that is reset while it is read.        *)
(***************************************************************************)
EXTENDS Shell
=============================================================================
