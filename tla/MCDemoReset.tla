---------------------------- MODULE MCDemoReset ----------------------------
(***************************************************************************)
(* The demo reset: one release, two resets one after the other, and one    *)
(* fault of each kind.  A step of one release never looks at another one,  *)
(* except in the count, so one release shows what several would.           *)
(***************************************************************************)
EXTENDS DemoReset
=============================================================================
