---------------------------- MODULE MCReleaseApp ----------------------------
(***************************************************************************)
(* The page with one candidate and three clicks: enough to submit, retry   *)
(* and supersede the retry, or to lose two submissions in a row.           *)
(***************************************************************************)
EXTENDS ReleaseApp

CONSTANT v2
=============================================================================
