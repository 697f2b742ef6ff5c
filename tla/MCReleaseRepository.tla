------------------------ MODULE MCReleaseRepository ------------------------
(***************************************************************************)
(* The repository with two concurrent sessions: two updates race for one   *)
(* row, and two submissions for one idempotency key, through two retries.  *)
(***************************************************************************)
EXTENDS ReleaseRepository, TLC

CONSTANTS s1, s2, v2, v21, failure, analysis

MCSessions    == {s1, s2}
MCComponents  == {v2, v21}
MCAssessments == {failure, analysis}

Symmetry ==
  Permutations(MCSessions) \cup Permutations(MCComponents) \cup Permutations(MCAssessments)
=============================================================================
