-------------------------- MODULE ReleaseLifecycle --------------------------
(***************************************************************************)
(* The lifecycle table of packages/contracts/src/release-lifecycle.ts: the *)
(* statuses of a release and the transitions every writer asks for before  *)
(* it touches a row.                                                       *)
(***************************************************************************)

\* The code's `null`: the status a release has before its row exists.
NoStatus == "INITIAL"

Statuses == {"DRAFT", "VALIDATING", "QUEUED", "TESTING", "ANALYZING",
             "SAFE", "BLOCKED", "ERROR"}

\* SAFE and BLOCKED have no entry in the code's map: nothing follows them.
AllowedTransitions ==
  [from \in Statuses \cup {NoStatus} |->
     CASE from = NoStatus     -> {"DRAFT"}
       [] from = "DRAFT"      -> {"VALIDATING"}
       [] from = "VALIDATING" -> {"QUEUED", "ERROR"}
       [] from = "QUEUED"     -> {"TESTING", "ERROR"}
       [] from = "TESTING"    -> {"ANALYZING", "ERROR"}
       [] from = "ANALYZING"  -> {"SAFE", "BLOCKED", "ERROR"}
       [] from = "ERROR"      -> {"QUEUED"}
       [] OTHER               -> {}]

IsValidTransition(from, to) == to \in AllowedTransitions[from]

\* The statuses a queue job may be working on, and those it never leaves.
ProcessingStatuses == {"QUEUED", "TESTING", "ANALYZING"}
FinalStatuses      == {"SAFE", "BLOCKED"}
SettledStatuses    == FinalStatuses \cup {"ERROR"}
=============================================================================
