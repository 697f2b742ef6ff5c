---------------------------- MODULE MCEvidenceRun ----------------------------
(***************************************************************************)
(* One attempt, tried three times, of v1, of a candidate that renames v1's *)
(* fields and of one that keeps them beside the new ones.  Beside the      *)
(* candidate's own document Pricing may answer with one that lacks a       *)
(* field, one whose price is a string, and one that is no object.          *)
(***************************************************************************)
EXTENDS EvidenceRun

MCTests    == {"contract-pricing", "api-pricing", "browser-checkout"}
MCRegistry == <<"contract-pricing", "api-pricing", "browser-checkout">>

MCStrays ==
  {NoObject, [currency |-> "string"], [currency |-> "string", price |-> "string"]}
=============================================================================
