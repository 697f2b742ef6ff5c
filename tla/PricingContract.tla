--------------------------- MODULE PricingContract ---------------------------
(***************************************************************************)
(* The contract of the Pricing endpoint: its three bundled versions        *)
(* (contracts/src/pricing-contract.ts), what the trusted contract check    *)
(* makes of a candidate (contract-diff.ts, contract-check.ts) and what the *)
(* API check and the Checkout page ask of a response (api-check.ts, the    *)
(* fixtures).  A contract maps the names of its fields to a type and a     *)
(* meaning, a document the names of its fields to the type of their value. *)
(***************************************************************************)
EXTENDS Naturals, Sequences, FiniteSets

Field(type, meaning) == [type |-> type, semanticId |-> meaning]

PricingContracts ==
  LET price    == Field("number", "price")
      currency == Field("string", "currency")
  IN [v1 |-> [currency |-> currency, price |-> price],
      v2 |-> [amount |-> price, currencyCode |-> currency],
      v21 |-> [amount |-> price, currency |-> currency,
               currencyCode |-> currency, price |-> price]]

Expected == PricingContracts.v1

-----------------------------------------------------------------------------
\* diffContract: the fields of one contract that another one lacks, or gives
\* another type.
MissingFields(expected, actual) == DOMAIN expected \ DOMAIN actual

TypeMismatches(expected, actual) ==
  {f \in DOMAIN expected \cap DOMAIN actual : actual[f].type # expected[f].type}

\* The fields a missing one may have been renamed to; the code names the
\* alphabetically first.
RenamedTo(expected, actual, f) ==
  {g \in DOMAIN actual : actual[g].semanticId = expected[f].semanticId}

\* A diff that forgives a missing field whose meaning is still served.
RenamedIsCompatible(expected, actual) ==
  /\ \A f \in MissingFields(expected, actual) : RenamedTo(expected, actual, f) # {}
  /\ TypeMismatches(expected, actual) = {}

Compatible(expected, actual) ==
  /\ MissingFields(expected, actual) = {}
  /\ TypeMismatches(expected, actual) = {}

-----------------------------------------------------------------------------
\* A document serves a contract if it has the fields of the contract, each with
\* a value of its type.
Serves(document, contract) ==
  \A f \in DOMAIN contract :
    f \in DOMAIN document /\ document[f] = contract[f].type

\* The document the Pricing service answers with for a version.
ResponseOf(contract) == [f \in DOMAIN contract |-> contract[f].type]

\* A payload that is no object has no fields.
NoObject == [f \in {} |-> f]

\* The fields the API check and the Checkout page miss in a payload.
MissingInPayload(document) ==
  {f \in DOMAIN Expected :
     ~(f \in DOMAIN document /\ document[f] = Expected[f].type)}
=============================================================================
