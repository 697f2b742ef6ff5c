------------------------------- MODULE Catalogue -------------------------------
(***************************************************************************)
(* The catalogue page (apps/catalog-mfe): the effect of CatalogApp,        *)
(* loadCatalog and its requests, the API routes and the repository that    *)
(* answer them, and beside them the seed and the demo reset, which gives   *)
(* every row a new id.                                                     *)
(*                                                                         *)
(* An id is known by the seed that made it.                                *)
(***************************************************************************)
EXTENDS Naturals

CONSTANTS
  Effects,   \* how often React runs an effect: once, or twice in StrictMode
  MaxSeeds   \* how often the catalogue is filled

ASSUME CatalogueAssumption == Effects \in 1 .. 2 /\ MaxSeeds \in Nat \ {0}

VARIABLES
  seed,     \* the seed whose rows are in the database
  fetches,  \* the run of loadCatalog of each effect
  page      \* the state of CatalogApp

catalogueVars == <<seed, fetches, page>>

Runs  == 1 .. Effects
Seeds == 1 .. MaxSeeds
Names == {"checkout", "pricing"}
Waiting == 0   \* no answer yet

\* A run of loadCatalog: the seeds of its two lists, whether the dependencies came
\* with their components, and the components found, before and after what belongs
\* to them is read.
NoRun ==
  [going |-> FALSE, components |-> Waiting, dependencies |-> Waiting, related |-> FALSE,
   found |-> [name \in Names |-> Waiting], versions |-> [name \in Names |-> "asked"]]

NoPage == [status |-> "unmounted", components |-> {}, dependencies |-> Waiting]

Component == [name : Names, seed : Seeds, versions : BOOLEAN]

CatalogueTypeOK ==
  /\ seed \in Seeds
  /\ fetches \in [Runs -> [going : BOOLEAN, components : Seeds \cup {Waiting},
                           dependencies : Seeds \cup {Waiting}, related : BOOLEAN,
                           found : [Names -> Seeds \cup {Waiting}],
                           versions : [Names -> {"asked", "some", "none"}]]]
  /\ page \in [status : {"unmounted", "loading", "error", "ready"},
               components : SUBSET Component, dependencies : Seeds \cup {Waiting}]

\* The API is started after seedCatalog, which is idempotent.
CatalogueInit ==
  /\ seed = 1
  /\ fetches = [n \in Runs |-> NoRun]
  /\ page = NoPage

-----------------------------------------------------------------------------
\* Every row is deleted, and seedCatalogData makes new ones, in one transaction.
ResetDemo ==
  /\ seed < MaxSeeds /\ seed' = seed + 1
  /\ UNCHANGED <<fetches, page>>

\* The effect, and its second run in StrictMode, which leaves the first one inactive.
MountPage ==
  /\ page.status = "unmounted" /\ page' = [page EXCEPT !.status = "loading"]
  /\ fetches' = [n \in Runs |-> [NoRun EXCEPT !.going = TRUE]]
  /\ UNCHANGED seed

Active(n) == n = Effects

Settle(n, state) ==
  /\ fetches' = [fetches EXCEPT ![n] = NoRun]
  /\ page' = IF Active(n) THEN state ELSE page

Throw(n) == Settle(n, [NoPage EXCEPT !.status = "error"])

\* A request fails, or its answer is not ok or not of the form expected.
FetchThrows(n) ==
  /\ fetches[n].going
  /\ Throw(n)
  /\ UNCHANGED seed

\* The answers of the two lists.  The dependencies are read with their consumers
\* and providers, which are not optional.
ListComponents(n) ==
  /\ fetches[n].going /\ fetches[n].components = Waiting
  /\ fetches' = [fetches EXCEPT ![n].components = seed]
  /\ UNCHANGED <<seed, page>>

ListDependencies(n) ==
  /\ fetches[n].going /\ fetches[n].dependencies = Waiting
  /\ fetches' = [fetches EXCEPT ![n].dependencies = seed]
  /\ UNCHANGED <<seed, page>>

IncludeComponents(n) ==
  /\ fetches[n].going /\ fetches[n].dependencies # Waiting /\ ~fetches[n].related
  /\ IF fetches[n].dependencies = seed
     THEN fetches' = [fetches EXCEPT ![n].related = TRUE] /\ UNCHANGED page
     ELSE Throw(n)
  /\ UNCHANGED seed

Listed(n) == fetches[n].components # Waiting /\ fetches[n].related

\* A page that asks by name gets the component that has it now.
FindComponentByName(n, name) ==
  /\ fetches[n].going /\ Listed(n)
  /\ fetches[n].found[name] = Waiting
  /\ fetches' = [fetches EXCEPT ![n].found[name] = seed]
  /\ UNCHANGED <<seed, page>>

\* findComponentById, for the id that was listed: the row, or 404, and then what
\* belongs to it, in statements of their own.
FindComponentById(n, name) ==
  /\ fetches[n].going /\ Listed(n)
  /\ fetches[n].found[name] = Waiting
  /\ IF fetches[n].components = seed
     THEN fetches' = [fetches EXCEPT ![n].found[name] = seed] /\ UNCHANGED page
     ELSE Throw(n)
  /\ UNCHANGED seed

\* Checkout has neither versions nor contracts of its own.
IncludeVersions(n, name) ==
  /\ fetches[n].going
  /\ fetches[n].found[name] # Waiting /\ fetches[n].versions[name] = "asked"
  /\ fetches' = [fetches EXCEPT ![n].versions[name] =
                   IF name = "pricing" /\ fetches[n].found[name] = seed
                   THEN "some" ELSE "none"]
  /\ UNCHANGED <<seed, page>>

\* The components by their id, and the dependencies as they were listed.
Snapshot(n) ==
  [status |-> "ready", dependencies |-> fetches[n].dependencies,
   components |-> {[name |-> name, seed |-> fetches[n].found[name],
                    versions |-> fetches[n].versions[name] = "some"] : name \in Names}]

LoadCatalog(n) ==
  /\ fetches[n].going /\ Listed(n)
  /\ \A name \in Names : fetches[n].versions[name] # "asked"
  /\ Settle(n, Snapshot(n))
  /\ UNCHANGED seed

FetchStep(n) ==
  \/ FetchThrows(n) \/ ListComponents(n) \/ ListDependencies(n) \/ IncludeComponents(n)
  \/ \E name \in Names : FindComponentById(n, name) \/ IncludeVersions(n, name)
  \/ LoadCatalog(n)

CatalogueStep == ResetDemo \/ \E n \in Runs : FetchStep(n)

-----------------------------------------------------------------------------
\* The components shown belong together, although they are read by several requests
\* and a demo reset may come between any two of them: Checkout and Pricing, once
\* each and of one seed.  A component is asked for by the id it was listed with, and
\* an id that is gone is an error (api.ts:47-51, routes/components.ts:14-22,
\* reset-demo.ts:6-19).  The dependencies beside them may be of an earlier seed,
\* but of no later one, since components are asked for when both lists have come.
ComponentsBelongTogether ==
  page.status = "ready" =>
    \E s \in Seeds :
      /\ {c.name : c \in page.components} = Names
      /\ \A c \in page.components : c.seed = s
      /\ page.dependencies <= s

\* The dependencies shown are of the components' seed.  This is not so when a reset
\* comes between the answers of the two lists (api.ts:43-46).
DependenciesBelongToo ==
  page.status = "ready" => \A c \in page.components : c.seed = page.dependencies

\* Pricing is shown with its versions.  This is not so when a reset comes between
\* the statements of findComponentById.
PricingHasVersions ==
  \A c \in page.components : c.name = "pricing" => c.versions
=============================================================================
