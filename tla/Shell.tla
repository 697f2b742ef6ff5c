--------------------------------- MODULE Shell ---------------------------------
(***************************************************************************)
(* The shell (apps/shell) and the remotes it shows: useRemote, the loading *)
(* of a remote by its configuration, RemoteSlot and RemoteBoundary, with   *)
(* the catalogue page as the module of one of them.                        *)
(***************************************************************************)
EXTENDS Catalogue

VARIABLES
  site,      \* what can be had of each remote
  loads,     \* the await of loadConfiguredRemote of each effect
  slot,      \* the state of useRemote
  module,    \* what the module of a slot that is ready does when it is rendered
  failed,    \* the boundaries that have caught an error
  shown      \* whether React shows the shell

shellVars == <<site, loads, slot, module, failed, shown>>
vars == <<catalogueVars, shellVars>>

Remotes == {"catalog", "release"}

\* "unconfigured": remotes.json has no valid entry; "broken": a request fails, the
\* module cannot be loaded, or it has not the expected exports; "throws": its
\* component throws when it is rendered.
Sites == {"ok", "unconfigured", "broken", "throws"}

ShellTypeOK ==
  /\ CatalogueTypeOK
  /\ site \in [Remotes -> Sites]
  /\ loads \in [Remotes -> [Runs -> {"config", "module", "over"}]]
  /\ slot \in [Remotes -> {"loading", "error", "ready"}]
  /\ module \in [Remotes -> {"none", "ok", "throws"}]
  /\ failed \subseteq Remotes /\ shown \in BOOLEAN

\* Both effects have run.
Init ==
  /\ CatalogueInit
  /\ site \in [Remotes -> Sites]
  /\ loads = [r \in Remotes |-> [n \in Runs |-> "config"]]
  /\ slot = [r \in Remotes |-> "loading"] /\ module = [r \in Remotes |-> "none"]
  /\ failed = {} /\ shown = TRUE

-----------------------------------------------------------------------------
\* useRemote: only the effect that ran last sets the state.
Resolve(r, n, rendered) ==
  /\ loads' = [loads EXCEPT ![r][n] = "over"]
  /\ slot' = IF Active(n) THEN [slot EXCEPT ![r] = "ready"] ELSE slot
  /\ module' = IF Active(n) THEN [module EXCEPT ![r] = rendered] ELSE module

Reject(r, n) ==
  /\ loads' = [loads EXCEPT ![r][n] = "over"]
  /\ slot' = IF Active(n) THEN [slot EXCEPT ![r] = "error"] ELSE slot
  /\ UNCHANGED module

\* readRemoteConfig looks at the entry of the remote alone.
Configured(r) == site[r] # "unconfigured"

\* The configuration is there: read it, register the remote, load its module.
ConfigArrives(r, n) ==
  /\ loads[r][n] = "config"
  /\ IF Configured(r)
     THEN loads' = [loads EXCEPT ![r][n] = "module"] /\ UNCHANGED <<slot, module>>
     ELSE Reject(r, n)
  /\ UNCHANGED <<catalogueVars, site, failed, shown>>

ModuleArrives(r, n) ==
  /\ loads[r][n] = "module"
  /\ IF site[r] = "broken"
     THEN Reject(r, n)
     ELSE Resolve(r, n, site[r])
  /\ UNCHANGED <<catalogueVars, site, failed, shown>>

\* Without a boundary, React takes the whole tree away.
RenderThrowsAway(r) ==
  /\ shown /\ slot[r] = "ready" /\ module[r] = "throws" /\ shown' = FALSE
  /\ UNCHANGED <<catalogueVars, site, loads, slot, module, failed>>

\* A component throws: RemoteBoundary shows an alert in its place.
RenderThrows(r) ==
  /\ shown /\ slot[r] = "ready" /\ module[r] = "throws" /\ r \notin failed
  /\ failed' = failed \cup {r}
  /\ UNCHANGED <<catalogueVars, site, loads, slot, module, shown>>

Rendered(r) ==
  shown /\ slot[r] = "ready" /\ module[r] = "ok" /\ r \notin failed

ShowCatalogue ==
  /\ Rendered("catalog") /\ MountPage
  /\ UNCHANGED shellVars

LoadStep(r, n) == ConfigArrives(r, n) \/ ModuleArrives(r, n)

RemoteStep(r) == (\E n \in Runs : LoadStep(r, n)) \/ RenderThrows(r)

Next ==
  \/ \E r \in Remotes : RemoteStep(r)
  \/ ShowCatalogue
  \/ CatalogueStep /\ UNCHANGED shellVars

\* Every request is answered or fails in the end, and React renders.
Fairness ==
  /\ \A r \in Remotes, n \in Runs : WF_vars(LoadStep(r, n))
  /\ WF_vars(ShowCatalogue)
  /\ \A n \in Runs : WF_vars(FetchStep(n) /\ UNCHANGED shellVars)

Spec == Init /\ [][Next]_vars /\ Fairness

-----------------------------------------------------------------------------
\* A remote with which nothing is wrong is shown in the end, and stays, whatever is
\* wrong with the other: not configured, not to be loaded, not the
\* module expected, or throwing when it is rendered; and the catalogue page ends with
\* its data or with its alert (docs/releasemesh-architecture.md:75,
\* runtime-remotes.ts:62-104, App.tsx:67-94, RemoteBoundary.tsx:8-25).
RemotesAreIndependent ==
  \A r \in Remotes :
    site[r] = "ok" =>
      <>[](Rendered(r) /\ (r = "catalog" => page.status \in {"ready", "error"}))
=============================================================================
