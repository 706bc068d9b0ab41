----------------------------- MODULE PluginHost -----------------------------
(***************************************************************************)
(* The plugin host's lifecycle (pluginhost/lifecycle.go, config.go,        *)
(* http.go).  Policy holds what an administrator wants of a plugin; every  *)
(* change of it starts two reconciliations, one by the caller and one by   *)
(* policy's watcher, and a reconciliation takes the slot's lock, reads the *)
(* wanted state and brings the plugin's jobs, Init, routes and             *)
(* subscriptions in line with it.  Each of these steps calls code that may *)
(* fail.  Jobs are claimed, events delivered, requests served and          *)
(* configuration updated meanwhile.                                        *)
(***************************************************************************)
EXTENDS Naturals, FiniteSets

CONSTANTS
    HostPlugin,     \* registered plugins
    CfgValue,       \* configuration documents
    CfgStale,       \* the documents an older manifest allowed and this one does not
    HttpRequest,    \* plugin requests that may be in flight
    MaxChanges      \* bound: administrator's changes per plugin

ASSUME HostConstants ==
    /\ CfgStale \subseteq CfgValue
    /\ CfgValue \ CfgStale # {}
    /\ MaxChanges \in Nat

VARIABLES
    wanted,     \* policy: desired state, persisted
    cfgRow,     \* core_plugin_config, persisted
    slot,       \* the registry's slot of each plugin
    held,       \* what the holder of slot.mu is doing: "free", "init", "attach"
    due,        \* reconciliations that wait for slot.mu
    notices,    \* committed configurations whose notification is still to come
    request,    \* in flight: the generation each request was admitted by, 0 for none
    changes,    \* administrator's changes so far
    early       \* plugin code was entered while the plugin was not initialised

hostVars == <<wanted, cfgRow, slot, held, due, notices, request, changes, early>>

Runtime == {"boot", "enabled", "disabled", "degraded"}
Blank(p) == [init |-> FALSE, runtime |-> "boot", mux |-> FALSE, defs |-> FALSE,
             subs |-> "none", gen |-> 0, cancelled |-> {}, cfg |-> cfgRow[p], loaded |-> cfgRow[p]]

\* The type of the state.
HostTypeOK ==
    /\ wanted \in [HostPlugin -> BOOLEAN]
    /\ cfgRow \in [HostPlugin -> CfgValue]
    /\ \A p \in HostPlugin:
         /\ slot[p].init \in BOOLEAN /\ slot[p].mux \in BOOLEAN /\ slot[p].defs \in BOOLEAN
         /\ slot[p].runtime \in Runtime
         /\ slot[p].subs \in {"none", "discard", "handler"}
         /\ slot[p].gen \in Nat
         /\ notices[p] \subseteq CfgValue
         /\ due[p] \in Nat
    /\ held \in [HostPlugin -> {"free", "init", "attach"}]
    /\ request \in [HttpRequest -> [plugin: HostPlugin, gen: Nat]]

HostInit ==
    /\ wanted \in [HostPlugin -> BOOLEAN]
    /\ cfgRow \in [HostPlugin -> CfgValue]
    /\ slot = [p \in HostPlugin |-> Blank(p)]
    /\ held = [p \in HostPlugin |-> "free"]
    /\ due = [p \in HostPlugin |-> 0]
    /\ notices = [p \in HostPlugin |-> {}]
    /\ request \in [HttpRequest -> {[plugin |-> p, gen |-> 0]: p \in HostPlugin}]
    /\ changes = [p \in HostPlugin |-> 0]
    /\ early = [p \in HostPlugin |-> FALSE]

Slot(p, s) == slot' = [slot EXCEPT ![p] = s]
Degraded(s) == [s EXCEPT !.runtime = "degraded"]

\* bootstrap: policy row, configuration row, migrations, then a reconciliation; a failure
\* leaves the plugin degraded and the others go on.
Bootstrap(p) ==
    /\ slot[p].runtime = "boot"
    /\ due[p] = 0 /\ held[p] = "free"
    /\ \/ due' = [due EXCEPT ![p] = @ + 1] /\ UNCHANGED slot
       \/ Slot(p, Degraded(slot[p])) /\ UNCHANGED due
    /\ UNCHANGED <<wanted, cfgRow, held, notices, request, changes, early>>

\* Enable and Disable commit the wanted state; the watcher's goroutine and the caller
\* will both reconcile.
SetWanted(p) ==
    /\ slot[p].runtime # "boot"
    /\ changes[p] < MaxChanges
    /\ changes' = [changes EXCEPT ![p] = @ + 1]
    /\ wanted' = [wanted EXCEPT ![p] = ~ @]
    /\ due' = [due EXCEPT ![p] = @ + 2]
    /\ UNCHANGED <<cfgRow, slot, held, notices, request, early>>
------------------------------------------------------------------------------
(* reconcileLocked.                                                        *)

\* mutant: the job definitions are left behind
TornDownKeepsJobs(s, subs) ==
    [s EXCEPT !.init = FALSE, !.mux = FALSE, !.subs = subs, !.cancelled = @ \cup {s.gen}]

\* What teardownLocked leaves: the generation is cancelled, the routes, the job
\* definitions and the subscriptions are gone, and discarding subscriptions take their
\* place, if they can be attached.
TornDown(s, subs) ==
    [s EXCEPT !.init = FALSE, !.mux = FALSE, !.defs = FALSE, !.subs = subs,
              !.cancelled = @ \cup {s.gen}]

\* mutant: a plugin that is initialised is taken for one that is wanted
DesiredOrRunning(p) == wanted[p] \/ slot[p].init

\* The state a reconciliation works towards, read under the lock.
Desired(p) == wanted[p]

Starts(p) ==
    /\ due[p] > 0
    /\ held[p] = "free"
    /\ due' = [due EXCEPT ![p] = @ - 1]
    /\ UNCHANGED <<wanted, cfgRow, notices, request, changes, early>>

\* policy.State fails.
ReconcileUnknown(p) ==
    /\ Starts(p)
    /\ Slot(p, Degraded(slot[p]))
    /\ UNCHANGED held

\* The plugin is to be off.  Shutdown, or attaching the discarding subscriptions, may fail.
ReconcileOff(p) ==
    /\ Starts(p)
    /\ ~ Desired(p)
    /\ \/ Slot(p, [TornDown(slot[p], "discard") EXCEPT !.runtime = "disabled"])
       \/ slot[p].init /\ Slot(p, Degraded(TornDown(slot[p], "discard")))
       \/ Slot(p, Degraded(TornDown(slot[p], "none")))
    /\ UNCHANGED held

\* The persisted configuration does not fit the schema.
ReconcileInvalid(p) ==
    /\ Starts(p)
    /\ Desired(p)
    /\ cfgRow[p] \in CfgStale
    /\ \E subs \in {"none", "discard"}: Slot(p, Degraded(TornDown(slot[p], subs)))
    /\ UNCHANGED held

\* Already initialised: nothing to do.
ReconcileOn(p) ==
    /\ Starts(p)
    /\ Desired(p) /\ cfgRow[p] \notin CfgStale
    /\ slot[p].init
    /\ Slot(p, [slot[p] EXCEPT !.runtime = "enabled"])
    /\ UNCHANGED held

\* The configuration is loaded and the jobs are mounted, before Init; either may fail.
ReconcileMounts(p) ==
    /\ Starts(p)
    /\ Desired(p) /\ cfgRow[p] \notin CfgStale
    /\ ~ slot[p].init
    /\ \/ /\ Slot(p, [slot[p] EXCEPT !.defs = TRUE, !.loaded = cfgRow[p]])
          /\ held' = [held EXCEPT ![p] = "init"]
       \/ /\ \E mounted \in {slot[p].defs, TRUE}:
               Slot(p, Degraded([slot[p] EXCEPT !.defs = mounted]))
          /\ UNCHANGED held

\* Init returns, with or without an error.
InitReturns(p) ==
    /\ held[p] = "init"
    /\ \/ held' = [held EXCEPT ![p] = "attach"] /\ UNCHANGED slot
       \/ held' = [held EXCEPT ![p] = "free"] /\ Slot(p, Degraded(slot[p]))
    /\ UNCHANGED <<wanted, cfgRow, due, notices, request, changes, early>>

\* The subscriptions are attached and the generation begins, or one of them fails and
\* those before it stay attached.
AttachReturns(p) ==
    /\ held[p] = "attach"
    /\ held' = [held EXCEPT ![p] = "free"]
    /\ \/ Slot(p, [slot[p] EXCEPT !.init = TRUE, !.mux = TRUE, !.subs = "handler",
                     !.gen = @ + 1, !.cfg = slot[p].loaded, !.runtime = "enabled"])
       \/ \E subs \in {"none", "handler"}: Slot(p, Degraded([slot[p] EXCEPT !.subs = subs]))
    /\ UNCHANGED <<wanted, cfgRow, due, notices, request, changes, early>>
------------------------------------------------------------------------------
(* What runs beside reconciliations.                                       *)

\* A worker claims a job of a mounted definition, or a durable subscription delivers an
\* event to the plugin's handler; both ask policy first.
HandlerEntered(p) ==
    /\ wanted[p]
    /\ slot[p].defs \/ slot[p].subs = "handler"
    /\ early' = [early EXCEPT ![p] = @ \/ ~ slot[p].init]
    /\ UNCHANGED <<wanted, cfgRow, slot, held, due, notices, request, changes>>

\* ServeHTTP admits a request to the current generation; otherwise the host answers 503.
Serves(p) == slot[p].mux /\ slot[p].runtime = "enabled"

RequestArrives(r, p) ==
    /\ request[r].gen = 0
    /\ held[p] = "free"
    /\ Serves(p)
    /\ request' = [request EXCEPT ![r] = [plugin |-> p, gen |-> slot[p].gen]]
    /\ UNCHANGED <<wanted, cfgRow, slot, held, due, notices, changes, early>>

RequestEnds(r) ==
    /\ request[r].gen > 0
    /\ request' = [request EXCEPT ![r].gen = 0]
    /\ UNCHANGED <<wanted, cfgRow, slot, held, due, notices, changes, early>>

\* UpdateConfig validates and commits; the notification is a step of its own.
UpdateConfig(p, v) ==
    /\ slot[p].runtime # "boot"
    /\ v \notin CfgStale
    /\ changes[p] < MaxChanges
    /\ changes' = [changes EXCEPT ![p] = @ + 1]
    /\ cfgRow' = [cfgRow EXCEPT ![p] = v]
    /\ notices' = [notices EXCEPT ![p] = @ \cup {v}]
    /\ UNCHANGED <<wanted, slot, held, due, request, early>>

\* notifyConfig: an initialised generation gets the document.
NotifyConfig(p, v) ==
    /\ held[p] = "free"
    /\ v \in notices[p]
    /\ notices' = [notices EXCEPT ![p] = @ \ {v}]
    /\ Slot(p, IF slot[p].init THEN [slot[p] EXCEPT !.cfg = v] ELSE slot[p])
    /\ UNCHANGED <<wanted, cfgRow, held, due, request, changes, early>>

\* Stop tears an initialised plugin down without the lock it waited for.
StopHost(p) ==
    /\ held[p] = "free"
    /\ slot[p].init
    /\ \/ Slot(p, TornDown(slot[p], "discard"))
       \/ \E subs \in {"none", "discard"}: Slot(p, Degraded(TornDown(slot[p], subs)))
    /\ UNCHANGED <<wanted, cfgRow, held, due, notices, request, changes, early>>

\* The process dies; what is persisted stays.
HostCrash(p) ==
    /\ slot[p].runtime # "boot"
    /\ changes[p] < MaxChanges
    /\ changes' = [changes EXCEPT ![p] = @ + 1]
    /\ Slot(p, [Blank(p) EXCEPT !.gen = slot[p].gen, !.cancelled = 0..slot[p].gen])
    /\ held' = [held EXCEPT ![p] = "free"]
    /\ due' = [due EXCEPT ![p] = 0]
    /\ notices' = [notices EXCEPT ![p] = {}]
    /\ request' = [r \in HttpRequest |->
                     IF request[r].plugin = p THEN [request[r] EXCEPT !.gen = 0] ELSE request[r]]
    /\ UNCHANGED <<wanted, cfgRow, early>>

HostNext ==
    \/ \E p \in HostPlugin:
         \/ Bootstrap(p) \/ SetWanted(p)
         \/ ReconcileUnknown(p) \/ ReconcileOff(p) \/ ReconcileInvalid(p) \/ ReconcileOn(p)
         \/ ReconcileMounts(p) \/ InitReturns(p) \/ AttachReturns(p)
         \/ HandlerEntered(p)
         \/ \E r \in HttpRequest: RequestArrives(r, p)
         \/ \E v \in CfgValue: UpdateConfig(p, v) \/ NotifyConfig(p, v)
         \/ StopHost(p) \/ HostCrash(p)
    \/ \E r \in HttpRequest: RequestEnds(r)

HostSpec == HostInit /\ [][HostNext]_hostVars
------------------------------------------------------------------------------
(* Properties.                                                             *)

AtRest(p) == held[p] = "free" /\ due[p] = 0 /\ slot[p].runtime # "boot"

\* Once nobody waits for the lock, the runtime state is the one the administrator wants,
\* or the plugin reports that it is degraded: of several changes and the reconciliations
\* they start, whichever runs last works towards the last of them.
Settled ==
    \A p \in HostPlugin: AtRest(p) =>
        \/ slot[p].runtime = "degraded"
        \/ slot[p].runtime = IF wanted[p] THEN "enabled" ELSE "disabled"

\* A plugin that reports disabled has nothing left that enters its code: no routes, no
\* job definitions, no handlers, and every request its generations admitted is cancelled.
DisabledIsQuiet ==
    \A p \in HostPlugin: slot[p].runtime = "disabled" /\ held[p] = "free" =>
        /\ ~ slot[p].init /\ ~ slot[p].mux /\ ~ slot[p].defs
        /\ slot[p].subs = "discard"
        /\ \A r \in HttpRequest: request[r].plugin = p /\ request[r].gen > 0 =>
             request[r].gen \in slot[p].cancelled

\* A request that is not cancelled belongs to the generation that runs, and one generation
\* is initialised at a time.
RequestsBelong ==
    \A r \in HttpRequest: LET p == request[r].plugin IN
        request[r].gen > 0 /\ request[r].gen \notin slot[p].cancelled =>
            slot[p].init /\ request[r].gen = slot[p].gen

\* Enabling, disabling, configuring and serving a plugin, in whatever order their
\* goroutines get its lock (lifecycle.go, http.go).
HostSafe == HostTypeOK /\ Settled /\ DisabledIsQuiet /\ RequestsBelong

\* What docs/modules/pluginhost.md says of a plugin that could not reconcile: it remains
\* behind the host 503/discard boundary.  The code leaves what was mounted before the step
\* that failed.
DegradedIsBehindBoundary ==
    \A p \in HostPlugin: AtRest(p) /\ slot[p].runtime = "degraded" /\ ~ slot[p].init =>
        ~ slot[p].mux /\ ~ slot[p].defs /\ slot[p].subs # "handler"
=============================================================================
