------------------------------- MODULE AIRoutes -------------------------------
(***************************************************************************)
(* The configuration of ai: providers, routes, the model catalog and the   *)
(* compiled view that calls use (ai/store.go, compile.go, config.go,       *)
(* providers.go, catalog.go, query.go, web/handlers_ai_admin.go,           *)
(* web/modelneeds.go).  Each change commits rows in one transaction and    *)
(* then reloads: it reads the providers, reads the routes, replaces the    *)
(* compiled view under a lock and records which credentials providers use, *)
(* four steps that another administrator's request may come between.       *)
(***************************************************************************)
EXTENDS Naturals, Sequences, FiniteSets, SequencesExt

CONSTANTS
    AIAdmin,        \* administrator requests in flight
    AIProvider,     \* provider ids
    RouteName,      \* route names
    AICred,         \* credential ids
    NoAICred,       \* no row
    MaxAttempts     \* bound: length of an attempt plan

ASSUME AIRouteConstants == NoAICred \notin AICred /\ MaxAttempts \in Nat \ {0}

VARIABLES
    providerRows,   \* core_ai_providers
    routeRows,      \* core_ai_routes with core_ai_route_attempts, {} or one plan per name
    view,           \* s.providerCfg and s.routes, the compiled view
    aiRefs,         \* credentials recorded for "ai.providers"
    aiCreds,        \* credentials that exist
    catalogRows,    \* providers with cached models
    admins,         \* administrator requests
    aiUp,           \* the process runs
    alone,          \* no two requests have overlapped
    startBlocked    \* a start failed over the stored configuration

aiRouteVars == <<providerRows, routeRows, view, aiRefs, aiCreds, catalogRows, admins, aiUp,
                 alone, startBlocked>>

Billings == {"metered", "subscription"}
NoProvider == [cred |-> NoAICred, billing |-> "metered"]
ProviderRow == [cred: AICred, billing: Billings] \cup {NoProvider}
\* What an attempt is priced for: nothing, input tokens, or both.
Price == {"none", "in", "both"}
RoutePlan == SeqOf([provider: AIProvider, price: Price], MaxAttempts)
Route == [chat: BOOLEAN, plan: RoutePlan]
NoRequest == [pc |-> "idle", providers |-> <<>>, routes |-> <<>>, row |-> <<>>]

\* The type of the state.
AIRouteTypeOK ==
    /\ providerRows \in [AIProvider -> ProviderRow]
    /\ \A n \in RouteName: routeRows[n] \subseteq Route /\ Cardinality(routeRows[n]) <= 1
    /\ view.providers \in [AIProvider -> ProviderRow]
    /\ view.health \in [RouteName -> {"absent", "usable", "broken"}]
    /\ aiRefs \subseteq AICred /\ aiCreds \subseteq AICred
    /\ catalogRows \subseteq AIProvider
    /\ \A a \in AIAdmin: admins[a].pc \in
         {"idle", "provider", "route", "discover", "load", "inputs", "publish", "refs"}
    /\ {aiUp, alone, startBlocked} \subseteq BOOLEAN
------------------------------------------------------------------------------
(* Compiling.                                                              *)

Known(providers) == {p \in AIProvider: providers[p].cred # NoAICred}
Needed(providers) == {providers[p].cred: p \in Known(providers)}

\* A metered attempt needs an input price, and an output price when the route chats.
Bounded(attempt, chat, providers) ==
    providers[attempt.provider].billing = "metered" =>
        IF chat THEN attempt.price = "both" ELSE attempt.price # "none"

\* compileRoute: every attempt resolves and the whole plan has a maximum cost.
Compiles(route, providers) ==
    /\ route.plan # <<>>
    /\ \A i \in DOMAIN route.plan:
         /\ route.plan[i].provider \in Known(providers)
         /\ Bounded(route.plan[i], route.chat, providers)

\* A route that no longer compiles is kept and marked.
Health(routes, providers) ==
    [n \in RouteName |->
        IF routes[n] = {} THEN "absent"
        ELSE IF \A r \in routes[n]: Compiles(r, providers) THEN "usable" ELSE "broken"]

\* pricesForAttemptCaps: a subscription is not priced, an override or the catalog prices
\* the rest, and an unpriced model is refused.
PricesFor(provider, override, cached, chat) ==
    IF provider.billing = "subscription" THEN {"none"}
    ELSE IF override # "none" /\ (chat => override = "both") THEN {override}
    ELSE IF cached THEN {"both"} ELSE {}

Users(p) == {n \in RouteName: \E r \in routeRows[n]: \E i \in DOMAIN r.plan: r.plan[i].provider = p}
------------------------------------------------------------------------------
AIRouteInit ==
    /\ providerRows = [p \in AIProvider |-> NoProvider]
    /\ routeRows = [n \in RouteName |-> {}]
    /\ view = [providers |-> providerRows, health |-> [n \in RouteName |-> "absent"]]
    /\ aiRefs = {}
    /\ aiCreds = AICred
    /\ catalogRows = {}
    /\ admins = [a \in AIAdmin |-> NoRequest]
    /\ aiUp = FALSE
    /\ alone = TRUE
    /\ startBlocked = FALSE

AIQuiet == \A a \in AIAdmin: admins[a].pc = "idle"

\* A request that finds another one in flight does not run alone.
Enter(a, request) ==
    /\ aiUp
    /\ admins[a].pc = "idle"
    /\ admins' = [admins EXCEPT ![a] = request]
    /\ alone' = (alone /\ AIQuiet)

Moves(a, pc) == admins' = [admins EXCEPT ![a].pc = pc]

\* New: an empty database takes the seed's provider, then the configuration is loaded and
\* its credentials recorded; any failure keeps the process from starting.
StartAI(seed) ==
    /\ ~ aiUp
    /\ LET rows == IF /\ \A p \in AIProvider: providerRows[p] = NoProvider
                      /\ \A n \in RouteName: routeRows[n] = {}
                   THEN [p \in AIProvider |-> IF p \in DOMAIN seed THEN seed[p] ELSE NoProvider]
                   ELSE providerRows
       IN IF Needed(rows) \subseteq aiCreds
          THEN /\ providerRows' = rows
               /\ view' = [providers |-> rows, health |-> Health(routeRows, rows)]
               /\ aiRefs' = Needed(rows)
               /\ aiUp' = TRUE
               /\ UNCHANGED startBlocked
          ELSE /\ startBlocked' = (startBlocked \/ rows = providerRows)
               /\ UNCHANGED <<providerRows, view, aiRefs, aiUp>>
    /\ UNCHANGED <<routeRows, aiCreds, catalogRows, admins, alone>>

StopAI ==
    /\ aiUp
    /\ aiUp' = FALSE
    /\ admins' = [a \in AIAdmin |-> NoRequest]
    /\ UNCHANGED <<providerRows, routeRows, view, aiRefs, aiCreds, catalogRows, alone, startBlocked>>

\* credentials.Delete and its counterpart, which know references and nothing else.
DropCredential(c) ==
    /\ aiUp
    /\ c \in aiCreds \ aiRefs
    /\ aiCreds' = aiCreds \ {c}
    /\ alone' = (alone /\ AIQuiet)
    /\ UNCHANGED <<providerRows, routeRows, view, aiRefs, catalogRows, admins, aiUp, startBlocked>>

AddCredential(c) ==
    /\ aiUp
    /\ aiCreds' = aiCreds \cup {c}
    /\ UNCHANGED <<providerRows, routeRows, view, aiRefs, catalogRows, admins, aiUp, alone, startBlocked>>
------------------------------------------------------------------------------
(* The administrator's requests.                                           *)

\* PutProvider asks whether the credential exists, before its transaction.
PutProvider(a, p, row) ==
    /\ row.cred \in aiCreds
    /\ Enter(a, [NoRequest EXCEPT !.pc = "provider", !.row = <<p, row>>])
    /\ UNCHANGED <<providerRows, routeRows, view, aiRefs, aiCreds, catalogRows, aiUp, startBlocked>>

CommitProvider(a) ==
    /\ admins[a].pc = "provider"
    /\ providerRows' = [providerRows EXCEPT ![admins[a].row[1]] = admins[a].row[2]]
    /\ Moves(a, "load")
    /\ UNCHANGED <<routeRows, view, aiRefs, aiCreds, catalogRows, aiUp, alone, startBlocked>>

\* mutant: a provider that routes name may go
Removable(p) == providerRows[p] # NoProvider

\* DeleteProvider asks, in its transaction, whether a route names the provider.
MayDelete(p) == providerRows[p] # NoProvider /\ Users(p) = {}

DeleteProvider(a, p) ==
    /\ MayDelete(p)
    /\ Enter(a, [NoRequest EXCEPT !.pc = "load"])
    /\ providerRows' = [providerRows EXCEPT ![p] = NoProvider]
    /\ catalogRows' = catalogRows \ {p}
    /\ UNCHANGED <<routeRows, view, aiRefs, aiCreds, aiUp, startBlocked>>

\* PutRoute compiles against the providers of this moment, before its transaction.
PutRoute(a, n, route) ==
    /\ Compiles(route, providerRows)
    /\ Enter(a, [NoRequest EXCEPT !.pc = "route", !.row = <<n, route>>])
    /\ UNCHANGED <<providerRows, routeRows, view, aiRefs, aiCreds, catalogRows, aiUp, startBlocked>>

\* handleAIAssign: one attempt, priced from the request or the catalog, then PutRoute.
AssignRoute(a, n, p, override, chat) ==
    \E price \in PricesFor(providerRows[p], override, p \in catalogRows, chat):
        PutRoute(a, n, [chat |-> chat, plan |-> <<[provider |-> p, price |-> price]>>])

CommitRoute(a) ==
    /\ admins[a].pc = "route"
    /\ routeRows' = [routeRows EXCEPT ![admins[a].row[1]] = {admins[a].row[2]}]
    /\ Moves(a, "load")
    /\ UNCHANGED <<providerRows, view, aiRefs, aiCreds, catalogRows, aiUp, alone, startBlocked>>

DeleteRoute(a, n) ==
    /\ Enter(a, [NoRequest EXCEPT !.pc = "load"])
    /\ routeRows' = [routeRows EXCEPT ![n] = {}]
    /\ UNCHANGED <<providerRows, view, aiRefs, aiCreds, catalogRows, aiUp, startBlocked>>

\* Models: the provider is asked for its catalog and the rows are replaced afterwards.
Models(a, p) ==
    /\ providerRows[p] # NoProvider
    /\ Enter(a, [NoRequest EXCEPT !.pc = "discover", !.row = <<p>>])
    /\ UNCHANGED <<providerRows, routeRows, view, aiRefs, aiCreds, catalogRows, aiUp, startBlocked>>

SaveCatalog(a) ==
    /\ admins[a].pc = "discover"
    /\ admins' = [admins EXCEPT ![a] = NoRequest]
    /\ \E found \in BOOLEAN:
         catalogRows' = IF found THEN catalogRows \cup {admins[a].row[1]} ELSE catalogRows
    /\ UNCHANGED <<providerRows, routeRows, view, aiRefs, aiCreds, aiUp, alone, startBlocked>>
------------------------------------------------------------------------------
(* reload.                                                                 *)

LoadProviders(a) ==
    /\ admins[a].pc = "load"
    /\ admins' = [admins EXCEPT ![a].pc = "inputs", ![a].providers = providerRows]
    /\ UNCHANGED <<providerRows, routeRows, view, aiRefs, aiCreds, catalogRows, aiUp, alone, startBlocked>>

LoadRouteInputs(a) ==
    /\ admins[a].pc = "inputs"
    /\ admins' = [admins EXCEPT ![a].pc = "publish", ![a].routes = routeRows]
    /\ UNCHANGED <<providerRows, routeRows, view, aiRefs, aiCreds, catalogRows, aiUp, alone, startBlocked>>

\* mutant: the broken routes are dropped from the view
PublishedUsable(a) ==
    LET health == Health(admins[a].routes, admins[a].providers) IN
    [providers |-> admins[a].providers,
     health |-> [n \in RouteName |-> IF health[n] = "broken" THEN "absent" ELSE health[n]]]

Published(a) == [providers |-> admins[a].providers,
                 health |-> Health(admins[a].routes, admins[a].providers)]

PublishView(a) ==
    /\ admins[a].pc = "publish"
    /\ view' = Published(a)
    /\ Moves(a, "refs")
    /\ UNCHANGED <<providerRows, routeRows, aiRefs, aiCreds, catalogRows, aiUp, alone, startBlocked>>

\* refs.Replace; the request reports an error when a credential is gone.
RecordRefs(a) ==
    /\ admins[a].pc = "refs"
    /\ aiRefs' = IF Needed(admins[a].providers) \subseteq aiCreds
                 THEN Needed(admins[a].providers) ELSE aiRefs
    /\ admins' = [admins EXCEPT ![a] = NoRequest]
    /\ UNCHANGED <<providerRows, routeRows, view, aiCreds, catalogRows, aiUp, alone, startBlocked>>

AIRouteNext ==
    \/ \E seed \in UNION {[S -> [cred: AICred, billing: {"metered"}]]: S \in SUBSET AIProvider}: StartAI(seed)
    \/ StopAI
    \/ \E c \in AICred: DropCredential(c) \/ AddCredential(c)
    \/ \E a \in AIAdmin:
         \/ \E p \in AIProvider:
              \/ \E row \in [cred: AICred, billing: Billings]: PutProvider(a, p, row)
              \/ DeleteProvider(a, p) \/ Models(a, p)
              \/ \E n \in RouteName, o \in Price, chat \in BOOLEAN: AssignRoute(a, n, p, o, chat)
         \/ \E n \in RouteName: DeleteRoute(a, n) \/ \E r \in Route: PutRoute(a, n, r)
         \/ CommitProvider(a) \/ CommitRoute(a) \/ SaveCatalog(a)
         \/ LoadProviders(a) \/ LoadRouteInputs(a) \/ PublishView(a) \/ RecordRefs(a)

AIRouteSpec == AIRouteInit /\ [][AIRouteNext]_aiRouteVars
------------------------------------------------------------------------------
(* Properties.                                                             *)

\* Requests that did not overlap leave the view calls use exactly what the rows compile
\* to, broken routes named as broken, every attempt of every route on a provider that
\* exists, and every provider's credential protected from deletion.
ViewIsExact ==
    /\ AIRouteTypeOK
    /\ alone /\ AIQuiet /\ aiUp =>
        /\ view = [providers |-> providerRows, health |-> Health(routeRows, providerRows)]
        /\ \A r \in UNION {routeRows[n]: n \in RouteName}:
             \A i \in DOMAIN r.plan: r.plan[i].provider \in Known(providerRows)
        /\ aiRefs = Needed(providerRows)
        /\ aiRefs \subseteq aiCreds

\* What query.go says of health: a route that broke should say so instead of preventing a
\* restart.  The credential check of PutProvider and the reference it records later are
\* two steps, and a credential deleted between them makes every later start fail.
ConfigNeverBlocksStart == ~ startBlocked
=============================================================================
