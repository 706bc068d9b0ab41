----------------------------- MODULE MCServices -----------------------------
(***************************************************************************)
(* An instance for TLC of four services that promise that something ends:  *)
(* the writer's queue, the sends of a notification, the feeds of a browser *)
(* session and the sessions of the harness.  They share no state; a        *)
(* behaviour exercises one of them, chosen initially, while the others     *)
(* rest in an initial state.                                               *)
(***************************************************************************)
EXTENDS Store, Browser, Harness, Notifications

VARIABLE focus

serviceVars == <<storeVars, browserVars, harnessVars, notifyVars, focus>>

(* Bound: every rule is enabled and keeps the inbox and every channel, and  *)
(* every channel is on; the administrator changes them from there.          *)
AllOn ==
    /\ \A r \in NotifyRule : rules[r].on /\ rules[r].channels = NotifyChannel \cup {InboxChannel}
    /\ \A c \in NotifyChannel : chans[c] = "on"

ServicesInit ==
    /\ focus \in {"store", "browser", "harness", "notify"}
    /\ StoreInit /\ BrowserInit /\ HarnessInit
    /\ focus # "store" => \A p \in StorePlugin : admitted[p]
    /\ NotifyInit /\ AllOn
    /\ focus # "notify" => \A r \in NotifyRule : ~rules[r].throttle

Alone(f) ==
    /\ focus = f /\ UNCHANGED focus
    /\ f # "store" => UNCHANGED storeVars
    /\ f # "browser" => UNCHANGED browserVars
    /\ f # "harness" => UNCHANGED harnessVars
    /\ f # "notify" => UNCHANGED notifyVars

(* Bounds: a behaviour of the browser uses a page or a feed, and in one of  *)
(* the notifications the administrator edits or a result is lost.           *)
PageOrFeed ==
    (\A p \in BPage : page'[p].at = "new") \/ (\A f \in Feed : feed'[f].at = "new")
EditOrLoss == edits' = 0 \/ \A s \in SendId : unsure'[s] = 0

(* Bound: sessions that compete for a slot only start; one that is alone    *)
(* writes output, is stopped and outlives its server.                       *)
Lone == CHOOSE s \in HSession : TRUE
AloneOrStarting ==
    \/ \A s \in HSession \ {Lone} : create'[s] = "new"
    \/ /\ serving' = "up"
       /\ \A s \in HSession : /\ hrow'[s].state \in {"none", "starting", "running"}
                              /\ output'[s].written = <<>> /\ proc'[s] # "dead"

ServicesNext ==
    \/ Alone("store") /\ StoreNext
    \/ Alone("browser") /\ BrowserNext /\ PageOrFeed
    \/ Alone("harness") /\ HarnessNext /\ AloneOrStarting
    \/ Alone("notify") /\ NotifyNext /\ EditOrLoss


(* The fairness of each component, for the one in focus. *)
StoreTurns == \A g \in Goroutine :
    /\ SF_storeVars(focus = "store" /\ Begin(g))
    /\ WF_storeVars(focus = "store" /\ PluginStatementEnds(g))
    /\ WF_storeVars(focus = "store" /\ PrefixedQueryReturns(g))
    /\ SF_storeVars(focus = "store" /\ (Commit(g) \/ Rollback(g)))

BrowserTurns ==
    /\ \A s \in BSession :
         /\ WF_browserVars(focus = "browser" /\ OpenSteps(s))
         /\ WF_browserVars(focus = "browser" /\ CloseSteps(s))
    /\ \A p \in BPage : WF_browserVars(focus = "browser" /\ PageSteps(p))
    /\ \A f \in Feed :
         /\ WF_browserVars(focus = "browser" /\ FinishClose(f))
         /\ WF_browserVars(focus = "browser" /\ Pump(f))
         /\ WF_browserVars(focus = "browser" /\ SendFrame(f))

HarnessTurns == \A s \in HSession :
    /\ WF_harnessVars(focus = "harness" /\ CreateSteps(s))
    /\ WF_harnessVars(focus = "harness" /\ WaitSteps(s))
    /\ WF_harnessVars(focus = "harness" /\ KillAfterTimeout(s))
    /\ WF_harnessVars(focus = "harness" /\ StopSession(s, "shutdown"))
    /\ WF_harnessVars(focus = "harness" /\ PublishOutput(s))
    /\ WF_harnessVars(focus = "harness" /\ PublisherEnds(s))

NotifyTurns ==
    /\ WF_notifyVars(focus = "notify" /\ NotifyWork)
    /\ WF_notifyVars(focus = "notify" /\ NotifyTime)

ServicesSpec ==
    /\ ServicesInit /\ [][ServicesNext]_serviceVars
    /\ StoreTurns /\ BrowserTurns /\ HarnessTurns /\ NotifyTurns
=============================================================================
