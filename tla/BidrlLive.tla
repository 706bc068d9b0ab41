------------------------------ MODULE BidrlLive ------------------------------
(***************************************************************************)
(* The bidrl plugin's live feed (plugins/bidrl: live.go, and Init and      *)
(* Shutdown of plugin.go).                                                 *)
(*                                                                         *)
(* The host calls Join when a lot gains its first viewer and Leave when it *)
(* loses the last, one call at a time per lot.  Each changes the watch set *)
(* and arms a timer; when it fires a rebuild cancels the running           *)
(* generation of the feed and starts one for the set as it is.  Timers,    *)
(* rebuilds and generations run on goroutines of their own and meet only   *)
(* under the feed's mutex: an action is one section under it, or one call  *)
(* between two.                                                            *)
(***************************************************************************)
EXTENDS Naturals, FiniteSets

CONSTANTS
    LiveLot,        \* lots a screen can show
    MaxLiveLots,    \* lots one handshake may carry
    Rebuilder,      \* rebuilds that may overlap
    MaxGen,         \* bound on the generations
    MaxViews,       \* bound on the changes of demand
    MaxEnabled      \* bound on the times the plugin is enabled

ASSUME LiveAssumption ==
    /\ MaxLiveLots \in Nat \ {0} /\ MaxGen \in Nat \ {0}
    /\ MaxViews \in Nat /\ MaxEnabled \in Nat \ {0}

Gens == 1 .. MaxGen

VARIABLES
    liveEnabled,    \* 0 when the plugin has no host, else which enablement it is
    enables,    \* enablements so far
    closing,    \* Shutdown between its steps
    viewed,     \* lots with a viewer the host has told the plugin about
    views,
    call,       \* call[l]: where the host's call for the lot is
    feedLots,   \* liveFeed.lots
    timer,      \* liveFeed.timer: "none", "armed" or "spent"
    gen,        \* liveFeed.gen
    stop,       \* the generation whose cancel function is held, 0 for none
    rebuild,    \* rebuild[b] = [pc, host, gen, watched, prev]
    run,        \* run[g] = [pc, host, watched, cancelled]
    shown       \* what the screens were last told of a lot

liveVars == <<liveEnabled, enables, closing, viewed, views, call, feedLots, timer, gen, stop,
              rebuild, run, shown>>

IdleRebuild == [pc |-> "idle", host |-> 0, gen |-> 0, watched |-> {}, prev |-> 0]
NoRun == [pc |-> "none", host |-> 0, watched |-> {}, cancelled |-> FALSE]

LiveTypeOK ==
    /\ liveEnabled \in 0 .. MaxEnabled /\ enables \in 0 .. MaxEnabled
    /\ closing \in {"no", "unwatch", "close"}
    /\ viewed \subseteq LiveLot /\ views \in 0 .. MaxViews
    /\ call \in [LiveLot -> {"none", "join", "add", "leave", "schedule"}]
    /\ feedLots \subseteq LiveLot /\ Cardinality(feedLots) <= MaxLiveLots
    /\ timer \in {"none", "armed", "spent"}
    /\ gen \in 0 .. MaxGen /\ stop \in 0 .. MaxGen
    /\ \A b \in Rebuilder :
          /\ rebuild[b].pc \in {"idle", "start", "cancel", "check"}
          /\ rebuild[b].watched \subseteq LiveLot /\ rebuild[b].prev \in 0 .. MaxGen
          /\ rebuild[b].gen \in 0 .. MaxGen /\ rebuild[b].host \in 0 .. MaxEnabled
    /\ \A g \in Gens :
          /\ run[g].pc \in {"none", "dial", "joined", "live", "down", "ended"}
          /\ run[g].watched \subseteq LiveLot /\ run[g].cancelled \in BOOLEAN
    /\ shown \in [LiveLot -> {"nothing", "live", "not live"}]

LiveInit ==
    /\ liveEnabled = 1 /\ enables = 1 /\ closing = "no"
    /\ viewed = {} /\ views = 0
    /\ call = [l \in LiveLot |-> "none"]
    /\ feedLots = {} /\ timer = "none" /\ gen = 0 /\ stop = 0
    /\ rebuild = [b \in Rebuilder |-> IdleRebuild]
    /\ run = [g \in Gens |-> NoRun]
    /\ shown = [l \in LiveLot |-> "nothing"]

-----------------------------------------------------------------------------
(* Demand.                                                                 *)

FeedUnchanged == UNCHANGED <<gen, stop, rebuild, run>>
PluginUnchanged == UNCHANGED <<liveEnabled, enables, closing>>

\* The host: a first viewer, or the last one gone.
Demand(l) ==
    /\ call[l] = "none" /\ views < MaxViews /\ views' = views + 1
    /\ liveEnabled # 0
    /\ \/ l \notin viewed /\ viewed' = viewed \cup {l}
          /\ call' = [call EXCEPT ![l] = "join"] /\ shown' = [shown EXCEPT ![l] = "nothing"]
       \/ l \in viewed /\ viewed' = viewed \ {l}
          /\ call' = [call EXCEPT ![l] = "leave"] /\ UNCHANGED shown
    /\ PluginUnchanged /\ FeedUnchanged /\ UNCHANGED <<feedLots, timer>>

\* Join up to liveLot: nothing to do without a host or for a lot that has closed or
\* is not stored.  A query that fails fails the call, and the host says so.
JoinResolves(l, found) ==
    /\ call[l] = "join"
    /\ call' = [call EXCEPT ![l] = IF liveEnabled # 0 /\ found = "yes" THEN "add" ELSE "none"]
    /\ shown' = IF liveEnabled # 0 /\ found = "error" THEN [shown EXCEPT ![l] = "not live"] ELSE shown
    /\ PluginUnchanged /\ FeedUnchanged /\ UNCHANGED <<viewed, views, feedLots, timer>>

\* Past the cap Join returns without a word.
JoinAdds(l) ==
    /\ call[l] = "add"
    /\ IF Cardinality(feedLots) >= MaxLiveLots
       THEN call' = [call EXCEPT ![l] = "none"] /\ UNCHANGED feedLots
       ELSE call' = [call EXCEPT ![l] = "schedule"] /\ feedLots' = feedLots \cup {l}
    /\ PluginUnchanged /\ FeedUnchanged /\ UNCHANGED <<viewed, views, timer, shown>>

LeaveRemoves(l) ==
    /\ call[l] = "leave"
    /\ call' = [call EXCEPT ![l] = IF l \in feedLots THEN "schedule" ELSE "none"]
    /\ feedLots' = feedLots \ {l}
    /\ PluginUnchanged /\ FeedUnchanged /\ UNCHANGED <<viewed, views, timer, shown>>

\* mutant: a timer that exists is taken to be running
Rearmed == IF timer = "none" THEN "armed" ELSE timer

\* schedule: a new timer, or the old one again.
Armed == "armed"

Schedule(l) ==
    /\ call[l] = "schedule" /\ call' = [call EXCEPT ![l] = "none"] /\ timer' = Armed
    /\ PluginUnchanged /\ FeedUnchanged /\ UNCHANGED <<viewed, views, feedLots, shown>>

-----------------------------------------------------------------------------
(* Rebuilding.                                                             *)

Cancelled(g) == [h \in Gens |-> IF h = g THEN [run[h] EXCEPT !.cancelled = TRUE] ELSE run[h]]

\* liveFeed.close.
CloseFeed ==
    /\ gen' = gen + 1 /\ run' = Cancelled(stop) /\ stop' = 0 /\ feedLots' = {} /\ timer' = "none"

TimerFires(b) ==
    /\ timer = "armed" /\ rebuild[b].pc = "idle"
    /\ timer' = "spent" /\ rebuild' = [rebuild EXCEPT ![b] = [IdleRebuild EXCEPT !.pc = "start"]]
    /\ PluginUnchanged /\ UNCHANGED <<viewed, views, call, feedLots, gen, stop, run, shown>>

\* The first section: the next generation's number, the set, and the old cancel.
RebuildStarts(b) ==
    /\ rebuild[b].pc = "start" /\ gen < MaxGen
    /\ IF liveEnabled = 0
       THEN CloseFeed /\ rebuild' = [rebuild EXCEPT ![b] = IdleRebuild]
       ELSE /\ gen' = gen + 1 /\ stop' = 0
            /\ rebuild' = [rebuild EXCEPT ![b] = [pc |-> "cancel", host |-> liveEnabled, gen |-> gen + 1,
                                                  watched |-> feedLots, prev |-> stop]]
            /\ UNCHANGED <<run, feedLots, timer>>
    /\ PluginUnchanged /\ UNCHANGED <<viewed, views, call, shown>>

RebuildCancels(b) ==
    /\ rebuild[b].pc = "cancel" /\ run' = Cancelled(rebuild[b].prev)
    /\ rebuild' = [rebuild EXCEPT ![b] = IF rebuild[b].watched = {} THEN IdleRebuild
                                         ELSE [rebuild[b] EXCEPT !.pc = "check"]]
    /\ PluginUnchanged /\ UNCHANGED <<viewed, views, call, feedLots, timer, gen, stop, shown>>

\* mutant: the overtaken rebuild goes on
NotOvertaken(b) == TRUE

Current(b) == gen = rebuild[b].gen

\* The second section, and the generation started.
RebuildRuns(b) ==
    /\ rebuild[b].pc = "check" /\ rebuild' = [rebuild EXCEPT ![b] = IdleRebuild]
    /\ IF Current(b)
       THEN /\ stop' = rebuild[b].gen
            /\ run' = [run EXCEPT ![rebuild[b].gen] =
                          [NoRun EXCEPT !.pc = "dial", !.host = rebuild[b].host,
                                        !.watched = rebuild[b].watched]]
       ELSE UNCHANGED <<stop, run>>
    /\ PluginUnchanged /\ UNCHANGED <<viewed, views, call, feedLots, timer, gen, shown>>

-----------------------------------------------------------------------------
(* A generation.                                                           *)

RunUnchanged == UNCHANGED <<viewed, views, call, feedLots, timer, gen, stop, rebuild>>

\* Messages reach the screens only through a host that is still there.
Told(g, what) ==
    IF run[g].host = liveEnabled
    THEN [l \in LiveLot |-> IF l \in run[g].watched THEN what ELSE shown[l]] ELSE shown

\* Open and Subscribe; both need the host and a context that is not cancelled.
RunDials(g, ok) ==
    /\ run[g].pc = "dial"
    /\ ok => run[g].host = liveEnabled /\ ~run[g].cancelled
    /\ run' = [run EXCEPT ![g].pc = IF ok THEN "joined" ELSE "down"]
    /\ PluginUnchanged /\ RunUnchanged /\ UNCHANGED shown

RunAnnounces(g) ==
    /\ run[g].pc = "joined" /\ run' = [run EXCEPT ![g].pc = "live"] /\ shown' = Told(g, "live")
    /\ PluginUnchanged /\ RunUnchanged

\* What follows the loop: a cancelled generation stays quiet.
AfterLoop(g) == IF run[g].cancelled THEN "ended" ELSE "down"

\* The site drops the socket, a write fails, or the generation was cancelled.
RunLeaves(g) ==
    /\ run[g].pc = "live" /\ run' = [run EXCEPT ![g].pc = AfterLoop(g)]
    /\ PluginUnchanged /\ RunUnchanged /\ UNCHANGED shown

RunTellsDown(g) ==
    /\ run[g].pc = "down" /\ run' = [run EXCEPT ![g].pc = "ended"] /\ shown' = Told(g, "not live")
    /\ PluginUnchanged /\ RunUnchanged

-----------------------------------------------------------------------------
(* The plugin's life.                                                      *)

\* Shutdown forgets the host, stops the host's calls (their viewers are gone with the
\* connections) and ends the feed.
ShutdownStarts ==
    /\ liveEnabled # 0 /\ closing = "no" /\ liveEnabled' = 0 /\ closing' = "unwatch"
    /\ UNCHANGED <<enables, viewed, views, call, feedLots, timer, gen, stop, rebuild, run, shown>>

ShutdownUnwatches ==
    /\ closing = "unwatch" /\ closing' = "close" /\ viewed' = {}
    /\ shown' = [l \in LiveLot |-> "nothing"]
    /\ UNCHANGED <<liveEnabled, enables, views, call, feedLots, timer, gen, stop, rebuild, run>>

ShutdownCloses ==
    /\ closing = "close" /\ closing' = "no" /\ gen < MaxGen /\ CloseFeed
    /\ UNCHANGED <<liveEnabled, enables, viewed, views, call, rebuild, shown>>

EnableLive ==
    /\ liveEnabled = 0 /\ closing = "no" /\ enables < MaxEnabled
    /\ enables' = enables + 1 /\ liveEnabled' = enables + 1
    /\ UNCHANGED <<closing, viewed, views, call, feedLots, timer, gen, stop, rebuild, run, shown>>

LiveNext ==
    \/ \E l \in LiveLot : Demand(l) \/ JoinAdds(l) \/ LeaveRemoves(l) \/ Schedule(l)
    \/ \E l \in LiveLot, found \in {"yes", "no", "error"} : JoinResolves(l, found)
    \/ \E b \in Rebuilder : TimerFires(b) \/ RebuildStarts(b) \/ RebuildCancels(b) \/ RebuildRuns(b)
    \/ \E g \in Gens : RunAnnounces(g) \/ RunLeaves(g) \/ RunTellsDown(g)
    \/ \E g \in Gens, ok \in BOOLEAN : RunDials(g, ok)
    \/ ShutdownStarts \/ ShutdownUnwatches \/ ShutdownCloses \/ EnableLive

LiveSpec == LiveInit /\ [][LiveNext]_liveVars

-----------------------------------------------------------------------------
(* Properties.                                                             *)

Running(g) == run[g].pc \in {"dial", "joined", "live"} /\ ~run[g].cancelled

\* ... and no rebuild holds its cancel function.
Owned(g) ==
    Running(g) /\ \A b \in Rebuilder : rebuild[b].pc = "cancel" => rebuild[b].prev # g

\* Nothing is under way: no call, timer, rebuild, dialling or shutdown.
FeedQuiet ==
    /\ \A l \in LiveLot : call[l] = "none"
    /\ timer # "armed" /\ \A b \in Rebuilder : rebuild[b].pc = "idle"
    /\ \A g \in Gens : run[g].pc \in {"none", "live", "ended"}
    /\ closing = "no"

\* However joins, leaves, overlapping rebuilds and a shutdown interleave, at most one
\* generation is neither cancelled nor in the hands of a rebuild about to cancel it;
\* and once all is quiet a feed that runs carries exactly the watch set, and a plugin
\* without a host runs none (rebuild, close).
FeedMatchesDemand ==
    /\ LiveTypeOK
    /\ \A g, h \in Gens : Owned(g) /\ Owned(h) => g = h
    /\ FeedQuiet => \A g \in Gens : Running(g) => run[g].watched = feedLots /\ liveEnabled # 0

\* No screen is left with a live badge over a dead feed (the comment in run).  It can
\* be: a cancelled generation may announce itself after its successor has failed.
BadgeIsHonest ==
    FeedQuiet /\ liveEnabled # 0 =>
        \A l \in viewed : shown[l] = "live" => \E g \in Gens : Running(g) /\ l \in run[g].watched

\* Nothing is fed that nobody watches.  A Join that outlives a shutdown leaves its lot
\* in the set of the next enablement.
OnlyViewed == FeedQuiet /\ liveEnabled # 0 => feedLots \subseteq viewed
=============================================================================
