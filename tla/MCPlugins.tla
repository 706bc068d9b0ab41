----------------------------- MODULE MCPlugins -----------------------------
(***************************************************************************)
(* An instance for TLC of the plugins at work: two jobs of one definition  *)
(* that compete for a key and a slot, the jobs, requests and tables of the *)
(* utility plugin and those of the auction plugin.  They share no state    *)
(* here; a behaviour exercises one of them, chosen initially, while the    *)
(* others rest in one initial state.                                       *)
(***************************************************************************)
EXTENDS MCJobs, Tid, MCBidrlSweep, BidrlCatalog, BidrlLive, BidrlBids, BidrlWarn,
        BidrlWatch, BidrlAsk

VARIABLE focus

-----------------------------------------------------------------------------
(* The values of the constants. *)

(* What the portal answers: two accounts, one of them generating, over two  *)
(* overlapping periods, with a missing cost, temperature and day; a period  *)
(* whose cost arrived later; nothing.                                       *)
Item(d, k, c, t) == [day |-> d, kwh |-> k, cost |-> c, temp |-> t]
Bill(s, e, items, peak) == [range |-> <<s, e>>, items |-> items, peak |-> peak]
Account(dg, bills) == [electric |-> TRUE, dg |-> dg, bills |-> bills]
NewBill == Bill(3, 4, <<Item(3, 2, -1, 80), Item(4, 0, -1, -1)>>, 3)
OldBill == Bill(1, 3, <<Item(1, 1, 5, 60), Item(2, 2, 5, -1), Item(-1, 2, 5, -1)>>, -1)
MCPortalReply ==
    { <<Account(FALSE, <<NewBill, OldBill, NewBill>>), Account(TRUE, <<NewBill, OldBill>>)>>,
      <<Account(FALSE, <<Bill(3, 4, <<Item(3, 2, 7, -1)>>, -1)>>)>>,
      <<>> }
MCMonthLength == <<2, 3>>
MCBandEdges == <<70>>

-----------------------------------------------------------------------------

Foci == {"jobs", "tid", "sweep", "catalog", "live", "bids", "warn", "watch", "ask"}

(* The initial states a behaviour starts from, one for the components that  *)
(* are not in focus.  Bounds: the utility starts on the first or the last   *)
(* day, the catalog empty.                                                  *)
Starts ==
    /\ today \in IF focus = "tid" THEN {1, Total} ELSE {1}
    /\ focus # "sweep" => automationOn
    /\ ~auction.row
    /\ focus # "bids" => \A l \in BLot : site[l].bidder = Nobody
    /\ focus # "warn" => \A l \in WLot : lotEnds[l] = 0
    /\ focus # "watch" => embedder = CHOOSE d \in Dims : TRUE
    /\ focus # "ask" => askKind = "search"

PluginsInit ==
    /\ focus \in Foci
    /\ Init /\ TidInit /\ SweepInit /\ CatalogInit
    /\ LiveInit /\ BidsInit /\ WarnInit /\ WatchInit /\ AskInit
    /\ Starts

Alone(f) ==
    /\ focus = f /\ UNCHANGED focus
    /\ f # "jobs" => UNCHANGED vars
    /\ f # "tid" => UNCHANGED tidVars
    /\ f # "sweep" => UNCHANGED sweepVars
    /\ f # "catalog" => UNCHANGED catalogVars
    /\ f # "live" => UNCHANGED liveVars
    /\ f # "bids" => UNCHANGED bidsVars
    /\ f # "warn" => UNCHANGED warnVars
    /\ f # "watch" => UNCHANGED watchVars
    /\ f # "ask" => UNCHANGED askVars

(* Bound: a watchlist is edited or its lots and their embeddings change. *)
EditedOrEmbedded ==
    watchEdits' = 0 \/ (lotText' = [l \in WatchLot |-> 1] /\ embedder' = CHOOSE d \in Dims : TRUE)

PluginsNext ==
    \/ Alone("jobs") /\ Next
    \/ Alone("tid") /\ TidNext
    \/ Alone("sweep") /\ SweepNext
    \/ Alone("catalog") /\ CatalogNext
    \/ Alone("live") /\ LiveNext
    \/ Alone("bids") /\ BidsNext
    \/ Alone("warn") /\ WarnNext
    \/ Alone("watch") /\ WatchNext /\ EditedOrEmbedded
    \/ Alone("ask") /\ AskNext

PluginsSpec ==
    PluginsInit /\ [][PluginsNext]_<<vars, tidVars, sweepVars, catalogVars,
                               liveVars, bidsVars, warnVars, watchVars, askVars, focus>>

=============================================================================
