---------------------------- MODULE BidrlCatalog ----------------------------
(***************************************************************************)
(* One auction of the bidrl plugin, its lots and their photos              *)
(* (plugins/bidrl: collect.go, cleanup.go, favorites_http.go,              *)
(* auctions_http.go and the enrich job of jobs.go).                        *)
(*                                                                         *)
(* A collection writes photos while it reads and the rows at its end, in   *)
(* one transaction; a removal reads the photo keys, deletes the rows in    *)
(* one transaction and the photos afterwards; "Remove ended" decides from  *)
(* rows read earlier.  Photo keys are derived from the auction and the     *)
(* lot, so two collections of a lot write the same keys: one photo per lot *)
(* is modelled.  Nothing in the schema ties these tables together.         *)
(***************************************************************************)
EXTENDS Naturals, FiniteSets

CONSTANTS
    CLot,           \* the lots the gallery lists
    Collector,      \* collections of the auction: collect jobs and sweeps
    Remover,        \* removal requests
    MaxStarts       \* bound on the collections and removals started

ASSUME CatalogAssumption == MaxStarts \in Nat /\ CLot # {}

Closing == {"unknown", "open", "ended"}

VARIABLES
    auction,        \* [row, status, hidden, closes]: the bidrl_auctions row
    lotRow,         \* lotRow[l] = [row, closes, image]: bidrl_lots and bidrl_images
    blobs,          \* the lots whose photo is stored
    saved,          \* bidrl_favorites
    found,          \* bidrl_findings in state 'new'
    saving,         \* favourite requests past their existence check
    collector,      \* [pc, got]
    remover,        \* [pc, kind, auction, whole, drop, cur, keys, pinned]
    enriching,      \* [pc, lot, image]: the enrich job
    starts,
    lostPinned      \* history: pinned lots that a cleanup removed

catalogVars == <<auction, lotRow, blobs, saved, found, saving, collector, remover,
                 enriching, starts, lostPinned>>

NoLotRow == [row |-> FALSE, closes |-> "unknown", image |-> FALSE]
NoAuctionRow == [row |-> FALSE, status |-> "none", hidden |-> FALSE, closes |-> "unknown"]
Unread == "unread"
IdleCollector == [pc |-> "idle", got |-> [l \in CLot |-> Unread]]
IdleRemover == [pc |-> "idle", kind |-> "delete", auction |-> NoAuctionRow,
                drop |-> {}, whole |-> FALSE, cur |-> {}, keys |-> {}, pinned |-> {}]
IdleEnrich == [pc |-> "idle", lot |-> CHOOSE l \in CLot : TRUE]

LotRows == [row : BOOLEAN, closes : Closing, image : BOOLEAN]
AuctionRows == [row : BOOLEAN, status : {"none", "collecting", "ready", "failed"},
                hidden : BOOLEAN, closes : Closing]

CatalogTypeOK ==
    /\ auction \in AuctionRows
    /\ lotRow \in [CLot -> LotRows]
    /\ blobs \subseteq CLot /\ saved \subseteq CLot /\ found \subseteq CLot /\ saving \subseteq CLot
    /\ collector \in [Collector -> [pc : {"idle", "harvest", "report"},
                                    got : [CLot -> {Unread, "skipped", "bare", "photo"}]]]
    /\ \A k \in Remover :
          /\ remover[k].pc \in {"idle", "readLots", "plan", "keys", "tx", "photos"}
          /\ remover[k].kind \in {"delete", "cleanup"}
          /\ remover[k].auction \in AuctionRows /\ remover[k].whole \in BOOLEAN
          /\ UNION {remover[k].drop, remover[k].cur, remover[k].keys, remover[k].pinned} \subseteq CLot
    /\ enriching.pc \in {"idle", "update", "count", "insert"} /\ enriching.lot \in CLot
    /\ starts \in 0 .. MaxStarts /\ lostPinned \subseteq CLot

\* A fresh table, or an auction an earlier job collected, photos and all.
CatalogInit ==
    /\ \/ /\ auction = NoAuctionRow /\ blobs = {}
          /\ lotRow = [l \in CLot |-> NoLotRow]
       \/ /\ auction = [row |-> TRUE, status |-> "ready", hidden |-> FALSE, closes |-> "open"]
          /\ lotRow = [l \in CLot |-> [row |-> TRUE, closes |-> "open", image |-> TRUE]]
          /\ blobs = CLot
    /\ saved = {} /\ found = {} /\ saving = {}
    /\ collector = [c \in Collector |-> IdleCollector]
    /\ remover = [k \in Remover |-> IdleRemover]
    /\ enriching = IdleEnrich
    /\ starts = 0 /\ lostPinned = {}

Pinned == saved \cup found

-----------------------------------------------------------------------------
(* Collection.                                                             *)

\* upsertAuction: the row is there, being collected and shown again.
CollectStart(c) ==
    /\ collector[c].pc = "idle" /\ starts < MaxStarts
    /\ auction' = [auction EXCEPT !.row = TRUE, !.status = "collecting", !.hidden = FALSE]
    /\ collector' = [collector EXCEPT ![c] = [IdleCollector EXCEPT !.pc = "harvest"]]
    /\ starts' = starts + 1
    /\ UNCHANGED <<lotRow, blobs, saved, found, saving, remover, enriching, lostPinned>>

\* collectListed for one lot: ItemData unreadable, read without a photo, or read with
\* the photo stored under its key at once.
ReadLot(c, l, how) ==
    /\ collector[c].pc = "harvest" /\ collector[c].got[l] = Unread
    /\ collector' = [collector EXCEPT ![c].got[l] = how]
    /\ blobs' = IF how = "photo" THEN blobs \cup {l} ELSE blobs
    /\ UNCHANGED <<auction, lotRow, saved, found, saving, remover, enriching, starts, lostPinned>>

\* harvest fails: failAuction updates the row where there still is one.  A cancelled
\* attempt returns without it and leaves "collecting" behind.
HarvestFailed(c) ==
    /\ collector[c].pc = "harvest"
    /\ auction' \in {auction, IF auction.row THEN [auction EXCEPT !.status = "failed"] ELSE auction}
    /\ collector' = [collector EXCEPT ![c] = IdleCollector]
    /\ UNCHANGED <<lotRow, blobs, saved, found, saving, remover, enriching, starts, lostPinned>>

\* storeCollected: the auction row only where it exists, the lots whether or not, the
\* images of every lot read replaced.
StoreRows(c, closes) ==
    /\ collector[c].pc = "harvest" /\ \A l \in CLot : collector[c].got[l] # Unread
    /\ lotRow' = [l \in CLot |->
                    IF collector[c].got[l] = "skipped" THEN lotRow[l]
                    ELSE [row |-> TRUE, closes |-> closes, image |-> collector[c].got[l] = "photo"]]
    /\ auction' = IF auction.row THEN [auction EXCEPT !.status = "ready", !.closes = closes]
                  ELSE auction
    /\ collector' = [collector EXCEPT ![c].pc = "report"]
    /\ UNCHANGED <<blobs, saved, found, saving, remover, enriching, starts, lostPinned>>

\* auctionLocation and auction.collected: an error when the row is gone by now.
CollectReports(c) ==
    /\ collector[c].pc = "report"
    /\ collector' = [collector EXCEPT ![c] = IdleCollector]
    /\ UNCHANGED <<auction, lotRow, blobs, saved, found, saving, remover, enriching, starts,
                   lostPinned>>

-----------------------------------------------------------------------------
(* Removal.                                                                *)

HasEnded(closes) == closes = "ended"

\* auctionEnded: the auction is past, or every lot that says when it closes is.
AuctionEnded(a, lots) ==
    LET known == {l \in CLot : lots[l].row /\ lots[l].closes # "unknown"} IN
    \/ HasEnded(a.closes)
    \/ known # {} /\ \A l \in known : HasEnded(lots[l].closes)

\* mutant: an undecided finding does not pin its lot
PinsSaved(lots) == {l \in CLot : lots[l].row /\ l \in saved}

\* The lots cleanup sees pinned: saved, or with a finding nobody decided.
Pins(lots) == {l \in CLot : lots[l].row /\ l \in saved \cup found}

\* handleDeleteAuction: deleteAuction without a plan.
DeleteStart(k) ==
    /\ remover[k].pc = "idle" /\ starts < MaxStarts
    /\ remover' = [remover EXCEPT ![k] = [IdleRemover EXCEPT !.pc = "keys", !.whole = TRUE]]
    /\ starts' = starts + 1
    /\ UNCHANGED <<auction, lotRow, blobs, saved, found, saving, collector, enriching, lostPinned>>

\* cleanupExpired reads the auctions ...
CleanupStart(k) ==
    /\ remover[k].pc = "idle" /\ starts < MaxStarts /\ auction.row
    /\ remover' = [remover EXCEPT ![k] = [IdleRemover EXCEPT !.pc = "readLots", !.kind = "cleanup",
                                                             !.auction = auction]]
    /\ starts' = starts + 1
    /\ UNCHANGED <<auction, lotRow, blobs, saved, found, saving, collector, enriching, lostPinned>>

\* ... and then their lots with what pins them, and decides; a lot that closes between
\* the two reads counts as ended.  "pinned" is history: the lots pinned ever since.
CleanupReadsLots(k) ==
    /\ remover[k].pc = "readLots"
    /\ LET over == AuctionEnded(remover[k].auction, lotRow)
           pins == Pins(lotRow) IN
       remover' = [remover EXCEPT ![k] =
            [remover[k] EXCEPT
                !.pc = "plan", !.pinned = {l \in Pinned : lotRow[l].row}, !.whole = over /\ pins = {},
                !.drop = {l \in CLot : lotRow[l].row /\ l \notin pins /\ HasEnded(lotRow[l].closes)},
                !.auction = [remover[k].auction EXCEPT !.hidden = over /\ pins # {}]]]
    /\ UNCHANGED <<auction, lotRow, blobs, saved, found, saving, collector, enriching, starts,
                   lostPinned>>

\* The next removal of the plan, or the shell hidden and the request over.
CleanupPlan(k) ==
    /\ remover[k].pc = "plan"
    /\ IF remover[k].whole \/ remover[k].drop # {}
       THEN /\ remover' = [remover EXCEPT ![k].pc = "keys"]
            /\ UNCHANGED auction
       ELSE /\ remover' = [remover EXCEPT ![k] = IdleRemover]
            /\ auction' = IF auction.row /\ remover[k].auction.hidden
                          THEN [auction EXCEPT !.hidden = TRUE] ELSE auction
    /\ UNCHANGED <<lotRow, blobs, saved, found, saving, collector, enriching, starts, lostPinned>>

\* What one deletion is about: the whole auction, or one lot of the plan.
Targets(k) ==
    IF remover[k].whole THEN {CLot} ELSE {{l} : l \in remover[k].drop}

\* blobKeys: the photos named by the rows there are now.
ReadKeys(k, ls) ==
    /\ remover[k].pc = "keys"
    /\ remover' = [remover EXCEPT ![k].pc = "tx", ![k].cur = ls,
                        ![k].keys = {l \in ls : lotRow[l].image /\ (remover[k].whole => lotRow[l].row)}]
    /\ UNCHANGED <<auction, lotRow, blobs, saved, found, saving, collector, enriching, starts,
                   lostPinned>>

\* The transaction of deleteAuction or deleteLot: the rows and everything that names
\* them.  deleteAuction finds the lots by their rows, so what hangs on a lot without
\* one stays.
DeleteRows(k) ==
    /\ remover[k].pc = "tx"
    /\ LET gone == {l \in remover[k].cur : remover[k].whole => lotRow[l].row} IN
       /\ lotRow' = [l \in CLot |-> IF l \in gone THEN NoLotRow ELSE lotRow[l]]
       /\ saved' = saved \ gone /\ found' = found \ gone
       /\ lostPinned' = IF remover[k].kind = "cleanup"
                        THEN lostPinned \cup (gone \cap remover[k].pinned) ELSE lostPinned
       /\ remover' = [j \in Remover |->
            IF j = k THEN [remover[k] EXCEPT !.pc = "photos", !.drop = @ \ remover[k].cur]
            ELSE [remover[j] EXCEPT !.pinned = @ \ gone]]
    /\ auction' = IF remover[k].whole THEN NoAuctionRow ELSE auction
    /\ UNCHANGED <<blobs, saving, collector, enriching, starts>>

\* The photos go, one by one, after the commit.
DeletePhoto(k, l) ==
    /\ remover[k].pc = "photos" /\ l \in remover[k].keys
    /\ blobs' = blobs \ {l}
    /\ remover' = [remover EXCEPT ![k].keys = @ \ {l}]
    /\ UNCHANGED <<auction, lotRow, saved, found, saving, collector, enriching, starts, lostPinned>>

RemovalDone(k) ==
    /\ remover[k].pc = "photos" /\ remover[k].keys = {}
    /\ remover' = [remover EXCEPT ![k] =
            IF remover[k].whole THEN IdleRemover ELSE [remover[k] EXCEPT !.pc = "plan"]]
    /\ UNCHANGED <<auction, lotRow, blobs, saved, found, saving, collector, enriching, starts,
                   lostPinned>>

-----------------------------------------------------------------------------
(* Saving, findings, enrichment, time.                                     *)

\* handleFavorite checks the lot and then writes.
FavoriteChecks(l) ==
    /\ lotRow[l].row /\ saving' = saving \cup {l}
    /\ UNCHANGED <<auction, lotRow, blobs, saved, found, collector, remover, enriching, starts,
                   lostPinned>>

FavoriteWrites(l) ==
    /\ l \in saving /\ saving' = saving \ {l} /\ saved' = saved \cup {l}
    /\ UNCHANGED <<auction, lotRow, blobs, found, collector, remover, enriching, starts, lostPinned>>

\* A lot that nothing pins any more is no longer pinned since the removers read.
Unpinned(l, stays) ==
    [k \in Remover |-> IF stays THEN remover[k] ELSE [remover[k] EXCEPT !.pinned = @ \ {l}]]

Unfavorite(l) ==
    /\ l \in saved /\ saved' = saved \ {l} /\ remover' = Unpinned(l, l \in found)
    /\ UNCHANGED <<auction, lotRow, blobs, found, saving, collector, enriching, starts, lostPinned>>

\* storeFindings and decideFinding, where they touch the pin.
FindingStored(l) ==
    /\ lotRow[l].row /\ l \notin found /\ found' = found \cup {l}
    /\ UNCHANGED <<auction, lotRow, blobs, saved, saving, collector, remover, enriching, starts,
                   lostPinned>>

FindingDecided(l, accepted) ==
    /\ l \in found /\ found' = found \ {l}
    /\ saved' = IF accepted THEN saved \cup {l} ELSE saved
    /\ remover' = Unpinned(l, accepted \/ l \in saved)
    /\ UNCHANGED <<auction, lotRow, blobs, saving, collector, enriching, starts, lostPinned>>

\* enrichJob: the lot is loaded, read, updated where it still is, and given photos
\* when the count finds none.
EnrichLoads(l) ==
    /\ enriching.pc = "idle" /\ lotRow[l].row /\ starts < MaxStarts
    /\ enriching' = [pc |-> "update", lot |-> l] /\ starts' = starts + 1
    /\ UNCHANGED <<auction, lotRow, blobs, saved, found, saving, collector, remover, lostPinned>>

EnrichUpdates(closes) ==
    /\ enriching.pc = "update"
    /\ lotRow' = [lotRow EXCEPT ![enriching.lot].closes = IF lotRow[enriching.lot].row THEN closes ELSE @]
    /\ auction' = [auction EXCEPT !.closes =
                      IF auction.row /\ (@ = "unknown" \/ closes = "open") THEN closes ELSE @]
    /\ enriching' = [enriching EXCEPT !.pc = "count"]
    /\ UNCHANGED <<blobs, saved, found, saving, collector, remover, starts, lostPinned>>

EnrichCounts ==
    /\ enriching.pc = "count"
    /\ IF lotRow[enriching.lot].image
       THEN enriching' = IdleEnrich /\ UNCHANGED blobs
       ELSE /\ enriching' = [enriching EXCEPT !.pc = "insert"]
            /\ blobs' = blobs \cup {enriching.lot}
    /\ UNCHANGED <<auction, lotRow, saved, found, saving, collector, remover, starts, lostPinned>>

\* The insert breaks on an image a collection stored meanwhile; the job then fails.
EnrichInserts ==
    /\ enriching.pc = "insert"
    /\ lotRow' = [lotRow EXCEPT ![enriching.lot].image = TRUE]
    /\ enriching' = IdleEnrich
    /\ UNCHANGED <<auction, blobs, saved, found, saving, collector, remover, starts, lostPinned>>

LotCloses(l) ==
    /\ lotRow[l].closes = "open" /\ lotRow' = [lotRow EXCEPT ![l].closes = "ended"]
    /\ auction' = IF auction.closes = "open" /\ \A m \in CLot \ {l} : lotRow[m].closes # "open"
                  THEN [auction EXCEPT !.closes = "ended"] ELSE auction
    /\ UNCHANGED <<blobs, saved, found, saving, collector, remover, enriching, starts, lostPinned>>

CatalogNext ==
    \/ \E c \in Collector : CollectStart(c) \/ HarvestFailed(c) \/ CollectReports(c)
    \/ \E c \in Collector, l \in CLot, how \in {"skipped", "bare", "photo"} : ReadLot(c, l, how)
    \/ \E c \in Collector, closes \in {"unknown", "open"} : StoreRows(c, closes)
    \/ \E k \in Remover : DeleteStart(k) \/ CleanupStart(k) \/ CleanupReadsLots(k)
                          \/ CleanupPlan(k) \/ DeleteRows(k) \/ RemovalDone(k)
    \/ \E k \in Remover : \E ls \in Targets(k) : ReadKeys(k, ls)
    \/ \E k \in Remover, l \in CLot : DeletePhoto(k, l)
    \/ \E l \in CLot : FavoriteChecks(l) \/ FavoriteWrites(l) \/ Unfavorite(l)
                       \/ FindingStored(l) \/ EnrichLoads(l) \/ LotCloses(l)
    \/ \E l \in CLot, accepted \in BOOLEAN : FindingDecided(l, accepted)
    \/ \E closes \in {"unknown", "open"} : EnrichUpdates(closes)
    \/ EnrichCounts \/ EnrichInserts

CatalogSpec == CatalogInit /\ [][CatalogNext]_catalogVars

-----------------------------------------------------------------------------
(* Properties.                                                             *)

\* "Remove ended" never takes a lot that has been saved, or that has had an undecided
\* finding, since the request read the lots; whatever collections, enrichments,
\* deletions and other requests run beside it (cleanupPlan, deleteLot, deleteAuction).
PinnedSurvive == CatalogTypeOK /\ lostPinned = {}

\* What the comment of cleanupPlan says without that reservation: a saved lot is never
\* removed.  A lot saved between the read and the deletion is.
SavedLotKept ==
    [][\A k \in Remover, l \in CLot :
          remover[k].kind = "cleanup" /\ remover[k].pc = "tx" /\ remover'[k].pc = "photos"
          /\ l \in saved => l \in saved']_catalogVars

\* The photos that the rows name are stored.  They are not after a deletion that
\* overlaps a collection: it deletes keys the collection has just written again.
PhotosStored == \A l \in CLot : lotRow[l].row /\ lotRow[l].image => l \in blobs

\* A lot belongs to a stored auction.  It does not after a collection that stores its
\* rows when the auction was deleted under it.
LotsHaveAuction == (\E l \in CLot : lotRow[l].row) => auction.row

=============================================================================
