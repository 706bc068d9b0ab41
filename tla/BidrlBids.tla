------------------------------ MODULE BidrlBids ------------------------------
(***************************************************************************)
(* Bids on the stored lots of one auction (plugins/bidrl: catalog.go,      *)
(* live.go apply, pusher.go, refreshJob and enrichJob of jobs.go).         *)
(*                                                                         *)
(* Four readers write the same rows: a frame of the live feed, the         *)
(* auction's catalog (the refresh job and every list view), one lot's      *)
(* snapshot (its screen) and ItemData (the enrich job).  Each reads the    *)
(* site first and writes later, one statement per lot and one for the      *)
(* auction.  The catalog names the winner by id only.                      *)
(***************************************************************************)
EXTENDS Naturals, FiniteSetsExt

CONSTANTS
    BLot,           \* lots of the auction
    Bidder,         \* bidders; a bidder's id and name are told apart by the field
    Nobody,         \* an empty id or name
    SiteReader,     \* concurrent readers of the site
    FreshTTL,       \* catalogFreshTTL
    SoftClose,      \* how far a late bid moves a lot's close
    MaxBid, MaxBidClock, MaxReads   \* bounds

ASSUME BidsAssumption ==
    /\ FreshTTL \in Nat /\ SoftClose \in Nat
    /\ MaxBid \in Nat /\ MaxBidClock \in Nat /\ MaxReads \in Nat

\* A close of 0 is the empty string.
Closes == 0 .. MaxBidClock + 1 + MaxBid * SoftClose

VARIABLES
    site,           \* site[l] = [bid, bidder, ends]: external, what BidRL holds
    bidRow,         \* bidRow[l] = [bid, id, name, ends, at]: bidrl_lots
    auctionEnds,    \* bidrl_auctions.ends_at
    bidClock,
    reader,         \* [pc, kind, snap, left]
    reads

bidsVars == <<site, bidRow, auctionEnds, bidClock, reader, reads>>

Snap == [bid : 0 .. MaxBid, id : Bidder \cup {Nobody}, name : Bidder \cup {Nobody}, ends : Closes]
NoSnap == [bid |-> 0, id |-> Nobody, name |-> Nobody, ends |-> 0]
IdleReader == [pc |-> "idle", kind |-> "feed", snap |-> [l \in BLot |-> NoSnap], left |-> {}]

BidsTypeOK ==
    /\ \A l \in BLot :
          /\ site[l].bid \in 0 .. MaxBid /\ site[l].bidder \in Bidder \cup {Nobody}
          /\ site[l].ends \in Closes
          /\ bidRow[l].bid \in 0 .. MaxBid /\ bidRow[l].ends \in Closes
          /\ bidRow[l].id \in Bidder \cup {Nobody} /\ bidRow[l].name \in Bidder \cup {Nobody}
          /\ bidRow[l].at \in 0 .. MaxBidClock
    /\ auctionEnds \in Closes /\ bidClock \in 0 .. MaxBidClock /\ reads \in 0 .. MaxReads
    /\ \A r \in SiteReader :
          /\ reader[r].pc \in {"idle", "rows", "auction"}
          /\ reader[r].kind \in {"feed", "catalog", "lot", "enrich"}
          /\ reader[r].snap \in [BLot -> Snap] /\ reader[r].left \subseteq BLot

\* A collected auction: the rows agree with the site and carry the winner's name.
BidsInit ==
    /\ \E b \in Bidder \cup {Nobody} :
          /\ site = [l \in BLot |-> [bid |-> 0, bidder |-> b, ends |-> MaxBidClock]]
          /\ bidRow = [l \in BLot |-> [bid |-> 0, id |-> b, name |-> b, ends |-> MaxBidClock, at |-> 0]]
    /\ auctionEnds = MaxBidClock /\ bidClock = 0
    /\ reader = [r \in SiteReader |-> IdleReader] /\ reads = 0

-----------------------------------------------------------------------------
(* The site, external.                                                     *)

SiteBids(l, b) ==
    /\ site[l].bid < MaxBid /\ site[l].ends >= bidClock
    /\ site' = [site EXCEPT ![l] = [bid |-> @.bid + 1, bidder |-> b, ends |-> @.ends + SoftClose]]
    /\ UNCHANGED <<bidRow, auctionEnds, bidClock, reader, reads>>

\* What a reader learns of a lot: the catalog never names the winner, and any of them
\* may leave the close out.
Reply(kind, l, dated) ==
    [bid |-> site[l].bid, id |-> site[l].bidder,
     name |-> IF kind = "catalog" THEN Nobody ELSE site[l].bidder,
     ends |-> IF dated THEN site[l].ends ELSE 0]

-----------------------------------------------------------------------------
(* Readers.                                                                *)

Open(l) == bidRow[l].ends = 0 \/ bidRow[l].ends > bidClock
Stale(l) == bidRow[l].at + FreshTTL < bidClock

\* Which lots a reader of this kind asks about now.  A list view asks when the
\* stalest open lot is stale (staleAuctions); a lot's screen when that lot is open and
\* stale (freshenLot); the refresh and enrich jobs always; the feed when it has a bid.
Asks(kind, l) ==
    CASE kind = "catalog" -> \E m \in BLot : Open(m) /\ Stale(m)
      [] kind = "lot"     -> Open(l) /\ Stale(l)
      [] OTHER            -> TRUE

\* The site is read: one lot, or every lot of the catalog.  "job" is the refresh job,
\* which reads the catalog however fresh the rows are.
ReadSite(r, kind, l, dated, job) ==
    /\ reader[r].pc = "idle" /\ reads < MaxReads
    /\ job => kind = "catalog"
    /\ job \/ Asks(kind, l)
    /\ LET ls == IF kind = "catalog" THEN BLot ELSE {l} IN
       reader' = [reader EXCEPT ![r] =
            [pc |-> "rows", kind |-> kind, left |-> ls,
             snap |-> [m \in BLot |-> IF m \in ls THEN Reply(kind, m, dated) ELSE NoSnap]]]
    /\ reads' = reads + 1
    /\ UNCHANGED <<site, bidRow, auctionEnds, bidClock>>

\* mutant: a catalog refresh keeps the name whoever is winning
NameKept(kind, s, row) == IF kind = "catalog" THEN row.name ELSE s.name

\* The name after a write: given, or kept while the id confirms it, or cleared.
NameAfter(kind, s, row) ==
    CASE kind # "catalog"                     -> s.name
      [] s.name # Nobody                      -> s.name
      [] s.id # Nobody /\ s.id = row.id       -> row.name
      [] OTHER                                -> Nobody

\* ... and the id: the catalog leaves it when it names nobody.
IdAfter(kind, s, row) == IF kind = "catalog" /\ s.id = Nobody THEN row.id ELSE s.id

\* ... and the close: kept when the reply has none, except by the enrich job.
EndsAfter(kind, s, row) == IF kind # "enrich" /\ s.ends = 0 THEN row.ends ELSE s.ends

\* One lot's row.
WriteRow(r, l) ==
    /\ reader[r].pc = "rows" /\ l \in reader[r].left
    /\ LET kind == reader[r].kind  s == reader[r].snap[l]  row == bidRow[l] IN
       bidRow' = [bidRow EXCEPT ![l] =
            [bid |-> s.bid, id |-> IdAfter(kind, s, row), name |-> NameAfter(kind, s, row),
             ends |-> EndsAfter(kind, s, row),
             at |-> IF kind = "enrich" THEN row.at ELSE bidClock]]
    /\ reader' = [reader EXCEPT ![r].left = @ \ {l},
                                ![r].pc = IF reader[r].left = {l} THEN "auction" ELSE "rows"]
    /\ UNCHANGED <<site, auctionEnds, bidClock, reads>>

\* The auction's close: the catalog sets the latest of its lots, the others only move
\* it later.  An interrupted reader stops before.
WriteAuction(r) ==
    /\ reader[r].pc = "auction"
    /\ LET ends == Max({reader[r].snap[l].ends : l \in BLot}) IN
       auctionEnds' = IF ends = 0 \/ (reader[r].kind # "catalog" /\ auctionEnds >= ends)
                      THEN auctionEnds ELSE ends
    /\ reader' = [reader EXCEPT ![r] = IdleReader]
    /\ UNCHANGED <<site, bidRow, bidClock, reads>>

\* The request is cancelled, its budget is spent, or a write fails.
ReaderStops(r) ==
    /\ reader[r].pc # "idle" /\ reader' = [reader EXCEPT ![r] = IdleReader]
    /\ UNCHANGED <<site, bidRow, auctionEnds, bidClock, reads>>

BidsTick ==
    /\ bidClock < MaxBidClock /\ bidClock' = bidClock + 1
    /\ UNCHANGED <<site, bidRow, auctionEnds, reader, reads>>

BidsNext ==
    \/ \E l \in BLot, b \in Bidder : SiteBids(l, b)
    \/ \E r \in SiteReader, l \in BLot, kind \in {"feed", "catalog", "lot", "enrich"},
          dated \in BOOLEAN, job \in BOOLEAN : ReadSite(r, kind, l, dated, job)
    \/ \E r \in SiteReader, l \in BLot : WriteRow(r, l)
    \/ \E r \in SiteReader : WriteAuction(r) \/ ReaderStops(r)
    \/ BidsTick

BidsSpec == BidsInit /\ [][BidsNext]_bidsVars

-----------------------------------------------------------------------------
(* Properties.                                                             *)

\* A stored winner's name is the name of the stored winner's id, whichever readers
\* wrote the row and however late their answers were (applyCatalogBids).
NameBelongs ==
    BidsTypeOK /\ \A l \in BLot : bidRow[l].name # Nobody => bidRow[l].name = bidRow[l].id

\* A stored bid never falls.  It may: an answer read earlier is written later.
BidNeverFalls == [][\A l \in BLot : bidRow'[l].bid >= bidRow[l].bid]_bidsVars

\* An auction does not close before its lots.  The catalog's write moves the close
\* back when its answer is older than a soft close, and cleanup goes by that close.
AuctionClosesLast == \A l \in BLot : \A r \in SiteReader :
    reader[r].pc = "idle" => bidRow[l].ends <= auctionEnds
=============================================================================
